----------------------------- MODULE MCSessions -----------------------------
(* Small instances of the parts; each is bounded by its own constants.      *)
EXTENDS Sessions

CONSTANTS dev1, dev2, dev3, h1     \* devices and a host

\* Listener: threads that share a transport are left out.
AnyButBoth == {<<TRUE, FALSE>>, <<TRUE, TRUE>>, <<FALSE, FALSE>>}

\* Wire: three devices to list, and a count of packets where there are none.
MCExported == <<2, 1, 3>>
MCCounts == {2}

\* Report: the values at which an item grows by a byte.
MCValues ==
    [usage_page |-> {255, 256}, logical_min |-> {-128, -129},
     logical_max |-> {127, 128, 32767}, report_size |-> {8}, report_count |-> {255},
     report_id |-> {1}, usage |-> {48, 568}, usage_min |-> {1}, usage_max |-> {231},
     collection |-> {1}, end_collection |-> {0}, input |-> {2}, output |-> {2}, feature |-> {3}]

\* Hid: a letter twice, a letter that has no key.
MCText == <<"a", "a", "?", "b">>

\* Dfu: two targets of four bytes, blocks of two, images that fit and do not.
MCTargets == {0, 1}
MCImages == {<<"a">>, <<"b", "a", "a", "b">>, <<"a", "a", "a", "a", "b">>}
MCStrayData == {<<"b">>}

\* Bluetooth: an empty packet, one whose length needs both bytes.
MCPayloads == {<<>>, <<1>>, <<1, 0, 1>>}

\* Video: frames smaller and larger than a packet.
MCFrameSizes == <<3, 5>>

\* Composition: all bundled classes and a raw group.
MCKinds == DOMAIN InterfacesOf

\* Clip: frames in chunks, alike or not; which of them are key frames.
MCChunkCounts == {<<1>>, <<2, 2>>, <<2, 1>>, <<1, 1, 2>>, <<2, 1, 1>>, <<1, 2, 2>>}
MCKeyFrames == {{}, {1}, {1, 3}}

\* Jpeg: a block by its DC and the other coefficients that are not zero: none,
\* a few, a run of more than sixteen, the last one, all of them.
MCBlock(dc, ac) ==
    [i \in 1 .. BlockCoeffs |-> IF i = 1 THEN dc ELSE IF i - 1 \in DOMAIN ac THEN ac[i - 1] ELSE 0]
MCBlocks ==
    {MCBlock(0, <<>>), MCBlock(3, 1 :> 1 @@ 3 :> -3), MCBlock(-4, 18 :> 2 @@ 19 :> 3),
     MCBlock(-1, [i \in 1 .. 19 |-> IF i % 2 = 0 THEN 3 ELSE -1])}
MCScans == [1 .. 3 -> {<<b>> : b \in MCBlocks}] \cup [1 .. 2 -> {<<a, b>> : a, b \in MCBlocks}]
MCComponents == {<<1>>, <<1, 2>>, <<1, 1>>}
=============================================================================
