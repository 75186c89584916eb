----------------------------- MODULE Bluetooth ------------------------------
(***************************************************************************)
(* The Bluetooth transport: the dongle's interface                         *)
(* (usbip/classes/device/bluetooth.py, BluetoothInterface) and its host    *)
(* driver (usbip/classes/host/bluetooth.py).  ACL packets come on a bulk    *)
(* pipe that cuts them into transfers of any size; the dongle puts them    *)
(* together by the length in their header.  A host may go away inside a    *)
(* packet, and the reset hook forgets what it left.                        *)
(*                                                                         *)
(* Abstracted: a payload byte is a value that tells packets apart; events  *)
(* and ACL packets to the host are the IN endpoint's business.             *)
(***************************************************************************)
EXTENDS Integers, Sequences, SequencesExt

CONSTANTS
    Payloads,     \* the payloads of ACL packets
    MaxTransfer,  \* bound: bytes in one bulk OUT transfer
    MaxPackets,   \* bound: packets that a host sends
    ByteMod       \* a byte holds this many values, 256 in the code

\* A packet's length is written in two bytes.
ASSUME PayloadAssumption ==
    /\ ByteMod \in Nat \ {0}
    /\ \A payload \in Payloads : payload \in Seq(Nat) /\ Len(payload) < ByteMod * ByteMod

HeaderLen == 4    \* handle, two bytes; length, two bytes, low one first

VARIABLES
    aclRx,     \* _acl_rx, the bytes not yet delivered
    delivered, \* what on_acl was given since the host came
    sending,   \* the host: bytes of its packets that it has not sent yet
    packets    \* history: the packets of this host

btVars == <<aclRx, delivered, sending, packets>>

Pdu(payload) == <<0, 0, Len(payload) % ByteMod, Len(payload) \div ByteMod>> \o payload

-----------------------------------------------------------------------------
PduLength(rx) == HeaderLen + rx[3] + ByteMod * rx[4]

HasPdu(rx) == Len(rx) >= HeaderLen /\ Len(rx) >= PduLength(rx)

\* Mutant: a transfer ends at most one packet.
DeliverOne(rx, pdus) ==
    IF HasPdu(rx)
    THEN [rx |-> SubSeq(rx, PduLength(rx) + 1, Len(rx)),
          pdus |-> Append(pdus, SubSeq(rx, 1, PduLength(rx)))]
    ELSE [rx |-> rx, pdus |-> pdus]

\* on_out: every packet that is whole is delivered, the rest is kept.
Deliver(rx, pdus) ==
    LET Loop[n \in Nat] ==
            IF n = 0 THEN [rx |-> rx, pdus |-> pdus]
            ELSE LET s == Loop[n - 1]
                 IN  IF HasPdu(s.rx)
                     THEN [rx |-> SubSeq(s.rx, PduLength(s.rx) + 1, Len(s.rx)),
                           pdus |-> Append(s.pdus, SubSeq(s.rx, 1, PduLength(s.rx)))]
                     ELSE s
    IN  Loop[Len(rx) \div HeaderLen]

-----------------------------------------------------------------------------
BtInit == aclRx = <<>> /\ delivered = <<>> /\ sending = <<>> /\ packets = <<>>

\* The host has a packet to send.
SendAcl(payload) ==
    /\ Len(packets) < MaxPackets
    /\ sending' = sending \o Pdu(payload)
    /\ packets' = Append(packets, Pdu(payload))
    /\ UNCHANGED <<aclRx, delivered>>

\* One bulk OUT transfer of the next n bytes.
OnOut(n) ==
    /\ n <= Len(sending)
    /\ sending' = SubSeq(sending, n + 1, Len(sending))
    /\ LET s == Deliver(aclRx \o SubSeq(sending, 1, n), delivered)
       IN  aclRx' = s.rx /\ delivered' = s.pdus
    /\ UNCHANGED packets

\* on_reset: a host attaches, or configures the device again, with whatever
\* the last one had left in the pipe.
OnReset ==
    /\ aclRx' = <<>>
    /\ delivered' = <<>> /\ sending' = <<>> /\ packets' = <<>>

BtNext ==
    \/ \E payload \in Payloads : SendAcl(payload)
    \/ \E n \in 1 .. MaxTransfer : OnOut(n)
    \/ OnReset

BtSpec == BtInit /\ [][BtNext]_btVars

-----------------------------------------------------------------------------
(* Properties.                                                             *)

\* The controller has been given, in order and unchanged, exactly the packets
\* of this host whose last byte has come: none waits for a later transfer, none
\* is joined with another's bytes or with what an earlier host left.
PacketsReassembled ==
    LET arrived == Len(FlattenSeq(packets)) - Len(sending)
        whole   == {k \in 0 .. Len(packets) : Len(FlattenSeq(SubSeq(packets, 1, k))) <= arrived}
    IN  delivered = SubSeq(packets, 1, CHOOSE k \in whole : \A j \in whole : j <= k)
=============================================================================
