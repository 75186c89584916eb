------------------------------- MODULE Report -------------------------------
(***************************************************************************)
(* HID report descriptors: the items that a device makes                   *)
(* (usbip/classes/device/hid.py, ri, the emitters, which choose one or two *)
(* bytes for a value, and the canned descriptors) and what a host infers   *)
(* from the bytes (usbip/classes/host/hid.py, parse_report_descriptor,     *)
(* HIDReport).  The device declares item after item, and the host reads    *)
(* each as it comes.  Push, Pop and long items, which the host knows and no*)
(* emitter makes, are left out.                                            *)
(***************************************************************************)
EXTENDS Integers, Sequences, SequencesExt

CONSTANTS
    Values,   \* item name -> the values that devices declare
    MaxItems  \* bound: items of a descriptor

Byte == 256

Globals == {"usage_page", "logical_min", "logical_max", "report_size", "report_count", "report_id"}
Mains   == {"input", "output", "feature"}

Prefix == [usage_page |-> 4, logical_min |-> 20, logical_max |-> 36, report_size |-> 116,
           report_id |-> 132, report_count |-> 148, usage |-> 8, usage_min |-> 24,
           usage_max |-> 40, collection |-> 160, end_collection |-> 192,
           input |-> 128, output |-> 144, feature |-> 176]

ASSUME ReportAssumption ==
    /\ DOMAIN Values \subseteq DOMAIN Prefix
    /\ \A n \in DOMAIN Values : \A v \in Values[n] : v \in -32768 .. 65535

VARIABLES
    declared, \* the items that the device has declared: name and value
    parsed    \* what the host makes of their bytes

reportVars == <<declared, parsed>>

-----------------------------------------------------------------------------
(* The device: an item is a prefix and its data, the low byte first.       *)

U8(n, v)  == <<Prefix[n] + 1, v % Byte>>
U16(n, v) == <<Prefix[n] + 2, v % Byte, (v \div Byte) % Byte>>

\* Mutant: a maximum takes one byte whenever it has eight bits.
FitsUnsigned(n, v) == IF n = "logical_min" THEN v \in -128 .. 127 ELSE v \in 0 .. 255

\* The values for which an emitter takes one byte.
FitsByte(n, v) ==
    CASE n = "logical_min" -> v \in -128 .. 127
      [] n = "logical_max" -> v \in 0 .. 127
      [] OTHER             -> v \in 0 .. 255

Item(n, v) ==
    IF n = "end_collection" THEN <<Prefix[n]>>
    ELSE IF n \in {"logical_min", "logical_max", "usage_page", "usage"} /\ ~FitsByte(n, v) THEN U16(n, v)
    ELSE U8(n, v)

\* The canned descriptors, and the vendor's for reports of so many bytes.
Bits(count, size, flags) == <<<<"report_count", count>>, <<"report_size", size>>, <<"input", flags>>>>
Usage(page, value) == <<<<"usage_page", page>>, <<"usage", value>>>>
UsageRange(first, last) == <<<<"usage_min", first>>, <<"usage_max", last>>>>
Logical(low, high) == <<<<"logical_min", low>>, <<"logical_max", high>>>>
Collection(kind) == <<<<"collection", kind>>>>
EndCollection == <<<<"end_collection", 0>>>>

Keyboard ==
    Usage(1, 6) \o Collection(1)
    \o <<<<"usage_page", 7>>>> \o UsageRange(224, 231) \o Logical(0, 1) \o Bits(8, 1, 2)
    \o Bits(1, 8, 3)
    \o <<<<"report_count", 5>>, <<"report_size", 1>>, <<"usage_page", 8>>>>
    \o UsageRange(1, 5) \o <<<<"output", 2>>>>
    \o <<<<"report_count", 1>>, <<"report_size", 3>>, <<"output", 3>>>>
    \o <<<<"report_count", 6>>, <<"report_size", 8>>>> \o Logical(0, 101)
    \o <<<<"usage_page", 7>>>> \o UsageRange(0, 101) \o <<<<"input", 0>>>> \o EndCollection

Mouse ==
    Usage(1, 2) \o Collection(1) \o <<<<"usage", 1>>>> \o Collection(0)
    \o <<<<"usage_page", 9>>>> \o UsageRange(1, 3) \o Logical(0, 1) \o Bits(3, 1, 2)
    \o Bits(1, 5, 3)
    \o Usage(1, 48) \o <<<<"usage", 49>>, <<"usage", 56>>>> \o Logical(-127, 127)
    \o <<<<"report_size", 8>>, <<"report_count", 3>>, <<"input", 6>>>>
    \o EndCollection \o EndCollection

Consumer ==
    Usage(12, 1) \o Collection(1) \o Logical(0, 1)
    \o <<<<"report_size", 1>>, <<"report_count", 8>>>>
    \o [k \in 1 .. 8 |-> <<"usage", <<205, 181, 182, 183, 226, 233, 234, 184>>[k]>>]
    \o <<<<"input", 2>>>> \o EndCollection

Vendor(in, out) ==
    Usage(65280, 1) \o Collection(1) \o Logical(0, 255)
    \o <<<<"report_size", 8>>, <<"usage", 1>>, <<"report_count", in>>, <<"input", 2>>>>
    \o (IF out = 0 THEN <<>>
         ELSE <<<<"usage", 1>>, <<"report_count", out>>, <<"output", 2>>>>)
    \o EndCollection

\* Each with the bytes of its input and output report.
Canned == {<<Keyboard, 8, 1>>, <<Mouse, 4, 0>>, <<Consumer, 1, 0>>} \cup
          {<<Vendor(in, out), in, out>> : in \in {8, 64, 255}, out \in {0, 8, 64}}

-----------------------------------------------------------------------------
(* The host.                                                               *)

NoItems == [globals |-> [g \in Globals |-> 0],
            usages |-> <<>>, umin |-> -1, umax |-> -1,   \* -1 stands for None
            fields |-> <<>>, numbered |-> FALSE, left |-> 0]

NoLocals(s) == [s EXCEPT !.usages = <<>>, !.umin = -1, !.umax = -1]

FieldOf(s, type, flags) ==
    [type |-> type, globals |-> s.globals, usages |-> s.usages,
     umin |-> s.umin, umax |-> s.umax, flags |-> flags]

SizeOf(prefix) == CASE prefix % 4 = 0 -> 0 [] prefix % 4 = 1 -> 1 [] prefix % 4 = 2 -> 2 [] OTHER -> 4

Little(data) == FoldRight(LAMBDA b, acc : b + Byte * acc, data, 0)

\* _signext.
SignExt(v, size) == IF size > 0 /\ 2 * v >= Byte ^ size THEN v - (Byte ^ size) ELSE v

NameOf(prefix) == CHOOSE n \in DOMAIN Prefix : Prefix[n] = prefix - (prefix % 4)

\* What an item does to the state of the parser.
Apply(s, n, v) ==
    CASE n \in Mains                              -> NoLocals([s EXCEPT !.fields = Append(@, FieldOf(s, n, v))])
      [] n \in {"collection", "end_collection"}   -> NoLocals(s)
      [] n = "report_id"  -> [s EXCEPT !.globals[n] = v, !.numbered = TRUE]
      [] n \in Globals \ {"report_id"}            -> [s EXCEPT !.globals[n] = v]
      [] n = "usage"      -> [s EXCEPT !.usages = Append(@, v)]
      [] n = "usage_min"  -> [s EXCEPT !.umin = v]
      [] n = "usage_max"  -> [s EXCEPT !.umax = v]

\* One item of parse_report_descriptor; bytes that it does not take are counted.
ParseItem(s, bytes) ==
    LET size == SizeOf(bytes[1])
        raw  == Little(SubSeq(bytes, 2, size + 1))
        n    == NameOf(bytes[1])
        v    == IF n \in {"logical_min", "logical_max"} THEN SignExt(raw, size) ELSE raw
    IN  [Apply(s, n, v) EXCEPT !.left = @ + Len(bytes) - 1 - size]

\* HIDReport.size: bytes of the fields of one report.
SizeInBytes(s, type, id) ==
    LET fields == SelectSeq(s.fields, LAMBDA f : f.type = type /\ f.globals.report_id = id)
        bits == FoldLeft(LAMBDA n, f : n + f.globals.report_size * f.globals.report_count, 0, fields)
    IN  (bits + 7) \div 8

-----------------------------------------------------------------------------
ReportInit == declared = <<>> /\ parsed = NoItems

Declare(n, v) ==
    /\ Len(declared) < MaxItems
    /\ declared' = Append(declared, <<n, v>>)
    /\ parsed' = ParseItem(parsed, Item(n, v))

DeclareCanned(items) ==
    /\ declared = <<>>
    /\ declared' = items
    /\ parsed' = FoldLeft(LAMBDA s, d : ParseItem(s, Item(d[1], d[2])), parsed, items)

ReportNext ==
    \/ \E n \in DOMAIN Values : \E v \in Values[n] : Declare(n, v)
    \/ \E c \in Canned : DeclareCanned(c[1])

ReportSpec == ReportInit /\ [][ReportNext]_reportVars

-----------------------------------------------------------------------------
(* Properties.                                                             *)

\* The last value declared for a name before item p and not before item q.
LastValue(n, q, p, default) ==
    LET at == {i \in q .. p - 1 : declared[i][1] = n}
    IN  IF at = {} THEN default ELSE declared[CHOOSE i \in at : \A j \in at : j <= i][2]

\* The field that main item p stands for: every global by its last value, the
\* locals since the last main item.
MeantAt(p) ==
    LET ends == {i \in 1 .. p - 1 : declared[i][1] \in Mains \cup {"collection", "end_collection"}}
        q == IF ends = {} THEN 1 ELSE 1 + CHOOSE i \in ends : \A j \in ends : j <= i
        mine == SelectSeq(SubSeq(declared, q, p - 1), LAMBDA d : d[1] = "usage")
    IN  [type |-> declared[p][1], globals |-> [g \in Globals |-> LastValue(g, 1, p, 0)],
         usages |-> [k \in DOMAIN mine |-> mine[k][2]],
         umin |-> LastValue("usage_min", q, p, -1), umax |-> LastValue("usage_max", q, p, -1),
         flags |-> declared[p][2]]

\* The host infers the fields that the device declared, with their values, signs
\* and report IDs, over every boundary at which an item grows by a byte; and the
\* reports of the canned descriptors have the sizes that their comments state.
FieldsAsDeclared ==
    LET mains == SetToSortSeq({i \in DOMAIN declared : declared[i][1] \in Mains}, <)
    IN  /\ parsed.fields = [k \in DOMAIN mains |-> MeantAt(mains[k])]
        /\ parsed.left = 0
        /\ parsed.numbered = (\E i \in DOMAIN declared : declared[i][1] = "report_id")
        /\ \A c \in Canned : declared = c[1] =>
              /\ SizeInBytes(parsed, "input", 0) = c[2]
              /\ SizeInBytes(parsed, "output", 0) = c[3]
=============================================================================
