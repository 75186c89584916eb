----------------------------- MODULE MCPrograms -----------------------------
(* Two kinds of device on one endpoint: one that writes from threads of    *)
(* its own, and one whose code runs only in the serve thread's handlers    *)
(* (mass storage, MTP and DFU are such devices).  Each has transfer        *)
(* lengths and sizes of its own, a selection of Lens and Sizes.  The       *)
(* writer threads are interchangeable, and so are they for every invariant.*)
EXTENDS Endpoint, TLC

CONSTANTS c1, w1, w2     \* a host, and threads of the device

VARIABLE program

WriterSymmetry == Permutations(Writers)

LensOf  == [threads |-> {1}, serial |-> {1, 2}]
SizesOf == [threads |-> {2}, serial |-> {0, 3}]

OfProgram ==
    /\ \A c \in Conns : urb'[c].len \in LensOf[program]
    /\ writes' # writes => written' - written \in SizesOf[program]

ThreadsNext == program = "threads" /\ Next
SerialNext ==
    /\ program = "serial"
    /\ \E c \in Conns : HostGone(c) \/ ServeStep(c) \/ DeviceStep(c)

ProgramsInit == program \in {"threads", "serial"} /\ Init
ProgramsNext == (ThreadsNext \/ SerialNext) /\ OfProgram /\ UNCHANGED program

ProgramsSpec == ProgramsInit /\ [][ProgramsNext]_<<program, vars>>

\* A device whose code runs only in the serve thread keeps what the docstrings
\* promise: once RET_UNLINK is out, the unlinked URB is not completed any more ...
SerialIsQuietAfterUnlink == program = "serial" => NoAnswerAfterUnlink

\* ... and URBs are completed on the wire in the order they were submitted.
SerialAnswersInOrder == program = "serial" => AnswersInOrder
=============================================================================
