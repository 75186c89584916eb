------------------------------ MODULE Sessions ------------------------------
(***************************************************************************)
(* The parts of a device and its host that share no state, side by side:   *)
(* the listener of an address, a connection's bytes, the report            *)
(* descriptors, the making of a device, the bundled classes with the       *)
(* applications behind them, and the readers of files.  A class hears of a *)
(* transfer from the serve thread, and none has a reference to another, so *)
(* what one of them does is explored on its own: `driven' says which one   *)
(* this behaviour is about.                                                *)
(***************************************************************************)
EXTENDS Listener, Wire, Report, Composition, Hid, Dfu, CdcConsole, Bluetooth, Video,
        Audio, Echo, FatFs, Clip, Jpeg

VARIABLE driven

sessionVars == <<listenerVars, wireVars, reportVars, compositionVars, hidVars, dfuVars,
                 cdcVars, btVars, videoVars, audioVars, echoVars,
                 fatVars, clipVars, jpegVars>>

Parts == {"listener", "wire", "report", "composition", "hid", "dfu", "cdc", "bluetooth",
          "video", "audio", "echo", "fat", "clip", "jpeg"}

\* A part that is not driven starts in one way only.
Starts(part, all, one) == IF driven = part THEN all ELSE {one}
AnApplication == CHOOSE app \in Applications : TRUE
AVolume == CHOOSE v \in Volumes : TRUE
AClip == CHOOSE c \in Clips : TRUE
AScan == CHOOSE s \in AllScans : TRUE

SessionsInit ==
    /\ driven \in Parts
    /\ WireInit /\ ReportInit /\ CompositionInit /\ DfuInit /\ CdcInit /\ BtInit
    /\ VideoInit /\ EchoInit
    /\ ListenerInit(Starts("listener", Applications, AnApplication))
    /\ HidInit(Starts("hid", Programs, "boot_keyboard"))
    /\ AudioInit(Starts("audio", Sources, "tone"))
    /\ FatInit(Starts("fat", Volumes, AVolume))
    /\ ClipInit(Starts("clip", Clips, AClip))
    /\ JpegInit(Starts("jpeg", AllScans, AScan))

Rest ==
    /\ driven # "listener" => UNCHANGED listenerVars
    /\ driven # "wire" => UNCHANGED wireVars
    /\ driven # "report" => UNCHANGED reportVars
    /\ driven # "composition" => UNCHANGED compositionVars
    /\ driven # "hid" => UNCHANGED hidVars
    /\ driven # "dfu" => UNCHANGED dfuVars
    /\ driven # "cdc" => UNCHANGED cdcVars
    /\ driven # "bluetooth" => UNCHANGED btVars
    /\ driven # "video" => UNCHANGED videoVars
    /\ driven # "audio" => UNCHANGED audioVars
    /\ driven # "echo" => UNCHANGED echoVars
    /\ driven # "fat" => UNCHANGED fatVars
    /\ driven # "clip" => UNCHANGED clipVars
    /\ driven # "jpeg" => UNCHANGED jpegVars

ListenerTurn    == driven = "listener" /\ ListenerNext /\ Rest
WireTurn        == driven = "wire" /\ WireNext /\ Rest
ReportTurn      == driven = "report" /\ ReportNext /\ Rest
CompositionTurn == driven = "composition" /\ CompositionNext /\ Rest
HidTurn         == driven = "hid" /\ HidNext /\ Rest
DfuTurn         == driven = "dfu" /\ DfuNext /\ Rest
CdcTurn         == driven = "cdc" /\ CdcNext /\ Rest
BtTurn          == driven = "bluetooth" /\ BtNext /\ Rest
VideoTurn       == driven = "video" /\ VideoNext /\ Rest
AudioTurn       == driven = "audio" /\ AudioNext /\ Rest
EchoTurn        == driven = "echo" /\ EchoNext /\ Rest
FatTurn         == driven = "fat" /\ FatNext /\ Rest
ClipTurn        == driven = "clip" /\ ClipNext /\ Rest
JpegTurn        == driven = "jpeg" /\ JpegNext /\ Rest

SessionsNext ==
    /\ UNCHANGED driven
    /\ \/ ListenerTurn \/ WireTurn \/ ReportTurn \/ CompositionTurn \/ HidTurn \/ DfuTurn \/ CdcTurn
       \/ BtTurn \/ VideoTurn \/ AudioTurn \/ EchoTurn \/ FatTurn \/ ClipTurn \/ JpegTurn

SessionsSpec == SessionsInit /\ [][SessionsNext]_<<driven, sessionVars>>
=============================================================================
