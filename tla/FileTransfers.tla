---------------------------- MODULE FileTransfers ----------------------------
(***************************************************************************)
(* The calls of ChdkPTP that move bytes, over a session that may be out of *)
(* step: upload_file (to the session the same as write_script_message and  *)
(* get_version) is one transaction without a data phase to read;           *)
(* get_display_data, which get_frames repeats, is one with; download_file  *)
(* is two, the first of which leaves the path in the camera for the second.*)
(*                                                                         *)
(* Each action is one transaction begun; its reads, and its exceptions,    *)
(* are those of PTPSession.  asked says of each command on the wire what   *)
(* it was for, and whose bytes its data phase carries; the host does not   *)
(* know it.                                                                *)
(***************************************************************************)
EXTENDS PTPSession

CONSTANTS Paths,          \* files on the card
          NoPath

ASSUME TransfersAssumption == NoPath \notin Paths

VARIABLES job,     \* the call in progress, or the last one
          stage,   \* its transactions so far
          path,    \* the file it was asked for
          temp,    \* the camera's TEMP_DATA: a path
          asked    \* asked[n]: what command n was for, and its data's file

transfer == <<job, stage, path, temp, asked>>
allVars  == <<vars, transfer>>

Jobs     == {"none", "upload_file", "download_file", "get_frames"}
Purposes == {"nothing", "upload", "temp", "file", "frame"}
WithData == {"file", "frame"}

TransfersTypeOK ==
    /\ job \in Jobs /\ stage \in 0..2
    /\ path \in Paths \cup {NoPath} /\ temp \in Paths \cup {NoPath}
    /\ asked \in [1..MaxCommands -> [what : Purposes, file : Paths \cup {NoPath}]]

NothingAsked == [n \in 1..MaxCommands |-> [what |-> "nothing", file |-> NoPath]]

TransfersInit ==
    /\ Init
    /\ job = "none" /\ stage = 0 /\ path = NoPath
    /\ temp = NoPath /\ asked = NothingAsked

-----------------------------------------------------------------------------
(* A transaction for a purpose.  The camera sends data with no command but *)
(* those that are for data.  The path of a TEMP_DATA is in it once it has  *)
(* accepted the command, whether the host hears of that or not.  asked     *)
(* keeps nothing of the commands that have been answered.                  *)

Accepted == wire'[Len(wire')].kind = "OK"

StillAsked ==
    [n \in 1..MaxCommands |-> IF n \in (answered + 1)..sent' THEN asked[n] ELSE NothingAsked[n]]

Ask(what, p) ==
    /\ Call /\ cmd'.wants = (what \in WithData)
    /\ \/ /\ sent' = sent /\ UNCHANGED <<asked, temp>>
       \/ /\ sent' = sent + 1
          /\ Len(wire') > Len(wire) + 1 => what \in WithData
          /\ asked' = [StillAsked EXCEPT ![sent + 1] =
                         [what |-> what, file |-> IF what = "file" THEN temp ELSE NoPath]]
          /\ temp' = IF what = "temp" /\ Accepted THEN p ELSE temp

(* A download goes on once its first transaction has returned; a failed    *)
(* one raises out of it.  Out of ids is a bound.                           *)
Succeeded == pc = "idle" /\ result.kind = "ok"

SlipAgain   == stage >= 1
DataPending == stage = 1

SlipAnyEnd == pc = "idle" /\ result.kind \in {"ok", "error"}
Accomplished == Succeeded

Midway == job = "download_file" /\ DataPending /\ Accomplished /\ txId < MaxTx

Starts(j, p) ==
    /\ ~Midway
    /\ job' = j /\ stage' = 1 /\ path' = p

Upload == Starts("upload_file", NoPath) /\ Ask("upload", NoPath)

Frame ==                        \* the first of a get_frames, or the next
    Starts("get_frames", NoPath) /\ Ask("frame", NoPath)

Download(p) == Starts("download_file", p) /\ Ask("temp", p)

DownloadData ==
    /\ Midway
    /\ stage' = stage + 1
    /\ Ask("file", path)
    /\ UNCHANGED <<job, path>>

Session ==
    /\ ~Midway
    /\ Open \/ Close \/ NewSession \/ UsbReset
    /\ job' = "none" /\ stage' = 0 /\ path' = NoPath
    /\ asked' = StillAsked /\ UNCHANGED temp

Reading == ReceiveData \/ ReceiveRest \/ ReceiveResponse \/ Misread \/ ReadTimeout

TransfersNext ==
    \/ Upload \/ Frame \/ (\E p \in Paths : Download(p)) \/ DownloadData
    \/ Session
    \/ Reading /\ UNCHANGED transfer

TransfersSpec == TransfersInit /\ [][TransfersNext]_allVars

-----------------------------------------------------------------------------
Downloaded == job = "download_file" /\ stage = 2 /\ Succeeded

(* download_file returns the bytes of the file it was asked for, or else   *)
(* two calls have been abandoned since the last USB reset: after one, its  *)
(* second transaction meets the answer of its first, which has no data,    *)
(* and raises instead of returning another file's (chdk.py 339-350).  It   *)
(* is so until payload is taken for a container.                           *)
WrongFileTakesTwoLosses ==
    Downloaded /\ ~misread /\ asked[result.data] # [what |-> "file", file |-> path] => abandoned >= 2
=============================================================================
