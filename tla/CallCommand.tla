----------------------------- MODULE CallCommand -----------------------------
(***************************************************************************)
(* How one dialplan command is handed to the media switch                  *)
(* (ecallmgr_call_command.erl, ecallmgr_util.erl, ecallmgr.hrl).           *)
(*                                                                         *)
(* What matters to the process that asked for the execution is only how it *)
(* will hear of the command again.  An outcome says so:                    *)
(*   fs     names of the completion events the switch will emit by itself; *)
(*   cast   names of the completions exec_cmd casts before it returns;     *)
(*   raise  the execution ended in an exception.                           *)
(* The arguments of an application, and everything that is only formatted  *)
(* for the switch, are left out.                                           *)
(***************************************************************************)

Outcome(fs, cast, raise) == [fs |-> fs, cast |-> cast, raise |-> raise]

Sent(name)  == Outcome({name}, {}, FALSE)
Done(name)  == Outcome({}, {name}, FALSE)
Returned    == Outcome({}, {}, FALSE)
SetThenSent(name) == Outcome({"set", name}, {}, FALSE)
Raised      == Outcome({}, {}, TRUE)

\* The switch executes the request, but its answer comes after the five
\* seconds freeswitch:sendmsg waits, and "ok = .." fails to match.
TimedOut(name) == Outcome({name}, {}, TRUE)

\* <<name in the switch's events, name in Whistle's commands>>
FS_APPLICATION_NAMES ==
  { <<"playback", "play">>, <<"hangup", "hangup">>, <<"record", "record">>,
    <<"playback", "tones">>, <<"park", "park">>, <<"set", "set">>,
    <<"export", "set">>, <<"say", "say">>, <<"sleep", "sleep">>,
    <<"respond", "respond">>, <<"bridge", "bridge">>,
    <<"signal_bridge", "bridge">>, <<"answer", "answer">>,
    <<"pre_answer", "progress">>, <<"tone_detect", "tone_detect">>,
    <<"play_and_get_digits", "play_and_collect_digits">>,
    <<"redirect", "redirect">>, <<"conference", "conference">>,
    <<"noop", "noop">>, <<"execute_extension", "execute_extension">>,
    <<"playback", "hold">> }

convert_whistle_app_name(app) ==
  { p[1] : p \in { q \in FS_APPLICATION_NAMES : q[2] = app } }

\* Whether an outcome is heard of: an exception always is, a completion only
\* under one of the names that end the application.
Heard(app, o) == o.raise \/ (o.fs \cup o.cast) \cap convert_whistle_app_name(app) # {}

\* The applications that may still run once the channel is gone.
POST_HANGUP_COMMANDS == {"store", "set"}

\* The applications sent as a one-off extension with "ok = sendmsg(..)".
XFEREXT == {"bridge", "call_pickup", "execute_extension"}

(***************************************************************************)
(* The outcomes of get_fs_app followed by the case of exec_cmd that its    *)
(* result selects.  A request that does not validate completes at once;    *)
(* "set" both casts and lets the switch emit a completion for every        *)
(* variable it sets; "play", "record", "redirect" and what "tone_detect"   *)
(* is to run on success set variables first, and raise when the answer to  *)
(* that is late; "answer" is sent and then completed after half a second;  *)
(* a missing file makes "store" return with no completion at all; a        *)
(* "bridge" whose timeout is no positive number and an "execute_extension" *)
(* without Reset raise before anything is sent.                            *)
(***************************************************************************)
get_fs_app(app) ==
  CASE app \in {"noop", "sleep", "say", "respond", "conference"}
         -> {Sent(app), Done(app)}
    [] app = "play"     -> {Sent("playback"), SetThenSent("playback"), Done("playback"),
                            Raised, TimedOut("set")}
    [] app = "tones"    -> {Sent("playback"), Done("playback")}
    [] app = "record"   -> {SetThenSent("record"), Done("record"), Raised, TimedOut("set")}
    [] app = "redirect" -> {Sent(app), SetThenSent(app), Done(app)}
    [] app = "play_and_collect_digits"
         -> {Sent("play_and_get_digits"), Done("play_and_get_digits")}
    [] app = "store"    -> {Done("store"), Returned, Raised}
    [] app = "answer"   -> {Outcome({"answer"}, {"answer"}, FALSE)}
    [] app = "progress" -> {Sent("pre_answer")}
    [] app = "hold"     -> {Sent("endless_playback")}
    [] app = "park"     -> {Sent("park")}
    [] app = "hangup"   -> {Returned}
    [] app \in {"bridge", "execute_extension"}
         -> {Sent(app), Done(app), Raised, TimedOut(app)}
    [] app = "call_pickup"
         -> {Sent("intercept"), Done("call_pickup"), TimedOut("intercept")}
    [] app = "tone_detect" -> {Sent(app), SetThenSent(app), Done(app), Raised, TimedOut("set")}
    [] app = "set" -> {Outcome(s, {"set"}, FALSE) : s \in SUBSET {"set", "export"}}
    [] OTHER -> {Done(app)}

\* The applications of which a switch that is there may never be heard again.
MayStall(app) == \E o \in get_fs_app(app) : ~Heard(app, o)

\* The names under which anything completes whatever the application is called.
SwitchNames ==
  { "playback", "record", "play_and_get_digits", "store", "answer", "pre_answer",
    "endless_playback", "park", "intercept", "call_pickup", "set", "export" }

\* The switch cannot be reached, or has no such session: nothing is emitted;
\* the one-off extensions notice, the other applications ignore the answer.
Unreached(app, o) ==
  IF o.fs # {} /\ app \in XFEREXT THEN Raised ELSE [o EXCEPT !.fs = {}]

(***************************************************************************)
(* exec_cmd(Node, UUID, JObj, ControlPID): a command for another call is   *)
(* answered {error, invalid_callid} and nobody is told.                    *)
(***************************************************************************)
exec_cmd(uuid, cmd, reachable) ==
  IF cmd.call # uuid THEN {Returned}
  ELSE IF reachable THEN get_fs_app(cmd.app)
  ELSE {Unreached(cmd.app, o) : o \in get_fs_app(cmd.app)}
=============================================================================
