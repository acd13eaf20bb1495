---------------------------- MODULE EvalHarness ----------------------------
(***************************************************************************)
(* bootsmith-eval: an image boots in QEMU, the screen is captured again    *)
(* and again over QEMU's monitor (QMP) and read by tesseract, and the run  *)
(* ends with the first marker found, at the deadline, or with an error.    *)
(*                                                                         *)
(* The harness has one command under way at a time; QEMU serves commands   *)
(* in the order they come, says so in a reply that does not name the       *)
(* command, and mixes in events.  A read has a deadline, and a harness     *)
(* that gives up on a reply does not take its command back.  Messages      *)
(* arrive whole.                                                           *)
(***************************************************************************)
EXTENDS Integers, Sequences

CONSTANTS
  MaxShots,  \* Bound: screen captures before the deadline.
  MaxReads,  \* Messages read for one reply (32 in the code).
  MaxInbox   \* Bound: messages of QEMU not yet read.

ASSUME BoundsAssumption ==
  MaxShots \in Nat \ {0} /\ MaxReads \in Nat \ {0} /\ MaxInbox \in Nat \ {0}

\* What a screen can show: a pass_marker, a fail_marker.
Marks == {"pass", "fail"}

VARIABLES
  keep,      \* --keep-running.
  reused,    \* The work directory holds the captures of an earlier run.
  pc,        \* Where the harness is.
  verdict,   \* "none" until it has ended.
  shot,      \* shot_idx.
  reads,     \* Messages read for the current command.
  gaveUp,    \* History: captures whose reply was not waited for any longer.
  answered,  \* History: the command that the last reply taken was for.
  qemu,      \* QEMU's process: "none", "running", "exited" or "reaped".
  ready,     \* QEMU is in command mode, and emits events.
  screen,    \* The marks on the screen now.
  shown,     \* History: the marks this machine has shown.
  commands,  \* Commands QEMU has not finished; 0 is qmp_capabilities.
  inbox,     \* Messages to the harness.
  files      \* The shot-NNNN.png files of the work directory.

config == <<keep, reused>>
harness == <<config, pc, verdict, shot, reads, gaveUp, answered>>
vars == <<harness, qemu, ready, screen, shown, commands, inbox, files>>

Shots == 1..MaxShots

\* A screen capture: whose it is, what it shows, whether all of it is there.
File(by, marks, whole) == [by |-> by, marks |-> marks, whole |-> whole]
NoFile == File("nobody", {}, FALSE)

Event == [kind |-> "event", of |-> 0]
Message(kind, n) == [kind |-> kind, of |-> n]

TypeOK ==
  /\ keep \in BOOLEAN /\ reused \in BOOLEAN
  /\ pc \in {"start", "connect", "greeting", "capabilities", "top", "await",
             "ocr", "done"}
  /\ verdict \in Marks \cup {"none", "timeout", "error"}
  /\ (verdict = "none") = (pc # "done")
  /\ shot \in 0..MaxShots /\ gaveUp \in 0..shot /\ answered \in 0..shot
  /\ reads \in 0..(MaxReads - 1)
  /\ qemu \in {"none", "running", "exited", "reaped"}
  /\ (qemu = "none") => pc \in {"start", "done"}
  /\ ready \in BOOLEAN
  /\ screen \subseteq shown /\ shown \subseteq Marks
  /\ commands \in Seq(0..shot)
  /\ inbox \in Seq([kind : {"greeting", "return", "error", "event"},
                    of : 0..shot])
  /\ files \in [Shots -> [by : {"nobody", "earlier", "this"},
                          marks : SUBSET Marks, whole : BOOLEAN]]

-----------------------------------------------------------------------------
(***************************************************************************)
(* QEMU and the guest in it.                                               *)
(***************************************************************************)

Draw ==
  /\ qemu = "running"
  /\ screen' \in SUBSET Marks
  /\ shown' = shown \cup screen'
  /\ UNCHANGED <<harness, qemu, ready, commands, inbox, files>>

EmitEvent ==
  /\ qemu = "running" /\ ready /\ Len(inbox) < MaxInbox
  /\ inbox' = Append(inbox, Event)
  /\ UNCHANGED <<harness, qemu, ready, screen, shown, commands, files>>

ServeCapabilities ==
  /\ qemu = "running" /\ commands # <<>> /\ Head(commands) = 0
  /\ ready' = TRUE
  /\ commands' = Tail(commands)
  /\ inbox' = Append(inbox, Message("return", 0))
  /\ UNCHANGED <<harness, qemu, screen, shown, files>>

Capturing == qemu = "running" /\ commands # <<>> /\ Head(commands) # 0

\* screendump opens the file and writes what the screen shows.
StartCapture ==
  /\ Capturing
  /\ files[Head(commands)].by # "this"
  /\ files' = [files EXCEPT ![Head(commands)] = File("this", screen, FALSE)]
  /\ UNCHANGED <<harness, qemu, ready, screen, shown, commands, inbox>>

Reply(kind) ==
  /\ commands' = Tail(commands)
  /\ inbox' = Append(inbox, Message(kind, Head(commands)))

FinishCapture ==
  /\ Capturing /\ Len(inbox) < MaxInbox
  /\ files[Head(commands)].by = "this"
  /\ files' = [files EXCEPT ![Head(commands)].whole = TRUE]
  /\ Reply("return")
  /\ UNCHANGED <<harness, qemu, ready, screen, shown>>

\* It fails, before or after it has opened the file.
FailCapture ==
  /\ Capturing /\ Len(inbox) < MaxInbox
  /\ Reply("error")
  /\ UNCHANGED <<harness, qemu, ready, screen, shown, files>>

Exit ==
  /\ qemu = "running"
  /\ qemu' = "exited"
  /\ commands' = <<>>
  /\ UNCHANGED <<harness, ready, screen, shown, inbox, files>>

Qemu ==
  \/ Draw
  \/ EmitEvent
  \/ ServeCapabilities
  \/ StartCapture
  \/ FinishCapture
  \/ FailCapture
  \/ Exit

-----------------------------------------------------------------------------
(***************************************************************************)
(* The harness.                                                            *)
(***************************************************************************)

outside == <<ready, screen, shown, files>>

KilledOnVerdictOnly(v) ==
  /\ pc' = "done"
  /\ verdict' = v
  /\ qemu' = IF keep \/ v = "error" THEN qemu ELSE "reaped"

\* run returns: QemuGuard kills QEMU and waits for it, by shutdown or when it
\* is dropped.
Leave(v) ==
  /\ pc' = "done"
  /\ verdict' = v
  /\ qemu' = IF keep \/ qemu = "none" THEN qemu ELSE "reaped"

Goto(step) == pc' = step /\ UNCHANGED <<verdict, qemu>>

\* A missing image or tool, a work directory that cannot be made, or QEMU.
Preflight ==
  /\ pc = "start"
  /\ \/ Leave("error")
     \/ pc' = "connect" /\ qemu' = "running" /\ UNCHANGED verdict
  /\ UNCHANGED <<config, shot, reads, gaveUp, answered, outside, commands,
                 inbox>>

\* wait_for_monitor; QEMU greets whom it accepts.
Connect ==
  /\ pc = "connect"
  /\ \/ Leave("error") /\ UNCHANGED inbox
     \/ /\ qemu = "running"
        /\ Goto("greeting")
        /\ inbox' = <<Message("greeting", 0)>>
  /\ UNCHANGED <<config, shot, reads, gaveUp, answered, outside, commands>>

\* The greeting may be late, or no greeting; the command cannot be written
\* once QEMU has exited.
Greeting ==
  /\ pc = "greeting"
  /\ inbox' = Tail(inbox)
  /\ \/ Leave("error") /\ UNCHANGED commands
     \/ /\ qemu = "running"
        /\ Goto("capabilities")
        /\ commands' = Append(commands, 0)
  /\ UNCHANGED <<config, shot, reads, gaveUp, answered, outside>>

AtDeadline == Leave("timeout") /\ UNCHANGED <<shot, reads, commands>>

\* The top of the loop: the deadline has passed, or after the interval the
\* next capture is asked for.
Ask ==
  /\ pc = "top"
  /\ \/ AtDeadline
     \/ /\ shot < MaxShots
        /\ shot' = shot + 1
        /\ reads' = 0
        /\ IF qemu = "running"
             THEN Goto("await") /\ commands' = Append(commands, shot + 1)
             ELSE Goto("top") /\ UNCHANGED commands
  /\ UNCHANGED <<config, gaveUp, answered, outside, inbox>>

Awaiting == pc \in {"capabilities", "await"}

\* No handshake is an error; a capture that fails is skipped.
GiveUp ==
  /\ IF pc = "capabilities" THEN Leave("error") /\ UNCHANGED gaveUp
                            ELSE Goto("top") /\ gaveUp' = gaveUp + 1
  /\ UNCHANGED <<config, shot, answered, outside, commands>>

\* 15 seconds without a message, or the socket is closed.
ReadFails ==
  /\ Awaiting
  /\ inbox = <<>>
  /\ GiveUp
  /\ UNCHANGED <<reads, inbox>>

SkipsForEver ==
  /\ Awaiting
  /\ inbox # <<>> /\ Head(inbox).kind = "event"
  /\ inbox' = Tail(inbox)
  /\ UNCHANGED <<harness, qemu, outside, commands>>

OneReadTooMany ==
  /\ Awaiting
  /\ inbox # <<>> /\ Head(inbox).kind = "event"
  /\ inbox' = Tail(inbox)
  /\ IF reads < MaxReads
       THEN /\ reads' = reads + 1
            /\ UNCHANGED <<config, pc, verdict, shot, gaveUp, answered, qemu,
                           outside, commands>>
       ELSE GiveUp /\ UNCHANGED reads

\* read_qmp_until: an event is skipped, up to a number of messages.
SkipEvent ==
  /\ Awaiting
  /\ inbox # <<>> /\ Head(inbox).kind = "event"
  /\ inbox' = Tail(inbox)
  /\ IF reads + 1 < MaxReads
       THEN /\ reads' = reads + 1
            /\ UNCHANGED <<config, pc, verdict, shot, gaveUp, answered,
                           qemu, outside, commands>>
       ELSE GiveUp /\ UNCHANGED reads

ReplyIs(kinds) == inbox # <<>> /\ Head(inbox).kind \in kinds

CapabilitiesUnanswered ==
  /\ pc = "capabilities"
  /\ Goto("top")
  /\ reads' = 0
  /\ UNCHANGED <<config, shot, gaveUp, answered, outside, commands, inbox>>

\* Any reply ends the handshake, an error too.
TakeCapabilities ==
  /\ pc = "capabilities"
  /\ ReplyIs({"return", "error"})
  /\ inbox' = Tail(inbox)
  /\ Goto("top")
  /\ reads' = 0
  /\ UNCHANGED <<config, shot, gaveUp, answered, outside, commands>>

ErrorAccepted ==
  /\ pc = "await"
  /\ ReplyIs({"return", "error"})
  /\ inbox' = Tail(inbox)
  /\ answered' = Head(inbox).of
  /\ Goto(IF files[shot].by # "nobody" THEN "ocr" ELSE "top")
  /\ UNCHANGED <<config, shot, reads, gaveUp, outside, commands>>

\* The reply is taken for the current capture's; there is a file to read only
\* if it is not an error and a file of that name exists.
TakeAnswer ==
  /\ pc = "await"
  /\ ReplyIs({"return", "error"})
  /\ inbox' = Tail(inbox)
  /\ answered' = Head(inbox).of
  /\ Goto(IF Head(inbox).kind = "return" /\ files[shot].by # "nobody"
            THEN "ocr" ELSE "top")
  /\ UNCHANGED <<config, shot, reads, gaveUp, outside, commands>>

\* tesseract reads some of the marks of the file, or none, or fails; fail
\* markers are looked for first.
Judge ==
  /\ pc = "ocr"
  /\ \E text \in SUBSET files[shot].marks :
       IF "fail" \in text THEN Leave("fail")
       ELSE IF "pass" \in text THEN Leave("pass")
       ELSE Goto("top")
  /\ UNCHANGED <<config, shot, reads, gaveUp, answered, outside, commands,
                 inbox>>

Harness ==
  \/ Preflight
  \/ Connect
  \/ Greeting
  \/ Ask
  \/ ReadFails
  \/ SkipEvent
  \/ TakeCapabilities
  \/ TakeAnswer
  \/ Judge

Done == pc = "done" /\ UNCHANGED vars

\* An earlier run has left its first captures.
Init ==
  /\ keep \in BOOLEAN /\ reused \in BOOLEAN
  /\ pc = "start" /\ verdict = "none"
  /\ shot = 0 /\ reads = 0 /\ gaveUp = 0 /\ answered = 0
  /\ qemu = "none" /\ ready = FALSE
  /\ screen = {} /\ shown = {}
  /\ commands = <<>> /\ inbox = <<>>
  /\ \E earlier \in Shots, marks \in SUBSET Marks :
       files = [n \in Shots |->
                  IF reused /\ n <= earlier THEN File("earlier", marks, TRUE)
                  ELSE NoFile]

Next == Qemu \/ Harness \/ Done

\* Every wait of the harness has a deadline; nothing is assumed of QEMU.
Spec == Init /\ [][Next]_vars /\ WF_vars(Harness)

-----------------------------------------------------------------------------
(***************************************************************************)
(* Properties.                                                             *)
(***************************************************************************)

\* "Make sure we kill QEMU on every exit path": no run leaves a machine or a
\* zombie behind, except with --keep-running, which leaves it alone.
QemuReaped ==
  pc = "done" => IF keep THEN qemu # "reaped" ELSE qemu \in {"none", "reaped"}

\* PASS and FAIL rest on a screen this machine has shown.  The one exception
\* takes a work directory used before and a reply that was given up on: the
\* late reply is taken for that of the next capture, whose old file is read.
VerdictJustified ==
  verdict \in Marks =>
    \/ verdict \in shown
    \/ gaveUp > 0 /\ reused

\* A reply taken is for as many captures back as were given up on, at any
\* time earlier: the harness never falls into step again.  While it has given
\* up on none, the file it reads is the capture it asked for, all of it.
ReplyLag ==
  pc = "ocr" =>
    /\ answered = shot - gaveUp
    /\ gaveUp = 0 => files[shot].by = "this" /\ files[shot].whole

\* A run ends, whether QEMU hangs, dies, or sends events without end.
RunsEnd == <>(pc = "done")
=============================================================================
