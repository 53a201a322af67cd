---------------------------- MODULE IngestSession ----------------------------
(***************************************************************************)
(* The life of one ingest: the thread of media/src/ingest.rs, the podman   *)
(* process it starts with sandbox/src/ffmpeg.rs, the ffmpeg inside the     *)
(* container, and the status notifier, around one listening socket.        *)
(* ffmpeg connects once per segment; when podman has exited the notifier   *)
(* connects too, and its connection of no bytes tells the thread to stop.  *)
(*                                                                         *)
(* Ingest models what the thread does with a segment; here a segment is    *)
(* the number of units written to it.  The socket, podman and ffmpeg are   *)
(* not code of this repository: they are modelled as the code uses them.   *)
(***************************************************************************)
EXTENDS Naturals, Sequences

CONSTANTS
    Images,         \* what a name may resolve to
    Approved,       \* the image whose digest the code names
    Backlog,        \* connections a listening socket holds, 128 in std
    SocketBuffer,   \* units a connection holds that are not read
    MaxUnits,       \* bound: units in a segment
    MaxSegments     \* bound: segments ffmpeg makes

ASSUME SessionAssumption ==
    /\ Approved \in Images
    /\ Backlog \in Nat \ {0} /\ SocketBuffer \in Nat \ {0}
    /\ MaxUnits \in Nat \ {0} /\ MaxSegments \in Nat

VARIABLES
    pc,         \* the thread: "start", "run", "accept", "read", "exit",
                \* "done" or "panicked"
    store,      \* images podman has
    podman,     \* "none", "running", "ok" or "failed"
    ffmpeg,     \* "none", "idle" between segments, "write", "ok" or "failed"
    notifier,   \* "none", "wait" for podman, "sent" or "panicked"
    made,       \* connections made, in order: [written, read, open]
    accepted    \* how many of them the thread has accepted

vars == <<pc, store, podman, ffmpeg, notifier, made, accepted>>
thread == <<pc, accepted>>
children == <<podman, ffmpeg, notifier>>

-----------------------------------------------------------------------------
Ended == pc \in {"done", "panicked"}
PodmanExited == podman \in {"ok", "failed"}
FfmpegGone == ffmpeg \in {"ok", "failed"}

BacklogFull == Len(made) - accepted >= Backlog
Connection(open) == [written |-> 0, read |-> 0, open |-> open]
Closed(cs) == [i \in 1 .. Len(cs) |-> [cs[i] EXCEPT !.open = FALSE]]

Init ==
    /\ pc = "start"
    /\ store \in SUBSET Images
    /\ podman = "none" /\ ffmpeg = "none" /\ notifier = "none"
    /\ made = <<>> /\ accepted = 0

\* ffmpeg::start: podman has the image ...
ImageExists ==
    /\ pc = "start"
    /\ Approved \in store
    /\ pc' = "run"
    /\ UNCHANGED <<store, children, made, accepted>>

\* ... or pulls what the name resolves to now, which must have the digest.
Pull ==
    /\ pc = "start"
    /\ Approved \notin store
    /\ \E image \in Images :
        /\ store' = store \cup {image}
        /\ pc' = IF image = Approved THEN "run" ELSE "panicked"
    /\ UNCHANGED <<children, made, accepted>>

\* A podman command cannot run, or the pull prints no digest: the task
\* returns the error and the thread panics.
StartFails ==
    /\ pc \in {"start", "run"}
    /\ pc' = "panicked"
    /\ UNCHANGED <<store, children, made, accepted>>

Run ==
    /\ pc = "run"
    /\ pc' = "accept"
    /\ podman' = "running" /\ ffmpeg' = "idle" /\ notifier' = "wait"
    /\ UNCHANGED <<store, made, accepted>>
-----------------------------------------------------------------------------
\* ffmpeg opens /out/0.ts for its next segment; while the backlog is full it
\* cannot.
Connect ==
    /\ ffmpeg = "idle" /\ ~ Ended
    /\ Len(made) < MaxSegments /\ ~ BacklogFull
    /\ made' = Append(made, Connection(TRUE))
    /\ ffmpeg' = "write"
    /\ UNCHANGED <<thread, store, podman, notifier>>

\* ffmpeg writes as far as the connection holds.
Write ==
    /\ ffmpeg = "write" /\ ~ Ended
    /\ \E i \in 1 .. Len(made) :
        /\ made[i].open /\ made[i].written < MaxUnits
        /\ made[i].written - made[i].read < SocketBuffer
        /\ made' = [made EXCEPT ![i].written = @ + 1]
    /\ UNCHANGED <<thread, store, children>>

\* ffmpeg ends the segment; the muxer has written at least its tables.
Close ==
    /\ ffmpeg = "write"
    /\ \E i \in 1 .. Len(made) : made[i].open /\ made[i].written > 0
    /\ made' = Closed(made)
    /\ ffmpeg' = "idle"
    /\ UNCHANGED <<thread, store, podman, notifier>>

FfmpegEnds ==
    /\ ffmpeg = "idle"
    /\ ffmpeg' = "ok"
    /\ UNCHANGED <<thread, store, podman, notifier, made>>

\* ffmpeg dies, perhaps in the middle of a segment, perhaps because nobody
\* listens any more.
FfmpegFails ==
    /\ ffmpeg \in {"idle", "write"}
    /\ made' = Closed(made)
    /\ ffmpeg' = "failed"
    /\ UNCHANGED <<thread, store, podman, notifier>>

\* podman exits after its container, with the container's status ...
PodmanExits ==
    /\ podman = "running" /\ FfmpegGone
    /\ podman' = ffmpeg
    /\ UNCHANGED <<thread, store, ffmpeg, notifier, made>>

\* ... or is killed, and the container runs on.
PodmanKilled ==
    /\ podman = "running"
    /\ podman' = "failed"
    /\ UNCHANGED <<thread, store, ffmpeg, notifier, made>>

\* Mutant: the notifier connects first and waits for podman then.
NotifyEarly ==
    /\ notifier = "wait" /\ podman # "none"
    /\ IF Ended \/ BacklogFull
       THEN /\ notifier' = "panicked"
            /\ UNCHANGED made
       ELSE /\ notifier' = "sent"
            /\ made' = Append(made, Connection(FALSE))
    /\ UNCHANGED <<thread, store, podman, ffmpeg>>

\* Mutant: the notifier waits for a status and tells nobody.
NotifyNobody ==
    /\ notifier = "wait" /\ PodmanExited
    /\ notifier' = "sent"
    /\ UNCHANGED <<thread, store, podman, ffmpeg, made>>

\* Mutant: the connection is made whether the socket takes it or not.
NotifyUnchecked ==
    /\ notifier = "wait" /\ PodmanExited
    /\ notifier' = "sent"
    /\ made' = Append(made, Connection(FALSE))
    /\ UNCHANGED <<thread, store, podman, ffmpeg>>

\* status_notifier: the connection is made without waiting, so it fails when
\* the socket is gone or its backlog is full, and is unwrapped.
Notify ==
    /\ notifier = "wait" /\ PodmanExited
    /\ IF Ended \/ BacklogFull
       THEN /\ notifier' = "panicked"
            /\ UNCHANGED made
       ELSE /\ notifier' = "sent"
            /\ made' = Append(made, Connection(FALSE))
    /\ UNCHANGED <<thread, store, podman, ffmpeg>>
-----------------------------------------------------------------------------
\* incoming.next() yields the oldest connection ...
Accept ==
    /\ pc = "accept"
    /\ accepted < Len(made)
    /\ accepted' = accepted + 1
    /\ pc' = "read"
    /\ UNCHANGED <<store, children, made>>

\* ... or an error, as when no file is left, which ends the loop as an empty
\* segment does.
AcceptFails ==
    /\ pc = "accept"
    /\ accepted < Len(made)
    /\ pc' = "exit"
    /\ UNCHANGED <<store, children, made, accepted>>

\* stream.read_to_end() reads what there is, until the writer closes.
Read ==
    /\ pc = "read"
    /\ made[accepted].read < made[accepted].written
    /\ made' = [made EXCEPT ![accepted].read = made[accepted].written]
    /\ UNCHANGED <<thread, store, children>>

ReadFails ==
    /\ pc = "read"
    /\ pc' = "panicked"
    /\ UNCHANGED <<store, children, made, accepted>>

\* Mutant: a read that finds nothing more is taken for the end.
AtEndEarly(connection) == connection.read = connection.written

AtEnd(connection) == ~ connection.open /\ connection.read = connection.written

\* The whole segment is read: leave the loop if it is empty, else push its
\* blocks and accept the next.
SegmentRead ==
    /\ pc = "read"
    /\ AtEnd(made[accepted])
    /\ pc' = IF made[accepted].read = 0 THEN "exit" ELSE "accept"
    /\ UNCHANGED <<store, children, made, accepted>>

\* status_notifier.await: a final container if podman reports success.
Finish ==
    /\ pc = "exit"
    /\ notifier \in {"sent", "panicked"} /\ PodmanExited
    /\ pc' = IF notifier = "sent" /\ podman = "ok" THEN "done" ELSE "panicked"
    /\ UNCHANGED <<store, children, made, accepted>>

Start == ImageExists \/ Pull \/ StartFails \/ Run
Ffmpeg == Connect \/ Write \/ Close \/ FfmpegEnds \/ FfmpegFails
Podman == PodmanExits \/ PodmanKilled
Loop == Accept \/ AcceptFails \/ Read \/ ReadFails \/ SegmentRead \/ Finish

Next == Start \/ Ffmpeg \/ Podman \/ Notify \/ Loop

Spec == Init /\ [][Next]_vars

\* The thread goes on: the node takes what it sends.  The notifier is woken
\* when podman exits.  Nothing is assumed of podman or ffmpeg, nor that a
\* call fails.
Progress == Accept \/ Read \/ SegmentRead \/ Finish
FairSpec == Spec /\ WF_vars(Progress) /\ WF_vars(Notify)
-----------------------------------------------------------------------------
TypeOK ==
    /\ pc \in {"start", "run", "accept", "read", "exit", "done", "panicked"}
    /\ store \subseteq Images
    /\ podman \in {"none", "running", "ok", "failed"}
    /\ ffmpeg \in {"none", "idle", "write", "ok", "failed"}
    /\ notifier \in {"none", "wait", "sent", "panicked"}
    /\ made \in Seq([written : 0 .. MaxUnits, read : 0 .. MaxUnits, open : BOOLEAN])
    /\ accepted \in 0 .. Len(made) /\ Len(made) - accepted <= Backlog
    /\ ffmpeg = "write" <=> \E i \in 1 .. Len(made) : made[i].open
    /\ \A i, j \in 1 .. Len(made) : made[i].open /\ made[j].open => i = j

(***************************************************************************)
(* A container is started only from the approved image: podman had it, or  *)
(* the name still resolved to it when it was pulled, whatever else the     *)
(* store holds.                                                            *)
(***************************************************************************)
RunsApprovedImage == podman # "none" => Approved \in store

(***************************************************************************)
(* The stream that ends well is whole: when the final container is sent    *)
(* after an empty segment, every byte ffmpeg wrote was read, though the    *)
(* notifier connects to the queue in which ffmpeg's last segments may      *)
(* still wait, and a segment of a killed ffmpeg may be empty too.          *)
(***************************************************************************)
LeftByEmptySegment == pc \in {"exit", "done"} /\ accepted > 0 /\ made[accepted].read = 0
AllRead ==
    /\ FfmpegGone
    /\ \A i \in 1 .. Len(made) : made[i].read = made[i].written
SuccessIsWhole == pc = "done" /\ LeftByEmptySegment => AllRead

(***************************************************************************)
(* "ingest stream ended successfully, final container" (ingest.rs:227):    *)
(* however the loop was left, a successful end means that all was read.    *)
(***************************************************************************)
SuccessMeansAllRead == pc = "done" => AllRead

(***************************************************************************)
(* The thread that waits for podman's status is not itself waited for: an  *)
(* empty segment comes only when ffmpeg has ended or podman has, so no     *)
(* ffmpeg with a segment to write keeps podman running.                    *)
(***************************************************************************)
NoMutualWait == pc = "exit" /\ LeftByEmptySegment => FfmpegGone \/ PodmanExited

(***************************************************************************)
(* A unit is read from the segment it was written to, and segments are     *)
(* read in the order they were made: the thread never meets data behind a  *)
(* segment it has left.                                                    *)
(***************************************************************************)
ReadInOrder ==
    \A i \in 1 .. Len(made) :
        /\ made[i].read <= made[i].written
        /\ i > accepted => made[i].read = 0
        /\ i < accepted => ~ made[i].open /\ made[i].read = made[i].written /\ made[i].read > 0

(***************************************************************************)
(* "a way to break out of the incoming connection loop when the child      *)
(* process exits" (ingest.rs:163-164): once podman and ffmpeg are gone,    *)
(* the thread ends, and with it its wait.                                  *)
(***************************************************************************)
ChildExitBreaksLoop == PodmanExited /\ FfmpegGone ~> Ended

(***************************************************************************)
(* The same as far as the notifier can connect: its sentinel is never lost *)
(* behind other connections, and the thread never waits for anyone else.   *)
(***************************************************************************)
SentinelBreaksLoop == PodmanExited /\ FfmpegGone ~> Ended \/ notifier = "panicked"
=============================================================================
