---------------------------- MODULE SessionProofs ---------------------------
(***************************************************************************)
(* Theorems about IngestSession, for any backlog, any number of segments   *)
(* and any images.                                                         *)
(*                                                                         *)
(* That a stream that ends well was read whole rests on OnlySentinel: as   *)
(* long as neither podman nor ffmpeg failed, the only connection that      *)
(* closes without a byte is the notifier's, and it is the last one made.   *)
(***************************************************************************)
EXTENDS IngestSession, TLAPS

Conn == [written : 0 .. MaxUnits, read : 0 .. MaxUnits, open : BOOLEAN]
Empty(i) == ~ made[i].open /\ made[i].written = 0

\* Before podman runs there is nothing else.
NotStarted ==
    /\ pc \in {"start", "run"} =>
          podman = "none" /\ ffmpeg = "none" /\ notifier = "none" /\ made = <<>> /\ accepted = 0
    /\ pc \notin {"start", "panicked"} => Approved \in store

\* The connection the thread reads, or has just left.
ReadsOne ==
    /\ pc = "read" => accepted > 0
    /\ pc = "accept" /\ accepted > 0 =>
          /\ ~ made[accepted].open
          /\ made[accepted].read = made[accepted].written /\ made[accepted].read > 0

PodmanFollows == podman = "ok" => ffmpeg = "ok"

EmptyHasCause == \A i \in 1 .. Len(made) : Empty(i) => PodmanExited \/ ffmpeg = "failed"

OnlySentinel ==
    podman # "failed" /\ ffmpeg # "failed" =>
        \A i \in 1 .. Len(made) :
            Empty(i) => podman = "ok" /\ notifier = "sent" /\ i = Len(made)

LeftAtEmpty ==
    LeftByEmptySegment => accepted \in 1 .. Len(made) /\ Empty(accepted)

DoneOk == pc = "done" => podman = "ok" /\ notifier = "sent"

StartInv == NotStarted /\ RunsApprovedImage
QueueInv == ReadInOrder /\ ReadsOne
EmptyInv == EmptyHasCause /\ OnlySentinel /\ LeftAtEmpty
SInv == TypeOK /\ StartInv /\ QueueInv /\ PodmanFollows /\ EmptyInv /\ DoneOk
-----------------------------------------------------------------------------
LEMMA InitInv == Init => SInv
<1> SUFFICES ASSUME Init PROVE SInv
  OBVIOUS
<1> USE SessionAssumption DEF Init
<1>1. TypeOK
  BY DEF TypeOK
<1>2. StartInv /\ QueueInv
  BY DEF StartInv, NotStarted, RunsApprovedImage, QueueInv, ReadInOrder, ReadsOne
<1>3. PodmanFollows /\ EmptyInv /\ DoneOk
  BY DEF PodmanFollows, EmptyInv, EmptyHasCause, OnlySentinel, LeftAtEmpty,
         LeftByEmptySegment, DoneOk
<1> QED BY <1>1, <1>2, <1>3 DEF SInv

\* What each change of the connections leaves of them.
LEMMA MadeTypes ==
    ASSUME TypeOK
    PROVE  /\ Len(made) \in Nat /\ accepted \in Nat /\ accepted <= Len(made)
           /\ \A i \in 1 .. Len(made) :
                 made[i] \in Conn /\ made[i].written \in Nat /\ made[i].read \in Nat
<1>1. made \in Seq(Conn) /\ accepted \in 0 .. Len(made)
  BY DEF TypeOK, Conn
<1>2. Len(made) \in Nat /\ \A i \in 1 .. Len(made) : made[i] \in Conn
  BY <1>1
<1>3. \A c \in Conn : c.written \in Nat /\ c.read \in Nat
  BY SessionAssumption DEF Conn
<1> QED BY <1>1, <1>2, <1>3

LEMMA MadeAppend ==
    ASSUME TypeOK, NEW open \in BOOLEAN, made' = Append(made, Connection(open))
    PROVE  /\ made' \in Seq(Conn) /\ Len(made') = Len(made) + 1
           /\ \A i \in 1 .. Len(made) : made'[i] = made[i]
           /\ made'[Len(made) + 1] = [written |-> 0, read |-> 0, open |-> open]
<1>1. made \in Seq(Conn) /\ Connection(open) \in Conn
  BY SessionAssumption DEF TypeOK, Conn, Connection
<1> QED BY <1>1 DEF Connection

LEMMA MadeClosed ==
    ASSUME TypeOK, made' = Closed(made)
    PROVE  /\ made' \in Seq(Conn) /\ Len(made') = Len(made)
           /\ \A i \in 1 .. Len(made) :
                 /\ made'[i].written = made[i].written
                 /\ made'[i].read = made[i].read /\ ~ made'[i].open
<1>1. \A i \in 1 .. Len(made) : made[i] \in Conn
  BY MadeTypes
<1>2. made' = [i \in 1 .. Len(made) |-> [made[i] EXCEPT !.open = FALSE]]
  BY DEF Closed
<1>3. \A i \in 1 .. Len(made) : [made[i] EXCEPT !.open = FALSE] \in Conn
  BY <1>1 DEF Conn
<1>4. Len(made) \in Nat
  BY MadeTypes
<1>5. made' \in Seq(Conn) /\ Len(made') = Len(made)
  BY <1>2, <1>3, <1>4
<1> QED BY <1>1, <1>2, <1>5 DEF Conn
-----------------------------------------------------------------------------
\* Steps that change neither the connections nor what was accepted.
LEMMA SameMade ==
    ASSUME made' = made, accepted' = accepted
    PROVE  (ReadInOrder => ReadInOrder') /\ \A i : Empty(i)' <=> Empty(i)
BY DEF ReadInOrder, Empty

LEMMA StartStep == ASSUME SInv, Start PROVE SInv'
<1> USE SessionAssumption
<1>1. /\ podman = "none" /\ ffmpeg = "none" /\ notifier = "none"
      /\ made = <<>> /\ accepted = 0 /\ made' = made /\ accepted' = accepted
      /\ pc \in {"start", "run"} /\ pc' \in {"start", "run", "accept", "panicked"}
  BY DEF SInv, StartInv, NotStarted, Start, ImageExists, Pull, StartFails, Run
<1>2. TypeOK'
  BY <1>1 DEF SInv, TypeOK, Start, ImageExists, Pull, StartFails, Run, children
<1>3. StartInv'
  BY <1>1 DEF SInv, StartInv, NotStarted, RunsApprovedImage,
              Start, ImageExists, Pull, StartFails, Run, children
<1>4. QueueInv'
  BY <1>1 DEF QueueInv, ReadInOrder, ReadsOne
<1>5. PodmanFollows' /\ DoneOk'
  BY <1>1 DEF PodmanFollows, DoneOk, Start, ImageExists, Pull, StartFails, Run, children
<1>6. EmptyInv'
  BY <1>1 DEF EmptyInv, EmptyHasCause, OnlySentinel, LeftAtEmpty, LeftByEmptySegment
<1> QED BY <1>2, <1>3, <1>4, <1>5, <1>6 DEF SInv

\* ffmpeg writes to a connection of its own, and only while podman runs it
\* or was killed.
LEMMA ConnectStep == ASSUME SInv, Connect PROVE SInv'
<1> USE SessionAssumption
<1>1. /\ made' \in Seq(Conn) /\ Len(made') = Len(made) + 1
      /\ \A i \in 1 .. Len(made) : made'[i] = made[i]
      /\ made'[Len(made) + 1] = [written |-> 0, read |-> 0, open |-> TRUE]
  BY MadeAppend DEF SInv, Connect
<1>2. /\ Len(made) \in Nat /\ accepted \in Nat /\ accepted <= Len(made)
      /\ \A i \in 1 .. Len(made) : made[i] \in Conn
  BY MadeTypes DEF SInv
<1>3. /\ ffmpeg = "idle" /\ ffmpeg' = "write" /\ pc' = pc /\ accepted' = accepted
      /\ podman' = podman /\ notifier' = notifier /\ store' = store
      /\ Len(made) - accepted < Backlog /\ pc \notin {"done", "panicked"}
  BY <1>2 DEF Connect, thread, Ended, BacklogFull
<1>4. \A i \in 1 .. Len(made) : ~ made[i].open
  BY <1>2, <1>3 DEF SInv, TypeOK
<1>5. TypeOK'
  <2>1. \A i \in 1 .. Len(made') : made'[i].open <=> i = Len(made) + 1
    BY <1>1, <1>2, <1>4
  <2>2. Len(made) + 1 \in 1 .. Len(made')
    BY <1>1, <1>2
  <2>3. accepted' \in 0 .. Len(made') /\ Len(made') - accepted' <= Backlog
    BY <1>1, <1>2, <1>3
  <2> QED BY <1>1, <1>3, <2>1, <2>2, <2>3 DEF SInv, TypeOK, Conn
<1>6. StartInv'
  BY <1>3 DEF SInv, StartInv, NotStarted, RunsApprovedImage
<1>7. QueueInv'
  BY <1>1, <1>2, <1>3 DEF SInv, QueueInv, ReadInOrder, ReadsOne
<1>8. \A i \in 1 .. Len(made') : Empty(i)' => i \in 1 .. Len(made) /\ Empty(i)
  BY <1>1, <1>2 DEF Empty
<1>9. podman # "ok"
  BY <1>3 DEF SInv, PodmanFollows
<1>10. EmptyHasCause' /\ OnlySentinel'
  BY <1>3, <1>8, <1>9 DEF SInv, EmptyInv, EmptyHasCause, OnlySentinel, PodmanExited
<1>11. LeftAtEmpty'
  BY <1>1, <1>2, <1>3 DEF SInv, EmptyInv, LeftAtEmpty, LeftByEmptySegment, Empty
<1>12. PodmanFollows' /\ DoneOk'
  BY <1>3, <1>9 DEF SInv, PodmanFollows, DoneOk
<1> QED BY <1>5, <1>6, <1>7, <1>10, <1>11, <1>12 DEF SInv, EmptyInv

LEMMA WriteStep == ASSUME SInv, Write PROVE SInv'
<1> USE SessionAssumption
<1>1. PICK k \in 1 .. Len(made) :
         /\ made[k].open /\ made[k].written < MaxUnits
         /\ made' = [made EXCEPT ![k].written = @ + 1]
  BY DEF Write
<1>2. /\ Len(made) \in Nat /\ accepted \in Nat /\ accepted <= Len(made)
      /\ made \in Seq(Conn)
      /\ \A i \in 1 .. Len(made) : made[i] \in Conn
  BY MadeTypes DEF SInv, TypeOK, Conn
<1>3. /\ pc' = pc /\ accepted' = accepted /\ podman' = podman /\ ffmpeg' = ffmpeg
      /\ notifier' = notifier /\ store' = store /\ ffmpeg = "write"
  BY DEF Write, thread, children
<1>4. /\ Len(made') = Len(made)
      /\ \A i \in 1 .. Len(made) : i # k => made'[i] = made[i]
      /\ made'[k].written = made[k].written + 1
      /\ made'[k].read = made[k].read /\ made'[k].open = made[k].open
  <2>1. made[k] \in Conn
    BY <1>2
  <2>2. made'[k] = [made[k] EXCEPT !.written = @ + 1]
    BY <1>1, <1>2
  <2>3. Len(made') = Len(made) /\ \A i \in 1 .. Len(made) : i # k => made'[i] = made[i]
    BY <1>1, <1>2
  <2> QED BY <2>1, <2>2, <2>3 DEF Conn
<1>5. made' \in Seq(Conn)
  <2>1. made[k] \in Conn /\ made[k].written + 1 \in 0 .. MaxUnits
    BY <1>1, <1>2 DEF Conn
  <2>2. [made[k] EXCEPT !.written = @ + 1] \in Conn
    BY <2>1 DEF Conn
  <2> QED BY <1>1, <1>2, <2>2
<1>6. \A i \in 1 .. Len(made) : made'[i].open = made[i].open
  BY <1>4
<1>7. TypeOK'
  BY <1>3, <1>4, <1>5, <1>6 DEF SInv, TypeOK, Conn
<1>8. StartInv'
  BY <1>3 DEF SInv, StartInv, NotStarted, RunsApprovedImage
<1>9. QueueInv'
  <2>1. /\ made[k].read \in Nat /\ made[k].written \in Nat /\ made[k].open
        /\ \A i \in 1 .. Len(made) : made[i].written \in Nat /\ made[i].read \in Nat
    BY <1>1, MadeTypes DEF SInv
  <2>2. k >= accepted /\ (pc = "accept" => k # accepted)
    BY <1>1, <1>2, <2>1 DEF SInv, QueueInv, ReadInOrder, ReadsOne
  <2>3. ReadInOrder'
    BY <1>2, <1>3, <1>4, <2>1, <2>2 DEF SInv, QueueInv, ReadInOrder
  <2>4. ReadsOne'
    BY <1>2, <1>3, <1>4, <2>2 DEF SInv, QueueInv, ReadsOne
  <2> QED BY <2>3, <2>4 DEF QueueInv
<1>10. \A i \in 1 .. Len(made) : Empty(i)' <=> Empty(i)
  BY <1>1, <1>4 DEF Empty
<1>11. EmptyInv'
  BY <1>2, <1>3, <1>4, <1>10
     DEF SInv, EmptyInv, EmptyHasCause, OnlySentinel, LeftAtEmpty,
         LeftByEmptySegment, PodmanExited
<1>12. PodmanFollows' /\ DoneOk'
  BY <1>3 DEF SInv, PodmanFollows, DoneOk
<1> QED BY <1>7, <1>8, <1>9, <1>11, <1>12 DEF SInv

\* A segment that ends well has bytes; one that ffmpeg dies in need not.
LEMMA CloseStep == ASSUME SInv, Close \/ FfmpegFails PROVE SInv'
<1> USE SessionAssumption
<1>1. /\ made' \in Seq(Conn) /\ Len(made') = Len(made)
      /\ \A i \in 1 .. Len(made) :
            /\ made'[i].written = made[i].written
            /\ made'[i].read = made[i].read /\ ~ made'[i].open
  BY MadeClosed DEF SInv, Close, FfmpegFails
<1>2. /\ Len(made) \in Nat /\ accepted \in Nat /\ accepted <= Len(made)
  BY MadeTypes DEF SInv
<1>3. /\ pc' = pc /\ accepted' = accepted /\ podman' = podman
      /\ notifier' = notifier /\ store' = store
      /\ ffmpeg \in {"idle", "write"} /\ ffmpeg' \in {"idle", "failed"}
  BY DEF Close, FfmpegFails, thread
<1>4. TypeOK'
  BY <1>1, <1>2, <1>3 DEF SInv, TypeOK, Conn
<1>5. StartInv'
  BY <1>3 DEF SInv, StartInv, NotStarted, RunsApprovedImage
<1>6. QueueInv'
  BY <1>1, <1>2, <1>3 DEF SInv, QueueInv, ReadInOrder, ReadsOne
<1>7. podman # "ok"
  BY <1>3 DEF SInv, PodmanFollows
<1>8. ffmpeg' # "failed" => \A i \in 1 .. Len(made) : Empty(i)' => Empty(i)
  <2> SUFFICES ASSUME ffmpeg' # "failed", NEW i \in 1 .. Len(made), Empty(i)' PROVE Empty(i)
    OBVIOUS
  <2>1. PICK k \in 1 .. Len(made) : made[k].open /\ made[k].written > 0
    BY DEF Close, FfmpegFails
  <2>2. i # k => ~ made[i].open
    BY <2>1 DEF SInv, TypeOK
  <2>3. made[i].written = 0
    BY <1>1 DEF Empty
  <2> QED BY <2>1, <2>2, <2>3 DEF Empty
<1>9. EmptyHasCause' /\ OnlySentinel'
  BY <1>1, <1>3, <1>7, <1>8
     DEF SInv, EmptyInv, EmptyHasCause, OnlySentinel, PodmanExited
<1>10. LeftAtEmpty'
  BY <1>1, <1>2, <1>3 DEF SInv, EmptyInv, LeftAtEmpty, LeftByEmptySegment, Empty
<1>11. PodmanFollows' /\ DoneOk'
  BY <1>3, <1>7 DEF SInv, PodmanFollows, DoneOk
<1> QED BY <1>4, <1>5, <1>6, <1>9, <1>10, <1>11 DEF SInv, EmptyInv

\* ffmpeg or podman ends.
LEMMA EndStep == ASSUME SInv, FfmpegEnds \/ Podman PROVE SInv'
<1> USE SessionAssumption
<1>1. /\ made' = made /\ accepted' = accepted /\ pc' = pc
      /\ notifier' = notifier /\ store' = store
  BY DEF FfmpegEnds, Podman, PodmanExits, PodmanKilled, thread
<1>2. TypeOK'
  BY <1>1 DEF SInv, TypeOK, FfmpegEnds, Podman, PodmanExits, PodmanKilled, FfmpegGone
<1>3. StartInv'
  BY <1>1 DEF SInv, StartInv, NotStarted, RunsApprovedImage,
              FfmpegEnds, Podman, PodmanExits, PodmanKilled
<1>4. QueueInv'
  BY <1>1, SameMade DEF SInv, QueueInv, ReadsOne
<1>5. PodmanFollows' /\ DoneOk'
  BY <1>1 DEF SInv, PodmanFollows, DoneOk, FfmpegEnds, Podman, PodmanExits, PodmanKilled,
              FfmpegGone
<1>6. EmptyHasCause' /\ OnlySentinel'
  BY <1>1, SameMade
     DEF SInv, PodmanFollows, EmptyInv, EmptyHasCause, OnlySentinel, PodmanExited,
         FfmpegEnds, Podman, PodmanExits, PodmanKilled, FfmpegGone
<1>7. LeftAtEmpty'
  BY <1>1, SameMade DEF SInv, EmptyInv, LeftAtEmpty, LeftByEmptySegment
<1> QED BY <1>2, <1>3, <1>4, <1>5, <1>6, <1>7 DEF SInv, EmptyInv

\* The notifier's connection is the last, if podman ended well.
LEMMA NotifyStep == ASSUME SInv, Notify PROVE SInv'
<1> USE SessionAssumption
<1>1. /\ accepted' = accepted /\ pc' = pc /\ podman' = podman /\ ffmpeg' = ffmpeg
      /\ store' = store /\ notifier = "wait" /\ podman \in {"ok", "failed"}
      /\ notifier' \in {"sent", "panicked"}
  BY DEF Notify, thread, PodmanExited
<1>2. /\ Len(made) \in Nat /\ accepted \in Nat /\ accepted <= Len(made)
  BY MadeTypes DEF SInv
<1>3. StartInv'
  BY <1>1 DEF SInv, StartInv, NotStarted, RunsApprovedImage
<1>4. PodmanFollows' /\ DoneOk'
  BY <1>1 DEF SInv, PodmanFollows, DoneOk
<1>5. podman # "failed" /\ ffmpeg # "failed" => \A i \in 1 .. Len(made) : ~ Empty(i)
  BY <1>1 DEF SInv, EmptyInv, OnlySentinel
<1>6. CASE made' = made
  <2>1. TypeOK'
    BY <1>1, <1>6 DEF SInv, TypeOK
  <2>2. QueueInv'
    BY <1>1, <1>6, SameMade DEF SInv, QueueInv, ReadsOne
  <2>3. EmptyInv'
    BY <1>1, <1>5, <1>6, SameMade
       DEF SInv, EmptyInv, EmptyHasCause, OnlySentinel, LeftAtEmpty,
           LeftByEmptySegment, PodmanExited
  <2> QED BY <1>3, <1>4, <2>1, <2>2, <2>3 DEF SInv
<1>7. CASE made' = Append(made, Connection(FALSE)) /\ ~ BacklogFull /\ notifier' = "sent"
  <2>1. /\ made' \in Seq(Conn) /\ Len(made') = Len(made) + 1
        /\ \A i \in 1 .. Len(made) : made'[i] = made[i]
        /\ made'[Len(made) + 1] = [written |-> 0, read |-> 0, open |-> FALSE]
    BY <1>7, MadeAppend DEF SInv
  <2>2. Len(made) - accepted < Backlog
    BY <1>2, <1>7 DEF BacklogFull
  <2>3. \A i \in 1 .. Len(made') : made'[i].open => i \in 1 .. Len(made)
    BY <1>2, <2>1
  <2>4. \A i \in 1 .. Len(made) : i \in 1 .. Len(made') /\ made'[i].open = made[i].open
    BY <1>2, <2>1
  <2>5. TypeOK'
    <3>1. accepted' \in 0 .. Len(made') /\ Len(made') - accepted' <= Backlog
      BY <1>1, <1>2, <2>1, <2>2
    <3>2. (\E i \in 1 .. Len(made') : made'[i].open)
             <=> \E i \in 1 .. Len(made) : made[i].open
      BY <2>3, <2>4
    <3>3. \A i, j \in 1 .. Len(made') : made'[i].open /\ made'[j].open => i = j
      BY <2>3, <2>4 DEF SInv, TypeOK
    <3> QED BY <1>1, <1>7, <2>1, <3>1, <3>2, <3>3 DEF SInv, TypeOK, Conn
  <2>6. QueueInv'
    BY <1>1, <1>2, <2>1 DEF SInv, QueueInv, ReadInOrder, ReadsOne
  <2>7. \A i \in 1 .. Len(made) : Empty(i)' <=> Empty(i)
    BY <2>1 DEF Empty
  <2>8. EmptyHasCause'
    BY <1>1 DEF EmptyHasCause, PodmanExited
  <2>9. OnlySentinel'
    BY <1>1, <1>2, <1>5, <1>7, <2>1, <2>7 DEF OnlySentinel
  <2>10. LeftAtEmpty'
    BY <1>1, <1>2, <2>1, <2>7 DEF SInv, EmptyInv, LeftAtEmpty, LeftByEmptySegment
  <2> QED BY <1>3, <1>4, <2>5, <2>6, <2>8, <2>9, <2>10 DEF SInv, EmptyInv
<1> QED BY <1>6, <1>7 DEF Notify

\* The thread reads the oldest connection to its end, then leaves or goes on.
LEMMA LoopStep == ASSUME SInv, Loop PROVE SInv'
<1> USE SessionAssumption
<1>1. /\ store' = store /\ podman' = podman /\ ffmpeg' = ffmpeg /\ notifier' = notifier
      /\ pc \in {"accept", "read", "exit"}
      /\ pc' \in {"accept", "read", "exit", "done", "panicked"}
  BY DEF Loop, Accept, AcceptFails, Read, ReadFails, SegmentRead, Finish, children, thread
<1>2. /\ Len(made) \in Nat /\ accepted \in Nat /\ accepted <= Len(made)
      /\ made \in Seq(Conn)
      /\ \A i \in 1 .. Len(made) :
            made[i] \in Conn /\ made[i].written \in Nat /\ made[i].read \in Nat
  BY MadeTypes DEF SInv, TypeOK, Conn
<1>3. StartInv' /\ PodmanFollows'
  BY <1>1 DEF SInv, StartInv, NotStarted, RunsApprovedImage, PodmanFollows
<1>4. CASE Accept
  <2>1. made' = made /\ accepted' = accepted + 1 /\ pc = "accept" /\ pc' = "read"
        /\ accepted < Len(made)
    BY <1>4 DEF Accept
  <2>2. TypeOK'
    BY <1>1, <1>2, <2>1 DEF SInv, TypeOK
  <2>3. ReadInOrder'
    BY <1>2, <2>1 DEF SInv, QueueInv, ReadInOrder, ReadsOne
  <2>4. ReadsOne' /\ DoneOk' /\ LeftAtEmpty'
    BY <1>2, <2>1 DEF ReadsOne, DoneOk, LeftAtEmpty, LeftByEmptySegment
  <2>5. EmptyHasCause' /\ OnlySentinel'
    BY <1>1, <2>1 DEF SInv, EmptyInv, EmptyHasCause, OnlySentinel, Empty, PodmanExited
  <2> QED BY <1>3, <2>2, <2>3, <2>4, <2>5 DEF SInv, QueueInv, EmptyInv
<1>5. CASE Read
  <2> DEFINE k == accepted
  <2>1. /\ pc = "read" /\ pc' = pc /\ accepted' = accepted /\ k \in 1 .. Len(made)
        /\ made' = [made EXCEPT ![k].read = made[k].written]
    BY <1>2, <1>5 DEF Read, thread, SInv, QueueInv, ReadsOne
  <2>2. /\ Len(made') = Len(made)
        /\ \A i \in 1 .. Len(made) : i # k => made'[i] = made[i]
        /\ made'[k].written = made[k].written
        /\ made'[k].read = made[k].written /\ made'[k].open = made[k].open
    BY <1>2, <2>1 DEF Conn
  <2>3. made' \in Seq(Conn)
    <3>1. [made[k] EXCEPT !.read = made[k].written] \in Conn
      BY <1>2, <2>1 DEF Conn
    <3> QED BY <1>2, <2>1, <3>1
  <2>4. \A i \in 1 .. Len(made) :
           made'[i].open = made[i].open /\ made'[i].written = made[i].written
    BY <2>2
  <2>5. TypeOK'
    BY <1>1, <2>1, <2>2, <2>3, <2>4 DEF SInv, TypeOK, Conn
  <2>6. ReadInOrder'
    BY <1>2, <2>1, <2>2 DEF SInv, QueueInv, ReadInOrder
  <2>7. ReadsOne' /\ DoneOk' /\ LeftAtEmpty'
    BY <2>1 DEF SInv, QueueInv, ReadsOne, DoneOk, LeftAtEmpty, LeftByEmptySegment
  <2>8. \A i \in 1 .. Len(made) : Empty(i)' <=> Empty(i)
    BY <2>4 DEF Empty
  <2>9. EmptyHasCause' /\ OnlySentinel'
    BY <1>1, <2>2, <2>8 DEF SInv, EmptyInv, EmptyHasCause, OnlySentinel, PodmanExited
  <2> QED BY <1>3, <2>5, <2>6, <2>7, <2>9 DEF SInv, QueueInv, EmptyInv
<1>6. CASE AcceptFails \/ ReadFails \/ SegmentRead \/ Finish
  <2>1. made' = made /\ accepted' = accepted /\ pc' # "read"
    BY <1>6 DEF AcceptFails, ReadFails, SegmentRead, Finish
  <2>2. TypeOK'
    BY <1>1, <2>1 DEF SInv, TypeOK
  <2>3. ReadInOrder'
    BY <2>1, SameMade DEF SInv, QueueInv
  <2>4. pc = "read" => accepted \in 1 .. Len(made) /\ made[accepted].read <= made[accepted].written
    BY <1>2 DEF SInv, QueueInv, ReadsOne, ReadInOrder
  <2>5. ReadsOne'
    BY <1>2, <1>6, <2>1, <2>4
       DEF ReadsOne, AcceptFails, ReadFails, SegmentRead, Finish, AtEnd
  <2>6. LeftAtEmpty'
    BY <1>6, <2>1, <2>4
       DEF SInv, QueueInv, ReadsOne, EmptyInv, LeftAtEmpty, LeftByEmptySegment, Empty,
           AcceptFails, ReadFails, SegmentRead, Finish, AtEnd
  <2>7. EmptyHasCause' /\ OnlySentinel'
    BY <1>1, <2>1 DEF SInv, EmptyInv, EmptyHasCause, OnlySentinel, Empty, PodmanExited
  <2>8. DoneOk'
    BY <1>1, <1>6 DEF DoneOk, AcceptFails, ReadFails, SegmentRead, Finish
  <2> QED BY <1>3, <2>2, <2>3, <2>5, <2>6, <2>7, <2>8 DEF SInv, QueueInv, EmptyInv
<1> QED BY <1>4, <1>5, <1>6 DEF Loop

LEMMA StepInv == SInv /\ [Next]_vars => SInv'
<1>1. ASSUME SInv, UNCHANGED vars PROVE SInv'
  BY <1>1
     DEF vars, SInv, TypeOK, StartInv, NotStarted, RunsApprovedImage, QueueInv, ReadInOrder,
         ReadsOne, PodmanFollows, EmptyInv, EmptyHasCause, OnlySentinel, LeftAtEmpty,
         LeftByEmptySegment,
         DoneOk, Empty, PodmanExited
<1> QED BY <1>1, StartStep, ConnectStep, WriteStep, CloseStep, EndStep, NotifyStep, LoopStep
        DEF Next, Ffmpeg

(***************************************************************************)
(* The inductive invariant of a session.                                   *)
(***************************************************************************)
THEOREM Invariance == Spec => []SInv
BY InitInv, StepInv, PTL DEF Spec

(***************************************************************************)
(* Every variable has its type, the backlog holds, and one segment at most *)
(* is open, exactly while ffmpeg writes.                                   *)
(***************************************************************************)
THEOREM TypeCorrect == Spec => []TypeOK
BY Invariance, PTL DEF SInv

(***************************************************************************)
(* What runs is the approved image (ffmpeg.rs:30-32, runtime.rs:32-37).    *)
(***************************************************************************)
THEOREM RunsApprovedImageCorrect == Spec => []RunsApprovedImage
BY Invariance, PTL DEF SInv, StartInv

(***************************************************************************)
(* The thread reads each segment whole and in order, whatever interleaving *)
(* ffmpeg, podman and the notifier choose (ingest.rs:172-221).             *)
(***************************************************************************)
THEOREM ReadInOrderCorrect == Spec => []ReadInOrder
BY Invariance, PTL DEF SInv, QueueInv

(***************************************************************************)
(* A thread that waits for podman's status after an empty segment is not   *)
(* waited for by ffmpeg (ingest.rs:223).                                   *)
(***************************************************************************)
THEOREM NoMutualWaitCorrect == Spec => []NoMutualWait
<1>1. SInv => NoMutualWait
  BY DEF SInv, EmptyInv, LeftAtEmpty,
         LeftByEmptySegment, EmptyHasCause, NoMutualWait, FfmpegGone
<1> QED BY <1>1, Invariance, PTL

(***************************************************************************)
(* After an empty segment the final container is sent only when all that   *)
(* ffmpeg wrote was read (ingest.rs:226-229).                              *)
(***************************************************************************)
THEOREM SuccessCorrect == Spec => []SuccessIsWhole
<1>1. SInv => SuccessIsWhole
  <2> SUFFICES ASSUME SInv, pc = "done", LeftByEmptySegment PROVE AllRead
    BY DEF SuccessIsWhole
  <2>1. podman = "ok" /\ ffmpeg = "ok" /\ notifier = "sent"
    BY DEF SInv, DoneOk, PodmanFollows
  <2>2. accepted \in 1 .. Len(made) /\ Empty(accepted) /\ accepted = Len(made)
    BY <2>1 DEF SInv, EmptyInv, LeftAtEmpty, LeftByEmptySegment, OnlySentinel
  <2>3. ASSUME NEW i \in 1 .. Len(made) PROVE made[i].read = made[i].written
    <3>1. made[i].read \in Nat /\ made[i].read <= made[i].written
      BY MadeTypes DEF SInv, QueueInv, ReadInOrder
    <3>2. CASE i < accepted
      BY <3>2 DEF SInv, QueueInv, ReadInOrder
    <3>3. CASE i = accepted
      BY <2>2, <3>1, <3>3 DEF Empty
    <3> QED BY <2>2, <3>2, <3>3
  <2> QED BY <2>1, <2>3 DEF AllRead, FfmpegGone
<1> QED BY <1>1, Invariance, PTL
=============================================================================
