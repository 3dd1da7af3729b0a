-------------------------- MODULE RelayLinkProofs --------------------------
(***************************************************************************)
(* Proofs about RelayLink, for buffers of any size and any number of       *)
(* frames and heartbeats.                                                  *)
(***************************************************************************)
EXTENDS RelayLink, TLAPS

Frames == {"new", "data", "udpData", "close", "conn_ready", "ping", "pong"}
Parts  == [t : Frames, part : {"header", "payload"}]
Part(f, p) == [t |-> f, part |-> p]

LinkTypes ==
    /\ link \in BOOLEAN /\ torn \in BOOLEAN
    /\ stream \in [Sides -> Seq(Parts)]
    /\ mu \in [Sides -> Procs \cup {Nobody}]
    /\ at \in [Procs -> {"idle", "header", "payload"}]
    /\ job \in [Procs -> Frames \cup {"none"}]
    /\ \A w \in Procs : at[w] # "idle" => job[w] \in Frames
    /\ rd \in [Readers -> {"header", "payload", "udpMu", "done"}]
    /\ frame \in [Readers -> Frames \cup {"none"}]
    /\ \A r \in Readers : rd[r] = "payload" => frame[r] \in Frames

\* writeMu of a side is held between the two writes of a frame, and only then.
LockHeld ==
    /\ \A w \in Procs : at[w] = "payload" <=> mu[SideOf(w)] = w
    /\ \A s \in Sides : mu[s] # Nobody => SideOf(mu[s]) = s
    /\ \A w \in Procs : at[w] = "payload" => HasPayload(job[w])

(* The parts q of a direction fit together if the reader waits for the      *)
(* payload of first (or for a header, "none") and a writer has still to     *)
(* write the payload of last (or nobody has, "none").                       *)
Fits(q, first, last) ==
    /\ q = <<>> => first = last
    /\ q # <<>> =>
         /\ q[1].part = "payload" <=> first # "none"
         /\ first # "none" => q[1].t = first
         /\ IF last # "none" THEN q[Len(q)] = Part(last, "header")
            ELSE ~(q[Len(q)].part = "header" /\ HasPayload(q[Len(q)].t))
    /\ last # "none" => HasPayload(last)
    /\ \A i \in 1 .. Len(q) : q[i].part = "payload" => HasPayload(q[i].t)
    /\ \A i \in 1 .. Len(q) - 1 :
         /\ q[i].part = "header" /\ HasPayload(q[i].t) <=> q[i + 1].part = "payload"
         /\ q[i + 1].part = "payload" => q[i + 1].t = q[i].t

(* A header is written when nobody is between the two writes of a frame.    *)
LEMMA FitsWriteHeader ==
    ASSUME NEW q \in Seq(Parts), NEW first, NEW f \in Frames, Fits(q, first, "none")
    PROVE  Fits(Append(q, Part(f, "header")), first, IF HasPayload(f) THEN f ELSE "none")
<1> DEFINE n == Len(q)
           e == Part(f, "header")
           z == Append(q, e)
<1>1. e \in Parts /\ e.t = f /\ e.part = "header"
  BY DEF Part, Parts
<1>2. /\ n \in Nat /\ Len(z) = n + 1 /\ z # <<>>
      /\ z[n + 1] = e /\ \A i \in 1 .. n : z[i] = q[i]
  <2> HIDE DEF e, Parts
  <2> QED
    BY <1>1
<1>3. f # "none"
  BY DEF Frames
<1> HIDE DEF n, e, z
<1>4. n = 0 <=> q = <<>>
  BY DEF n
<1>5. /\ z[1].part = "payload" <=> first # "none"
      /\ first # "none" => z[1].t = first
  BY <1>1, <1>2, <1>4 DEF Fits
<1>6. \A i \in 1 .. Len(z) : z[i].part = "payload" => HasPayload(z[i].t)
  BY <1>1, <1>2 DEF Fits, n
<1>7. ASSUME NEW i \in 1 .. Len(z) - 1
      PROVE  /\ z[i].part = "header" /\ HasPayload(z[i].t) <=> z[i + 1].part = "payload"
             /\ z[i + 1].part = "payload" => z[i + 1].t = z[i].t
  <2>1. CASE i = n
    BY <1>1, <1>2, <1>4, <2>1 DEF Fits, n
  <2>2. CASE i < n
    <3>1. i \in 1 .. n - 1 /\ i \in 1 .. n /\ i + 1 \in 1 .. n
      BY <1>2, <2>2
    <3> QED
      BY <1>2, <3>1 DEF Fits, n
  <2> QED
    BY <1>2, <2>1, <2>2
<1> QED
  BY <1>1, <1>2, <1>3, <1>5, <1>6, <1>7 DEF Fits, e, z

(* The payload comes right behind its header.                               *)
LEMMA FitsWritePayload ==
    ASSUME NEW q \in Seq(Parts), NEW first, NEW f \in Frames, Fits(q, first, f)
    PROVE  Fits(Append(q, Part(f, "payload")), first, "none")
<1> DEFINE n == Len(q)
           e == Part(f, "payload")
           z == Append(q, e)
<1>1. e \in Parts /\ e.t = f /\ e.part = "payload" /\ f # "none"
  BY DEF Part, Parts, Frames
<1>2. /\ n \in Nat /\ Len(z) = n + 1 /\ z # <<>>
      /\ z[n + 1] = e /\ \A i \in 1 .. n : z[i] = q[i]
  <2> HIDE DEF e, Parts
  <2> QED
    BY <1>1
<1>3. HasPayload(f)
  BY <1>1 DEF Fits
<1> HIDE DEF n, e, z
<1>4. n = 0 <=> q = <<>>
  BY DEF n
<1>5. /\ z[1].part = "payload" <=> first # "none"
      /\ first # "none" => z[1].t = first
  BY <1>1, <1>2, <1>4 DEF Fits
<1>6. \A i \in 1 .. Len(z) : z[i].part = "payload" => HasPayload(z[i].t)
  BY <1>1, <1>2, <1>3 DEF Fits, n
<1>7. ASSUME NEW i \in 1 .. Len(z) - 1
      PROVE  /\ z[i].part = "header" /\ HasPayload(z[i].t) <=> z[i + 1].part = "payload"
             /\ z[i + 1].part = "payload" => z[i + 1].t = z[i].t
  <2>1. CASE i = n
    BY <1>1, <1>2, <1>3, <1>4, <2>1 DEF Fits, n, Part
  <2>2. CASE i < n
    <3>1. i \in 1 .. n - 1 /\ i \in 1 .. n /\ i + 1 \in 1 .. n
      BY <1>2, <2>2
    <3> QED
      BY <1>2, <3>1 DEF Fits, n
  <2> QED
    BY <1>2, <2>1, <2>2
<1> QED
  BY <1>1, <1>2, <1>5, <1>6, <1>7 DEF Fits, e, z

(* What the reader finds first is what it waits for: a header, or the       *)
(* payload of the frame whose header it has read.                           *)
LEMMA FitsRead ==
    ASSUME NEW q \in Seq(Parts), q # <<>>, NEW first \in Frames \cup {"none"},
           NEW last \in Frames \cup {"none"}, Fits(q, first, last)
    PROVE  /\ first = "none" =>
                /\ Head(q).part = "header"
                /\ Fits(Tail(q), IF HasPayload(Head(q).t) THEN Head(q).t ELSE "none", last)
           /\ first # "none" =>
                Head(q) = Part(first, "payload") /\ Fits(Tail(q), "none", last)
<1> DEFINE n == Len(q)
           z == Tail(q)
           next == IF first = "none" /\ HasPayload(q[1].t) THEN q[1].t ELSE "none"
<1>1. /\ n \in Nat /\ n >= 1 /\ Len(z) = n - 1 /\ z \in Seq(Parts)
      /\ Head(q) = q[1] /\ q[1] \in Parts
      /\ \A i \in 1 .. n - 1 : z[i] = q[i + 1]
  <2> HIDE DEF Parts
  <2> QED
    OBVIOUS
<1>2. q[1].part \in {"header", "payload"} /\ q[1].t \in Frames /\ q[1].t # "none"
  BY <1>1 DEF Parts, Frames
<1>3. q[1] = Part(q[1].t, q[1].part)
  BY <1>1 DEF Parts, Part
<1>4. /\ first = "none" => q[1].part = "header"
      /\ first # "none" => q[1].part = "payload" /\ q[1].t = first
  BY <1>2 DEF Fits
<1>5. Fits(z, next, last)
  <2> HIDE DEF n, z
  <2>1. z = <<>> => next = last
    <3>1. SUFFICES ASSUME z = <<>> PROVE next = last
      OBVIOUS
    <3>2. n = 1
      BY <1>1, <3>1
    <3> QED
      BY <1>2, <1>4, <3>2 DEF Fits, n, Part
  <2>2. ASSUME z # <<>>
        PROVE  /\ z[1].part = "payload" <=> next # "none"
               /\ next # "none" => z[1].t = next
               /\ z[Len(z)] = q[n]
    <3>1. n >= 2
      BY <1>1, <2>2 DEF n, z
    <3>2. 1 \in 1 .. n - 1 /\ 1 \in 1 .. Len(q) - 1 /\ n - 1 \in 1 .. n - 1 /\ (n - 1) + 1 = n
      BY <1>1, <3>1 DEF n
    <3>3. z[1] = q[1 + 1] /\ z[n - 1] = q[n]
      BY <1>1, <3>2
    <3> QED
      BY <1>1, <1>2, <1>4, <3>2, <3>3 DEF Fits
  <2>3. \A i \in 1 .. Len(z) : z[i].part = "payload" => HasPayload(z[i].t)
    BY <1>1 DEF Fits, n
  <2>4. ASSUME NEW i \in 1 .. Len(z) - 1
        PROVE  /\ z[i].part = "header" /\ HasPayload(z[i].t) <=> z[i + 1].part = "payload"
               /\ z[i + 1].part = "payload" => z[i + 1].t = z[i].t
    <3>1. i \in 1 .. n - 1 /\ i + 1 \in 1 .. n - 1 /\ i + 1 \in 1 .. Len(q) - 1
      BY <1>1 DEF n
    <3>2. z[i] = q[i + 1] /\ z[i + 1] = q[(i + 1) + 1]
      BY <1>1, <3>1
    <3>3. /\ q[i + 1].part = "header" /\ HasPayload(q[i + 1].t) <=> q[(i + 1) + 1].part = "payload"
          /\ q[(i + 1) + 1].part = "payload" => q[(i + 1) + 1].t = q[i + 1].t
      BY <3>1 DEF Fits
    <3> QED
      BY <3>2, <3>3
  <2> QED
    BY <1>1, <2>1, <2>2, <2>3, <2>4 DEF Fits, n
<1> QED
  BY <1>1, <1>3, <1>4, <1>5

-----------------------------------------------------------------------------
(* The two ends of a direction.                                             *)
ReaderOf(s) == IF s = "cli" THEN SrvReader ELSE CliReader
First(s)    == IF rd[ReaderOf(s)] = "payload" THEN frame[ReaderOf(s)] ELSE "none"
Last(s)     == IF mu[s] # Nobody THEN job[mu[s]] ELSE "none"

\* While the connection is open the parts of a direction fit, except that the
\* client may have dropped a header.
Framed ==
    link => \A s \in Sides : (s = "srv" /\ torn) \/ Fits(stream[s], First(s), Last(s))

LinkInv == LinkTypes /\ LockHeld /\ Framed /\ FramesStayWhole

(* Who is who.                                                              *)
LEMMA Ends ==
    /\ \A w \in Procs : SideOf(w) \in Sides /\ w # Nobody
    /\ \A r \in Readers : /\ PeerOf(r) \in Sides /\ ReaderOf(PeerOf(r)) = r /\ r \in Procs
                          /\ SideOf(r) # PeerOf(r)
    /\ \A s \in Sides : ReaderOf(s) \in Readers /\ PeerOf(ReaderOf(s)) = s
BY DEF Procs, Readers, Writers, Sides, SideOf, PeerOf, ReaderOf, Nobody, SrvReader, CliReader

(* The answers of the read loops are frames.                                *)
LEMMA AnswersAreFrames ==
    ASSUME NEW r, NEW f PROVE Answers(r, f) \subseteq Frames
BY DEF Answers, Frames, SrvReader, CliReader

(* What Handle leaves: the loop is back at a header (or at udpMu) and has at *)
(* most begun to write an answer.                                           *)
LEMMA HandleStep ==
    ASSUME LinkTypes, NEW r \in Readers, NEW f, at[r] = "idle", Handle(r, f)
    PROVE  /\ rd' \in [Readers -> {"header", "payload", "udpMu", "done"}]
           /\ frame' \in [Readers -> Frames \cup {"none"}]
           /\ rd'[r] # "payload"
           /\ \A x \in Readers : x # r => rd'[x] = rd[x] /\ frame'[x] = frame[x]
           /\ at' \in [Procs -> {"idle", "header", "payload"}]
           /\ job' \in [Procs -> Frames \cup {"none"}]
           /\ \A w \in Procs : w # r => at'[w] = at[w] /\ job'[w] = job[w]
           /\ at'[r] # "payload" /\ (at'[r] # "idle" => job'[r] \in Frames)
<1>1. r \in Procs
  BY Ends
<1>2. CASE Answers(r, f) = {}
  BY <1>1, <1>2 DEF LinkTypes, Handle
<1>3. CASE Answers(r, f) # {}
  <2>1. PICK a \in Answers(r, f) : Want(r, a)
    BY <1>3 DEF Handle
  <2>2. a \in Frames
    BY <2>1, AnswersAreFrames
  <2> QED
    BY <1>1, <2>1, <2>2 DEF LinkTypes, Handle, Want
<1> QED
  BY <1>2, <1>3

(* Everything keeps its type.                                               *)
LEMMA LinkTypesStep == LinkTypes /\ [LinkNext]_linkVars => LinkTypes'
<1> SUFFICES ASSUME LinkTypes, [LinkNext]_linkVars PROVE LinkTypes'
  OBVIOUS
<1> USE DEF LinkTypes, procVars, readVars, histVars
<1>1. ASSUME NEW w \in Writers, NEW f \in Writes(w), Begin(w, f) PROVE LinkTypes'
  <2>1. w \in Procs /\ f \in Frames
    BY DEF Procs, Writers, Writes, Frames
  <2> QED
    BY <1>1, <2>1 DEF Begin, Want
<1>2. ASSUME NEW w \in Procs, NEW p \in {"header", "payload"}, Put(w, p)
      PROVE  stream' \in [Sides -> Seq(Parts)]
  <2>1. [t |-> job[w], part |-> p] \in Parts
    BY <1>2 DEF Put, Parts
  <2> QED
    BY <1>2, <2>1, Ends DEF Put
<1>3. ASSUME NEW w \in Procs, WriteHeader(w) PROVE LinkTypes'
  <2>1. stream' \in [Sides -> Seq(Parts)]
    BY <1>2, <1>3 DEF WriteHeader
  <2>2. CASE HasPayload(job[w])
    BY <1>3, <2>1, <2>2 DEF WriteHeader, Put
  <2>3. CASE ~HasPayload(job[w])
    BY <1>3, <2>1, <2>3 DEF WriteHeader, LeaveWrite
  <2> QED
    BY <2>2, <2>3
<1>4. ASSUME NEW w \in Procs, WritePayload(w) PROVE LinkTypes'
  <2>1. stream' \in [Sides -> Seq(Parts)]
    BY <1>2, <1>4 DEF WritePayload
  <2> QED
    BY <1>4, <2>1 DEF WritePayload, LeaveWrite
<1>5. ASSUME NEW w \in Procs, WriteFails(w) PROVE LinkTypes'
  BY <1>5 DEF WriteFails, LeaveWrite
<1>6. ASSUME NEW r \in Readers, stream[PeerOf(r)] # <<>>
      PROVE  /\ Head(stream[PeerOf(r)]) \in Parts
             /\ [stream EXCEPT ![PeerOf(r)] = Tail(@)] \in [Sides -> Seq(Parts)]
  BY <1>6, Ends
<1>7. ASSUME NEW r \in Readers, ReadHeader(r) PROVE LinkTypes'
  <2> DEFINE f == Head(stream[PeerOf(r)]).t
  <2>1. stream' \in [Sides -> Seq(Parts)] /\ f \in Frames
    BY <1>6, <1>7 DEF ReadHeader, Reads, Parts
  <2>2. CASE HasPayload(f)
    BY <1>7, <2>1, <2>2 DEF ReadHeader
  <2>3. CASE ~HasPayload(f)
    <3>1. Handle(r, f) /\ at[r] = "idle" /\ UNCHANGED <<link, torn, mu>>
      BY <1>7, <2>3 DEF ReadHeader, Reads
    <3> HIDE DEF f
    <3> QED
      BY <2>1, <3>1, HandleStep
  <2> QED
    BY <2>2, <2>3
<1>8. ASSUME NEW r \in Readers, ReadGarbage(r) PROVE LinkTypes'
  BY <1>6, <1>8 DEF ReadGarbage, Reads
<1>9. ASSUME NEW r \in Readers, ReadPayload(r) PROVE LinkTypes'
  <2>1. stream' \in [Sides -> Seq(Parts)]
    BY <1>6, <1>9 DEF ReadPayload, Reads
  <2>2. Handle(r, frame[r]) /\ at[r] = "idle" /\ UNCHANGED <<link, torn, mu>>
    BY <1>9 DEF ReadPayload, Reads
  <2> QED
    BY <2>1, <2>2, HandleStep
<1>10. ASSUME NEW r \in Readers, LoopEnds(r) PROVE LinkTypes'
  BY <1>10 DEF LoopEnds
<1>11. CASE LookUp
  BY <1>11 DEF LookUp
<1>12. CASE ReadTimeout
  BY <1>12 DEF ReadTimeout, Want, Frames, Readers
<1>13. CASE LinkDrops \/ Refused
  BY <1>13 DEF LinkDrops, Refused
<1>14. CASE UNCHANGED linkVars
  BY <1>14 DEF linkVars
<1> QED
  BY <1>1, <1>3, <1>4, <1>5, <1>7, <1>8, <1>9, <1>10, <1>11, <1>12, <1>13, <1>14
  DEF LinkNext, WriteNext, ReadNext

(* writeMu is taken with the header and given back with the payload.        *)
LEMMA LockHeldStep == LinkTypes /\ LockHeld /\ [LinkNext]_linkVars => LockHeld'
<1> SUFFICES ASSUME LinkTypes, LockHeld, [LinkNext]_linkVars PROVE LockHeld'
  OBVIOUS
<1> USE DEF LinkTypes, LockHeld, procVars, readVars, histVars
<1>1. ASSUME NEW w \in Writers, NEW f \in Writes(w), Begin(w, f) PROVE LockHeld'
  <2>1. w \in Procs
    BY DEF Procs
  <2> QED
    BY <1>1, <2>1, Ends DEF Begin, Want
<1>2. ASSUME NEW w \in Procs, WriteHeader(w) PROVE LockHeld'
  <2>0. mu[SideOf(w)] = Nobody /\ at[w] = "header"
    BY <1>2 DEF WriteHeader, Put
  <2>1. CASE HasPayload(job[w])
    <3>1. /\ at' = [at EXCEPT ![w] = "payload"] /\ mu' = [mu EXCEPT ![SideOf(w)] = w]
          /\ job' = job
      BY <1>2, <2>1 DEF WriteHeader
    <3> QED
      BY <2>0, <2>1, <3>1, Ends
  <2>2. CASE ~HasPayload(job[w])
    <3>1. LeaveWrite(w)
      BY <1>2, <2>2 DEF WriteHeader
    <3> QED
      BY <2>0, <3>1, Ends DEF LeaveWrite
  <2> QED
    BY <2>1, <2>2
<1>3. ASSUME NEW w \in Procs, WritePayload(w) PROVE LockHeld'
  BY <1>3, Ends DEF WritePayload, Put, LeaveWrite
<1>4. ASSUME NEW w \in Procs, WriteFails(w) PROVE LockHeld'
  BY <1>4, Ends DEF WriteFails, LeaveWrite
<1>5. ASSUME NEW r \in Readers, ReadHeader(r) PROVE LockHeld'
  <2> DEFINE f == Head(stream[PeerOf(r)]).t
  <2>1. CASE HasPayload(f)
    BY <1>5, <2>1 DEF ReadHeader
  <2>2. CASE ~HasPayload(f)
    <3>1. Handle(r, f) /\ at[r] = "idle" /\ UNCHANGED mu
      BY <1>5, <2>2 DEF ReadHeader, Reads
    <3> HIDE DEF f
    <3> QED
      BY <3>1, HandleStep, Ends
  <2> QED
    BY <2>1, <2>2
<1>6. ASSUME NEW r \in Readers, ReadPayload(r) PROVE LockHeld'
  <2>1. Handle(r, frame[r]) /\ at[r] = "idle" /\ UNCHANGED mu
    BY <1>6 DEF ReadPayload, Reads
  <2> QED
    BY <2>1, HandleStep, Ends
<1>7. ASSUME NEW r \in Readers, ReadGarbage(r) \/ LoopEnds(r) PROVE LockHeld'
  BY <1>7 DEF ReadGarbage, LoopEnds
<1>8. CASE ReadTimeout
  BY <1>8, Ends DEF ReadTimeout, Want, Readers
<1>9. CASE LookUp \/ LinkDrops \/ Refused \/ UNCHANGED linkVars
  BY <1>9 DEF LookUp, LinkDrops, Refused, linkVars
<1> QED
  BY <1>1, <1>2, <1>3, <1>4, <1>5, <1>6, <1>7, <1>8, <1>9 DEF LinkNext, WriteNext, ReadNext

(* A direction whose two ends and whose parts a step leaves alone stays as  *)
(* it was.                                                                  *)
LEMMA OtherDirection ==
    ASSUME NEW s \in Sides, UNCHANGED <<stream[s], First(s), Last(s)>>,
           Fits(stream[s], First(s), Last(s))
    PROVE  Fits(stream[s], First(s), Last(s))'
<1> DEFINE q == stream[s]
           a == First(s)
           b == Last(s)
<1>1. q' = q /\ a' = a /\ b' = b /\ Fits(q, a, b)
  OBVIOUS
<1> HIDE DEF q, a, b
<1>2. Fits(q, a, b)'
  BY <1>1 DEF Fits
<1> QED
  BY <1>2 DEF q, a, b

(* Neither end of a direction moves when only other goroutines do.          *)
LEMMA EndsStay ==
    ASSUME NEW s \in Sides
    PROVE  /\ (rd'[ReaderOf(s)] = rd[ReaderOf(s)] /\ frame'[ReaderOf(s)] = frame[ReaderOf(s)])
                => UNCHANGED First(s)
           /\ (mu'[s] = mu[s] /\ (mu[s] # Nobody => job'[mu[s]] = job[mu[s]]))
                => UNCHANGED Last(s)
BY DEF First, Last

(* What the parts of a direction are is kept by every step of its two ends. *)
LEMMA FramedStep ==
    LinkTypes /\ LockHeld /\ Framed /\ [LinkNext]_linkVars => Framed'
<1> SUFFICES ASSUME LinkTypes, LockHeld, Framed, [LinkNext]_linkVars, link', NEW s \in Sides,
                    ~(s = "srv" /\ torn')
             PROVE  Fits(stream[s], First(s), Last(s))'
  BY DEF Framed
<1> DEFINE r == ReaderOf(s)
<1> USE DEF procVars, readVars, histVars
<1>1. link /\ (torn => torn') /\ torn \in BOOLEAN /\ Fits(stream[s], First(s), Last(s))
  <2> DEFINE Same == UNCHANGED link \/ link
             Kept == torn' = torn \/ torn' = (torn \/ rd[CliReader] = "payload")
  <2>1. ASSUME NEW w \in Writers, NEW f \in Writes(w), Begin(w, f) PROVE Same /\ Kept
    BY <2>1 DEF Begin
  <2>2. ASSUME NEW w \in Procs, WriteNext(w) PROVE Same /\ Kept
    BY <2>2 DEF WriteNext, WriteHeader, WritePayload, WriteFails
  <2>3. ASSUME NEW x \in Readers, ReadNext(x) PROVE Same /\ Kept
    <3>1. CASE ReadHeader(x)
      BY <3>1 DEF ReadHeader
    <3>2. CASE ReadGarbage(x)
      BY <3>2 DEF ReadGarbage, Reads
    <3>3. CASE ReadPayload(x)
      BY <3>3 DEF ReadPayload
    <3>4. CASE LoopEnds(x)
      BY <3>4 DEF LoopEnds
    <3> QED
      BY <2>3, <3>1, <3>2, <3>3, <3>4 DEF ReadNext
  <2>4. ASSUME LookUp \/ ReadTimeout \/ LinkDrops \/ Refused \/ UNCHANGED linkVars PROVE Same /\ Kept
    BY <2>4 DEF LookUp, ReadTimeout, LinkDrops, Refused, linkVars
  <2>5. Same /\ Kept
    <3> HIDE DEF Same, Kept
    <3> QED
      BY <2>1, <2>2, <2>3, <2>4 DEF LinkNext
  <2>6. link
    <3>1. link \in BOOLEAN
      BY DEF LinkTypes
    <3>2. CASE UNCHANGED link
      BY <3>1, <3>2
    <3>3. CASE link
      BY <3>3
    <3> QED
      BY <2>5, <3>2, <3>3
  <2>7. ASSUME torn PROVE torn'
    BY <2>5, <2>7
  <2> QED
    BY <2>6, <2>7 DEF LinkTypes, Framed
<1>2. /\ stream[s] \in Seq(Parts) /\ r \in Readers /\ r \in Procs /\ PeerOf(r) = s
      /\ First(s) \in Frames \cup {"none"} /\ Last(s) \in Frames \cup {"none"}
  BY Ends DEF LinkTypes, First, Last
<1>3. ASSUME NEW w \in Procs, at[w] # "payload", \A x \in Procs : x # w => job'[x] = job[x],
             UNCHANGED mu
      PROVE  UNCHANGED Last(s)
  <2>1. mu[s] # Nobody => mu[s] \in Procs /\ mu[s] # w
    BY <1>3 DEF LinkTypes, LockHeld
  <2> QED
    BY <1>3, <2>1, EndsStay
<1>4. ASSUME NEW w \in Writers, NEW f \in Writes(w), Begin(w, f)
      PROVE  Fits(stream[s], First(s), Last(s))'
  <2>1. w \in Procs /\ at[w] # "payload" /\ UNCHANGED <<stream, mu, rd, frame>>
    BY <1>4 DEF Begin, Procs
  <2>2. \A x \in Procs : x # w => job'[x] = job[x]
    BY <1>4 DEF Begin, Want, LinkTypes
  <2> QED
    BY <1>1, <1>3, <2>1, <2>2, EndsStay, OtherDirection
<1>5. ASSUME NEW w \in Procs, WriteHeader(w) PROVE Fits(stream[s], First(s), Last(s))'
  <2>1. /\ mu[SideOf(w)] = Nobody /\ at[w] = "header" /\ job[w] \in Frames
        /\ stream' = [stream EXCEPT ![SideOf(w)] = Append(@, Part(job[w], "header"))]
        /\ UNCHANGED <<rd, frame>>
    BY <1>5 DEF WriteHeader, Put, LinkTypes, Part
  <2>2. /\ HasPayload(job[w]) => mu' = [mu EXCEPT ![SideOf(w)] = w] /\ job' = job
        /\ ~HasPayload(job[w]) => /\ mu' = [mu EXCEPT ![SideOf(w)] = Nobody]
                                  /\ job' = [job EXCEPT ![w] = "none"]
    BY <1>5 DEF WriteHeader, LeaveWrite
  <2>3. UNCHANGED First(s)
    BY <2>1, EndsStay
  <2>4. CASE s = SideOf(w)
    <3>1. Last(s) = "none"
      BY <2>1, <2>4 DEF Last
    <3>2. Last(s)' = IF HasPayload(job[w]) THEN job[w] ELSE "none"
      BY <2>1, <2>2, <2>4, Ends DEF Last, LinkTypes
    <3>3. stream'[s] = Append(stream[s], Part(job[w], "header"))
      BY <2>1, <2>4 DEF LinkTypes
    <3>4. Fits(stream'[s], First(s), IF HasPayload(job[w]) THEN job[w] ELSE "none")
      BY <1>1, <1>2, <2>1, <3>1, <3>3, FitsWriteHeader
    <3> QED
      BY <2>3, <3>2, <3>4
  <2>5. CASE s # SideOf(w)
    <3>1. stream'[s] = stream[s] /\ mu'[s] = mu[s]
      BY <2>1, <2>2, <2>5 DEF LinkTypes
    <3>2. mu[s] # Nobody => mu[s] # w /\ job'[mu[s]] = job[mu[s]]
      BY <2>2, <2>5, Ends DEF LinkTypes, LockHeld
    <3> QED
      BY <1>1, <2>3, <3>1, <3>2, EndsStay, OtherDirection
  <2> QED
    BY <2>4, <2>5
<1>6. ASSUME NEW w \in Procs, WritePayload(w) PROVE Fits(stream[s], First(s), Last(s))'
  <2>1. /\ at[w] = "payload" /\ job[w] \in Frames
        /\ stream' = [stream EXCEPT ![SideOf(w)] = Append(@, Part(job[w], "payload"))]
        /\ mu' = [mu EXCEPT ![SideOf(w)] = Nobody] /\ job' = [job EXCEPT ![w] = "none"]
        /\ UNCHANGED <<rd, frame>>
    BY <1>6 DEF WritePayload, Put, LeaveWrite, LinkTypes, Part
  <2>2. mu[SideOf(w)] = w /\ w # Nobody
    BY <2>1, Ends DEF LockHeld
  <2>3. UNCHANGED First(s)
    BY <2>1, EndsStay
  <2>4. CASE s = SideOf(w)
    <3>1. Last(s) = job[w]
      BY <2>2, <2>4 DEF Last
    <3>2. Last(s)' = "none"
      BY <2>1, <2>4 DEF Last, LinkTypes
    <3>3. stream'[s] = Append(stream[s], Part(job[w], "payload"))
      BY <2>1, <2>4 DEF LinkTypes
    <3>4. Fits(stream'[s], First(s), "none")
      BY <1>1, <1>2, <2>1, <3>1, <3>3, FitsWritePayload
    <3> QED
      BY <2>3, <3>2, <3>4
  <2>5. CASE s # SideOf(w)
    <3>1. stream'[s] = stream[s] /\ mu'[s] = mu[s]
      BY <2>1, <2>5 DEF LinkTypes
    <3>2. mu[s] # Nobody => mu[s] # w /\ job'[mu[s]] = job[mu[s]]
      BY <2>1, <2>2, <2>5, Ends DEF LinkTypes, LockHeld
    <3> QED
      BY <1>1, <2>3, <3>1, <3>2, EndsStay, OtherDirection
  <2> QED
    BY <2>4, <2>5
<1>7. ASSUME NEW w \in Procs, WriteFails(w) \/ (w \in Readers /\ LoopEnds(w)) PROVE FALSE
  BY <1>1, <1>7 DEF WriteFails, LoopEnds
<1>8. ASSUME NEW x \in Readers, x # r, at[x] # "payload",
             stream' = [stream EXCEPT ![PeerOf(x)] = Tail(@)], UNCHANGED mu,
             \A y \in Readers : y # x => rd'[y] = rd[y] /\ frame'[y] = frame[y],
             \A w \in Procs : w # x => job'[w] = job[w]
      PROVE  Fits(stream[s], First(s), Last(s))'
  <2>1. PeerOf(x) # s /\ x \in Procs
    BY <1>8, Ends
  <2>2. stream'[s] = stream[s]
    BY <1>8, <2>1 DEF LinkTypes
  <2>3. UNCHANGED <<First(s), Last(s)>>
    BY <1>2, <1>3, <1>8, <2>1, EndsStay
  <2> QED
    BY <1>1, <2>2, <2>3, OtherDirection
<1>9. ASSUME NEW x \in Readers, ReadHeader(x) PROVE Fits(stream[s], First(s), Last(s))'
  <2> DEFINE f == Head(stream[PeerOf(x)]).t
  <2>1. /\ rd[x] = "header" /\ at[x] = "idle" /\ stream[PeerOf(x)] # <<>> /\ UNCHANGED mu
        /\ stream' = [stream EXCEPT ![PeerOf(x)] = Tail(@)]
    BY <1>9 DEF ReadHeader, Reads
  <2>2. /\ rd' \in [Readers -> {"header", "payload", "udpMu", "done"}]
        /\ frame' \in [Readers -> Frames \cup {"none"}]
        /\ IF HasPayload(f) THEN rd'[x] = "payload" /\ frame'[x] = f ELSE rd'[x] # "payload"
        /\ \A y \in Readers : y # x => rd'[y] = rd[y] /\ frame'[y] = frame[y]
        /\ \A w \in Procs : w # x => job'[w] = job[w]
    <3>1. CASE HasPayload(f)
      <4>1. f \in Frames
        <5>1. stream[PeerOf(x)] \in Seq(Parts)
          BY Ends DEF LinkTypes
        <5>2. Head(stream[PeerOf(x)]) \in Parts
          <6> HIDE DEF Parts
          <6> QED
            BY <2>1, <5>1
        <5> QED
          BY <5>2 DEF Parts
      <4>2. /\ frame' = [frame EXCEPT ![x] = f] /\ rd' = [rd EXCEPT ![x] = "payload"]
            /\ job' = job
        BY <1>9, <3>1 DEF ReadHeader
      <4> HIDE DEF f
      <4> QED
        BY <3>1, <4>1, <4>2 DEF LinkTypes
    <3>2. CASE ~HasPayload(f)
      <4>1. Handle(x, f)
        BY <1>9, <3>2 DEF ReadHeader
      <4> HIDE DEF f
      <4> QED
        BY <2>1, <3>2, <4>1, HandleStep
    <3> QED
      BY <3>1, <3>2
  <2>3. CASE x = r
    <3>1. First(s) = "none"
      BY <2>1, <2>3 DEF First
    <3>2. First(s)' = IF HasPayload(f) THEN f ELSE "none"
      BY <2>2, <2>3 DEF First
    <3>3. stream'[s] = Tail(stream[s]) /\ PeerOf(x) = s /\ stream[s] # <<>>
      BY <1>2, <2>1, <2>3 DEF LinkTypes
    <3>4. UNCHANGED Last(s)
      BY <1>2, <1>3, <2>1, <2>2, <2>3
    <3>5. Fits(Tail(stream[s]), IF HasPayload(f) THEN f ELSE "none", Last(s))
      BY <1>1, <1>2, <3>1, <3>3, FitsRead
    <3> QED
      BY <3>2, <3>3, <3>4, <3>5
  <2>4. CASE x # r
    BY <1>8, <2>1, <2>2, <2>4
  <2> QED
    BY <2>3, <2>4
<1>10. ASSUME NEW x \in Readers, ReadPayload(x) PROVE Fits(stream[s], First(s), Last(s))'
  <2>1. /\ rd[x] = "payload" /\ at[x] = "idle" /\ stream[PeerOf(x)] # <<>> /\ UNCHANGED mu
        /\ stream' = [stream EXCEPT ![PeerOf(x)] = Tail(@)] /\ Handle(x, frame[x])
    BY <1>10 DEF ReadPayload, Reads
  <2>2. /\ rd'[x] # "payload"
        /\ \A y \in Readers : y # x => rd'[y] = rd[y] /\ frame'[y] = frame[y]
        /\ \A w \in Procs : w # x => job'[w] = job[w]
    BY <2>1, HandleStep
  <2>3. CASE x = r
    <3>1. First(s) # "none"
      BY <2>1, <2>3 DEF First, LinkTypes, Frames
    <3>2. First(s)' = "none"
      BY <2>2, <2>3 DEF First
    <3>3. stream'[s] = Tail(stream[s]) /\ PeerOf(x) = s /\ stream[s] # <<>>
      BY <1>2, <2>1, <2>3 DEF LinkTypes
    <3>4. UNCHANGED Last(s)
      BY <1>2, <1>3, <2>1, <2>2, <2>3
    <3>5. Fits(Tail(stream[s]), "none", Last(s))
      BY <1>1, <1>2, <3>1, <3>3, FitsRead
    <3> QED
      BY <3>2, <3>3, <3>4, <3>5
  <2>4. CASE x # r
    BY <1>8, <2>1, <2>2, <2>4
  <2> QED
    BY <2>3, <2>4
<1>11. ASSUME NEW x \in Readers, ReadGarbage(x) PROVE Fits(stream[s], First(s), Last(s))'
  <2>1. /\ rd[x] = "header" /\ at[x] = "idle" /\ stream[PeerOf(x)] # <<>>
        /\ Head(stream[PeerOf(x)]).part = "payload"
        /\ UNCHANGED <<mu, rd, frame, job>>
        /\ stream' = [stream EXCEPT ![PeerOf(x)] = Tail(@)]
    BY <1>11 DEF ReadGarbage, Reads
  <2>2. x # r
    <3>1. SUFFICES ASSUME x = r PROVE FALSE
      OBVIOUS
    <3>2. First(s) = "none" /\ PeerOf(x) = s
      BY <1>2, <2>1, <3>1 DEF First
    <3> QED
      BY <1>1, <1>2, <2>1, <3>2, FitsRead
  <2> QED
    BY <1>8, <2>1, <2>2
<1>12. CASE LookUp
  <2>1. UNCHANGED <<stream, mu, job, frame>> /\ rd[SrvReader] = "udpMu"
        /\ rd' = [rd EXCEPT ![SrvReader] = "header"]
    BY <1>12 DEF LookUp
  <2>2. UNCHANGED First(s)
    BY <1>2, <2>1 DEF First, LinkTypes
  <2> QED
    BY <1>1, <2>1, <2>2, EndsStay, OtherDirection
<1>13. CASE ReadTimeout
  <2>1. /\ at[CliReader] = "idle" /\ UNCHANGED <<stream, mu>>
        /\ job' = [job EXCEPT ![CliReader] = "ping"]
        /\ torn' = (torn \/ rd[CliReader] = "payload")
        /\ rd' = [rd EXCEPT ![CliReader] = "header"]
        /\ frame' = [frame EXCEPT ![CliReader] = "none"]
    BY <1>13 DEF ReadTimeout, Want
  <2>2. UNCHANGED Last(s)
    <3>1. CliReader \in Procs
      BY Ends DEF Readers
    <3> QED
      BY <1>3, <2>1, <3>1 DEF LinkTypes
  <2>3. r = CliReader => s = "srv"
    BY DEF ReaderOf, Sides, SrvReader, CliReader
  <2>4. UNCHANGED First(s)
    <3>1. CASE r = CliReader
      BY <2>1, <2>3, <3>1 DEF First, LinkTypes
    <3>2. CASE r # CliReader
      BY <1>2, <2>1, <3>2, EndsStay DEF LinkTypes
    <3> QED
      BY <3>1, <3>2
  <2> QED
    BY <1>1, <2>1, <2>2, <2>4, OtherDirection
<1>14. CASE LinkDrops \/ Refused \/ UNCHANGED linkVars
  <2>1. UNCHANGED <<stream, mu, job, rd, frame>>
    BY <1>14 DEF LinkDrops, Refused, linkVars
  <2> QED
    BY <1>1, <2>1, EndsStay, OtherDirection
<1> QED
  <2> HIDE DEF r
  <2> QED
    BY <1>4, <1>5, <1>6, <1>7, <1>9, <1>10, <1>11, <1>12, <1>13, <1>14, Ends
    DEF LinkNext, WriteNext, ReadNext

(* A part that does not fit is only met by the client, after its deadline   *)
(* cut a frame in two.                                                      *)
LEMMA WholeStep ==
    LinkTypes /\ Framed /\ FramesStayWhole /\ [LinkNext]_linkVars => FramesStayWhole'
<1> SUFFICES ASSUME LinkTypes, Framed, FramesStayWhole, [LinkNext]_linkVars PROVE FramesStayWhole'
  OBVIOUS
<1> USE DEF procVars, readVars, histVars
<1>1. ASSUME misread' = misread, torn => torn' PROVE FramesStayWhole'
  BY <1>1 DEF FramesStayWhole
<1>2. ASSUME NEW x \in Readers, Reads(x, "header") \/ Reads(x, "payload")
      PROVE  \/ x = CliReader /\ torn
             \/ /\ rd[x] = "header" => Head(stream[PeerOf(x)]).part = "header"
                /\ rd[x] = "payload" => Head(stream[PeerOf(x)]) = Part(frame[x], "payload")
  <2> DEFINE s == PeerOf(x)
  <2>1. link /\ stream[s] # <<>> /\ s \in Sides /\ ReaderOf(s) = x /\ stream[s] \in Seq(Parts)
    BY <1>2, Ends DEF Reads, LinkTypes
  <2>2. s = "srv" <=> x = CliReader
    BY DEF PeerOf, Readers, SrvReader, CliReader
  <2>3. CASE Fits(stream[s], First(s), Last(s))
    <3>1. First(s) \in Frames \cup {"none"} /\ Last(s) \in Frames \cup {"none"}
      BY <2>1, Ends DEF LinkTypes, First, Last
    <3>2. /\ rd[x] = "header" => First(s) = "none"
          /\ rd[x] = "payload" => First(s) = frame[x] /\ First(s) # "none"
      BY <2>1 DEF First, LinkTypes, Frames
    <3> HIDE DEF s
    <3> QED
      BY <2>1, <2>3, <3>1, <3>2, FitsRead DEF s
  <2> QED
    BY <2>1, <2>2, <2>3 DEF Framed
<1>3. ASSUME NEW x \in Readers, ReadGarbage(x) PROVE FramesStayWhole'
  <2>1. x = CliReader /\ torn /\ torn' = torn /\ misread' = misread \cup {x}
    BY <1>2, <1>3 DEF ReadGarbage, Reads
  <2> QED
    BY <2>1 DEF FramesStayWhole, SrvReader, CliReader
<1>4. ASSUME NEW x \in Readers, ReadPayload(x) PROVE FramesStayWhole'
  <2>1. /\ torn' = torn
        /\ misread' = misread \/ (misread' = misread \cup {x} /\ x = CliReader /\ torn)
    BY <1>2, <1>4 DEF ReadPayload, Reads, Part
  <2> QED
    BY <2>1 DEF FramesStayWhole, SrvReader, CliReader
<1>5. ASSUME NEW x \in Readers, ReadHeader(x) \/ LoopEnds(x) PROVE FramesStayWhole'
  BY <1>1, <1>5 DEF ReadHeader, LoopEnds
<1>6. ASSUME NEW w \in Procs, WriteNext(w) PROVE FramesStayWhole'
  BY <1>1, <1>6 DEF WriteNext, WriteHeader, WritePayload, WriteFails
<1>7. ASSUME NEW w \in Writers, NEW f \in Writes(w), Begin(w, f) PROVE FramesStayWhole'
  BY <1>1, <1>7 DEF Begin
<1>8. CASE LookUp \/ LinkDrops \/ Refused \/ UNCHANGED linkVars
  BY <1>1, <1>8 DEF LookUp, LinkDrops, Refused, linkVars
<1>9. CASE ReadTimeout
  <2>1. misread' = misread /\ torn' = (torn \/ rd[CliReader] = "payload")
    BY <1>9 DEF ReadTimeout
  <2> QED
    BY <1>1, <2>1
<1> QED
  BY <1>3, <1>4, <1>5, <1>6, <1>7, <1>8, <1>9 DEF LinkNext, ReadNext

(* The invariant of the two directions.                                     *)
LEMMA LinkInvHolds == LinkSpec => []LinkInv
<1>1. LinkInit => LinkInv
  <2> SUFFICES ASSUME LinkInit PROVE LinkInv
    OBVIOUS
  <2>1. LinkTypes
    <3>1. link \in BOOLEAN /\ torn \in BOOLEAN
      BY DEF LinkInit
    <3>2. stream \in [Sides -> Seq(Parts)]
      BY DEF LinkInit
    <3>3. /\ mu \in [Sides -> Procs \cup {Nobody}]
          /\ at \in [Procs -> {"idle", "header", "payload"}]
          /\ job \in [Procs -> Frames \cup {"none"}]
          /\ rd \in [Readers -> {"header", "payload", "udpMu", "done"}]
          /\ frame \in [Readers -> Frames \cup {"none"}]
      BY DEF LinkInit
    <3> QED
      BY <3>1, <3>2, <3>3 DEF LinkInit, LinkTypes
  <2>2. LockHeld
    BY Ends DEF LinkInit, LockHeld
  <2>3. ASSUME NEW s \in Sides PROVE Fits(stream[s], First(s), Last(s))
    <3>1. stream[s] = <<>> /\ First(s) = "none" /\ Last(s) = "none"
      BY Ends DEF LinkInit, First, Last
    <3>2. Fits(<<>>, "none", "none")
      BY DEF Fits
    <3> QED
      BY <3>1, <3>2
  <2>4. FramesStayWhole
    BY DEF LinkInit, FramesStayWhole
  <2> QED
    BY <2>1, <2>2, <2>3, <2>4 DEF LinkInv, Framed
<1>2. LinkInv /\ [LinkNext]_linkVars => LinkInv'
  BY LinkTypesStep, LockHeldStep, FramedStep, WholeStep DEF LinkInv
<1> QED
  BY <1>1, <1>2, PTL DEF LinkSpec

(* Framing holds up: the server never takes payload bytes for a header nor  *)
(* one frame's payload for another's, and the client only after its own     *)
(* read deadline fired inside a frame.                                      *)
THEOREM FramesStayWholeHolds == LinkSpec => []FramesStayWhole
BY LinkInvHolds, PTL DEF LinkInv

-----------------------------------------------------------------------------
(* Before the first heartbeat there is no ping anywhere, so that            *)
(* relayReadLoop has nothing to write; before udpMu is taken for the first  *)
(* time nobody holds it.                                                    *)
NoPingYet ==
    pings = 0 => /\ at[SrvReader] = "idle"
                 /\ \A w \in Procs : job[w] # "ping"
                 /\ \A r \in Readers : frame[r] # "ping"
                 /\ \A s \in Sides : \A i \in 1 .. Len(stream[s]) : stream[s][i].t # "ping"

NoUdpYet == ~udpUsed => udpMu = Nobody

CalmInv == pings \in Nat /\ NoPingYet /\ NoUdpYet

(* The client's read deadline is the only source of pings.                  *)
LEMMA CalmStep == LinkTypes /\ CalmInv /\ [LinkNext]_linkVars => CalmInv'
<1> SUFFICES ASSUME LinkTypes, CalmInv, [LinkNext]_linkVars PROVE CalmInv'
  OBVIOUS
<1> USE DEF CalmInv, NoPingYet, NoUdpYet, procVars, readVars, histVars
<1>1. ASSUME NEW w \in Writers, NEW f \in Writes(w), Begin(w, f) PROVE CalmInv'
  <2>1. w \in Procs /\ f # "ping" /\ w # SrvReader
    BY DEF Procs, Writers, Writes, SrvReader
  <2>2. /\ at' = [at EXCEPT ![w] = "header"] /\ job' = [job EXCEPT ![w] = f]
        /\ UNCHANGED <<stream, frame, pings>>
        /\ udpMu' = udpMu \/ w = "srvUdp"
        /\ udpUsed' = (udpUsed \/ w = "srvUdp")
    BY <1>1 DEF Begin, Want
  <2>3. pings' \in Nat /\ NoPingYet'
    BY <2>1, <2>2 DEF LinkTypes
  <2>4. NoUdpYet'
    BY <2>2
  <2> QED
    BY <2>3, <2>4
<1>2. ASSUME NEW w \in Procs, WriteNext(w) PROVE CalmInv'
  <2>1. /\ \A x \in Procs : job'[x] = job[x] \/ job'[x] = "none"
        /\ at'[SrvReader] = at[SrvReader] \/ (w = SrvReader /\ at[w] # "idle")
        /\ UNCHANGED <<frame, pings, udpUsed>>
        /\ udpMu' = udpMu \/ udpMu' = Nobody
    <3>1. SrvReader \in Procs
      BY DEF Procs, Readers
    <3> QED
      BY <1>2, <3>1
      DEF WriteNext, WriteHeader, WritePayload, WriteFails, Put, LeaveWrite, LinkTypes
  <2>2. ASSUME pings = 0, NEW s \in Sides, NEW i \in 1 .. Len(stream'[s])
        PROVE  stream'[s][i].t # "ping"
    <3>1. CASE stream'[s] = stream[s]
      BY <2>2, <3>1
    <3>2. ASSUME NEW p \in {"header", "payload"}, Put(w, p)
          PROVE  stream'[s][i].t # "ping"
      <4> DEFINE e == [t |-> job[w], part |-> p]
      <4>1. e \in Parts /\ e.t # "ping" /\ stream[s] \in Seq(Parts)
        BY <2>2, <3>2 DEF Put, LinkTypes, Parts
      <4>2. stream'[s] = stream[s] \/ stream'[s] = Append(stream[s], e)
        BY <3>2 DEF Put, LinkTypes
      <4> HIDE DEF e, Parts
      <4>3. ASSUME stream'[s] = Append(stream[s], e)
            PROVE  stream'[s][i] = e \/ (i \in 1 .. Len(stream[s]) /\ stream'[s][i] = stream[s][i])
        BY <4>1, <4>3
      <4> QED
        BY <2>2, <3>1, <4>1, <4>2, <4>3
    <3> QED
      BY <1>2, <3>1, <3>2 DEF WriteNext, WriteHeader, WritePayload, WriteFails
  <2>3. pings' \in Nat /\ NoPingYet'
    BY <2>1, <2>2
  <2>4. NoUdpYet'
    BY <2>1
  <2> QED
    BY <2>3, <2>4
<1>3. ASSUME NEW x \in Readers, Reads(x, "header") \/ Reads(x, "payload"),
             stream' = [stream EXCEPT ![PeerOf(x)] = Tail(@)]
      PROVE  pings = 0 =>
               /\ Head(stream[PeerOf(x)]).t # "ping"
               /\ \A s \in Sides : \A i \in 1 .. Len(stream'[s]) : stream'[s][i].t # "ping"
  <2> SUFFICES ASSUME pings = 0, NEW s \in Sides
               PROVE  /\ s = PeerOf(x) => Head(stream[s]).t # "ping"
                      /\ \A i \in 1 .. Len(stream'[s]) : stream'[s][i].t # "ping"
    BY Ends
  <2>1. CASE s # PeerOf(x)
    BY <1>3, <2>1 DEF LinkTypes
  <2>2. CASE s = PeerOf(x)
    <3> DEFINE q == stream[s]
    <3>1. q \in Seq(Parts) /\ q # <<>> /\ stream'[s] = Tail(q)
      BY <1>3, <2>2 DEF LinkTypes, Reads
    <3>2. \A i \in 1 .. Len(q) : q[i].t # "ping"
      OBVIOUS
    <3> HIDE DEF q, Parts
    <3>3. Head(q) = q[1] /\ 1 \in 1 .. Len(q)
      BY <3>1
    <3>4. \A i \in 1 .. Len(Tail(q)) : Tail(q)[i] = q[i + 1] /\ i + 1 \in 1 .. Len(q)
      BY <3>1
    <3> QED
      BY <3>1, <3>2, <3>3, <3>4 DEF q
  <2> QED
    BY <2>1, <2>2
<1>4. ASSUME NEW x \in Readers, NEW f, Handle(x, f), at[x] = "idle", pings = 0 => f # "ping"
      PROVE  pings = 0 => /\ at'[SrvReader] = "idle"
                          /\ \A w \in Procs : job'[w] # "ping"
                          /\ \A r \in Readers : frame'[r] # "ping"
  <2> SUFFICES ASSUME pings = 0 PROVE /\ at'[SrvReader] = "idle"
                                      /\ \A w \in Procs : job'[w] # "ping"
                                      /\ \A r \in Readers : frame'[r] # "ping"
    OBVIOUS
  <2>1. \A r \in Readers : frame'[r] # "ping"
    BY <1>4 DEF Handle, LinkTypes
  <2>2. CASE Answers(x, f) = {}
    BY <1>4, <2>1, <2>2 DEF Handle
  <2>3. CASE Answers(x, f) # {}
    <3>1. PICK a \in Answers(x, f) : Want(x, a)
      BY <1>4, <2>3 DEF Handle
    <3>2. x = CliReader /\ x # SrvReader /\ a # "ping"
      BY <1>4, <3>1 DEF Answers, SrvReader, CliReader
    <3> QED
      BY <2>1, <3>1, <3>2 DEF Want, LinkTypes, Procs, Readers
  <2> QED
    BY <2>2, <2>3
<1>5. ASSUME NEW x \in Readers, ReadHeader(x) PROVE CalmInv'
  <2> DEFINE f == Head(stream[PeerOf(x)]).t
  <2>1. /\ Reads(x, "header") /\ stream' = [stream EXCEPT ![PeerOf(x)] = Tail(@)]
        /\ UNCHANGED <<pings, udpUsed, udpMu>> /\ at[x] = "idle"
    BY <1>5 DEF ReadHeader, Reads
  <2>2. CASE HasPayload(f)
    <3>1. frame' = [frame EXCEPT ![x] = f] /\ UNCHANGED <<at, job>>
      BY <1>5, <2>2 DEF ReadHeader
    <3> QED
      BY <1>3, <2>1, <3>1 DEF LinkTypes
  <2>3. CASE ~HasPayload(f)
    <3>1. Handle(x, f)
      BY <1>5, <2>3 DEF ReadHeader
    <3>2. pings = 0 => f # "ping"
      BY <1>3, <2>1
    <3> HIDE DEF f
    <3> QED
      BY <1>3, <1>4, <2>1, <3>1, <3>2
  <2> QED
    BY <2>2, <2>3
<1>6. ASSUME NEW x \in Readers, ReadPayload(x) PROVE CalmInv'
  <2>1. /\ Reads(x, "payload") /\ stream' = [stream EXCEPT ![PeerOf(x)] = Tail(@)]
        /\ UNCHANGED <<pings, udpUsed, udpMu>> /\ at[x] = "idle" /\ Handle(x, frame[x])
    BY <1>6 DEF ReadPayload, Reads
  <2> QED
    BY <1>3, <1>4, <2>1
<1>7. ASSUME NEW x \in Readers, ReadGarbage(x) PROVE CalmInv'
  <2>1. /\ Reads(x, "header") /\ stream' = [stream EXCEPT ![PeerOf(x)] = Tail(@)]
        /\ UNCHANGED <<pings, udpUsed, udpMu, at, job, frame>>
    BY <1>7 DEF ReadGarbage
  <2> QED
    BY <1>3, <2>1
<1>8. ASSUME NEW x \in Readers, LoopEnds(x) PROVE CalmInv'
  BY <1>8 DEF LoopEnds, LinkTypes
<1>9. CASE ReadTimeout
  BY <1>9 DEF ReadTimeout
<1>10. CASE LookUp \/ LinkDrops \/ Refused \/ UNCHANGED linkVars
  BY <1>10 DEF LookUp, LinkDrops, Refused, linkVars
<1> QED
  BY <1>1, <1>2, <1>5, <1>6, <1>7, <1>8, <1>9, <1>10 DEF LinkNext, ReadNext

(* TCP channels alone never make the two read loops wait for each other: it *)
(* takes a heartbeat or a UDP session.                                      *)
THEOREM TcpNeverWedgesHolds == LinkSpec => []TcpNeverWedges
<1>1. LinkInit => CalmInv
  BY Ends DEF LinkInit, CalmInv, NoPingYet, NoUdpYet, Procs, Readers, SrvReader
<1>2. LinkInv /\ CalmInv /\ [LinkNext]_linkVars => CalmInv'
  BY CalmStep DEF LinkInv
<1>3. CalmInv => TcpNeverWedges
  BY DEF CalmInv, NoPingYet, NoUdpYet, TcpNeverWedges, Wedged, Stuck
<1> QED
  BY <1>1, <1>2, <1>3, LinkInvHolds, PTL DEF LinkSpec
=============================================================================
