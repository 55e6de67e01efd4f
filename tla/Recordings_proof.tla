------------------------- MODULE Recordings_proof -------------------------
(***************************************************************************)
(* Recordings on their way in and out.  What holds of the audio streams    *)
(* for every number of listeners, users and calls, every length of a call  *)
(* and of the backlog, and every prime; and of the folder monitors for     *)
(* every set of files and number of callbacks.                             *)
(***************************************************************************)
EXTENDS Stream, DirMonitor, FiniteSetTheorems, SequenceTheorems, TLAPS

Item == Frame \union {Silence}

Lacks(s, c) == \A i \in 1..Len(s) : s[i].call # c

-----------------------------------------------------------------------------
(* Sequences of frames.                                                    *)

LEMMA FrameFacts ==
  /\ \A f \in Frame : f.call \in Calls /\ f.n \in 1..FramesOf /\ f # Silence
  /\ Silence.call \notin Calls /\ Silence.n = 0
  /\ \A f \in Item : f.n \in 0..FramesOf /\ (f # Silence => f \in Frame)
BY SilenceAssumption, StreamAssumption DEF StreamAssumption, Frame, Silence, Item

\* Writing the head of the backlog leaves what is sent, all told, as it is.
LEMMA HeadMoves ==
  ASSUME NEW p \in Seq(Item), NEW q \in Seq(Item), q # <<>>
  PROVE  Append(p, Head(q)) \o Tail(q) = p \o q
<1>1. Head(q) \in Item /\ Tail(q) \in Seq(Item) /\ <<Head(q)>> \in Seq(Item)
  BY HeadTailProperties
<1>2. Append(p, Head(q)) = p \o <<Head(q)>>
  BY <1>1, AppendIsConcat
<1>3. (p \o <<Head(q)>>) \o Tail(q) = p \o (<<Head(q)>> \o Tail(q))
  BY <1>1, ConcatAssociative
<1>4. <<Head(q)>> \o Tail(q) = q
  BY <1>1, HeadTailProperties
<1> QED BY <1>2, <1>3, <1>4

\* What has no holes after some frame has none after the next.
LEMMA OneStretchOn ==
  ASSUME NEW w \in Seq(Item), NEW n \in Nat, OneStretch(w, n)
  PROVE  OneStretch(w, n + 1)
<1>1. Len(w) \in Nat
  BY LenProperties
<1> SUFFICES ASSUME NEW i \in 1..Len(w), NEW j \in 1..Len(w), i < j, w[i].call = w[j].call, w[i] # Silence
             PROVE  /\ w[i].n < w[j].n
                    /\ \A k \in i..j : w[k].call = w[i].call
                    /\ i > n + 1 => w[j].n = w[i].n + (j - i)
  BY DEF OneStretch
<1>2. i > n + 1 => i > n
  BY <1>1
<1> QED BY <1>2 DEF OneStretch

\* Filler at the end of what was sent disturbs no call.
LEMMA SilenceAppended ==
  ASSUME NEW p \in Seq(Item), OneStretch(p, Len(p))
  PROVE  OneStretch(Append(p, Silence), Len(p) + 1)
<1>1. /\ Len(Append(p, Silence)) = Len(p) + 1 /\ Append(p, Silence)[Len(p) + 1] = Silence
      /\ \A i \in 1..Len(p) : Append(p, Silence)[i] = p[i]
      /\ Len(p) \in Nat
  BY AppendProperties, LenProperties DEF Item
<1> DEFINE w == Append(p, Silence)
<1> HIDE DEF w
<1> SUFFICES ASSUME NEW i \in 1..Len(p) + 1, NEW j \in 1..Len(p) + 1,
                    i < j, w[i].call = w[j].call, w[i] # Silence
             PROVE  w[i].n < w[j].n /\ (\A k \in i..j : w[k].call = w[i].call) /\ ~(i > Len(p) + 1)
  BY <1>1 DEF OneStretch, w
<1>2. i \in 1..Len(p) /\ p[i] \in Item
  BY <1>1, ElementOfSeq
<1>3. j # Len(p) + 1
  BY <1>1, <1>2, FrameFacts DEF w
<1>4. j \in 1..Len(p) /\ \A k \in i..j : k \in 1..Len(p)
  BY <1>1, <1>2, <1>3
<1>5. \A k \in i..j : w[k] = p[k]
  BY <1>1, <1>4 DEF w
<1>6. p[i].n < p[j].n /\ \A k \in i..j : p[k].call = p[i].call
  BY <1>1, <1>2, <1>4 DEF OneStretch, w
<1> QED BY <1>1, <1>2, <1>4, <1>5, <1>6

\* Frames that are dropped leave the calls around them in order.
LEMMA FramesDropped ==
  ASSUME NEW v \in Seq(Item), NEW n \in Nat, NEW d \in Nat, n + d <= Len(v), OneStretch(v, n),
         NEW w \in Seq(Item), Len(w) = Len(v) - d,
         \A i \in 1..Len(w) : w[i] = IF i <= n THEN v[i] ELSE v[i + d]
  PROVE  OneStretch(w, n)
<1>1. Len(v) \in Nat
  BY LenProperties
<1> SUFFICES ASSUME NEW i \in 1..Len(w), NEW j \in 1..Len(w),
                    i < j, w[i].call = w[j].call, w[i] # Silence
             PROVE  /\ w[i].n < w[j].n
                    /\ \A k \in i..j : w[k].call = w[i].call
                    /\ i > n => w[j].n = w[i].n + (j - i)
  BY DEF OneStretch
<1> DEFINE at(k) == IF k <= n THEN k ELSE k + d
<1>2. \A k \in 1..Len(w) : at(k) \in 1..Len(v) /\ w[k] = v[at(k)]
  BY <1>1
<1>3. at(i) < at(j) /\ \A k \in i..j : k \in 1..Len(w) /\ at(k) \in at(i)..at(j)
  BY <1>1
<1>4. i > n => at(i) > n /\ at(j) - at(i) = j - i
  BY <1>1
<1> HIDE DEF at
<1>5. /\ v[at(i)].n < v[at(j)].n
      /\ \A k \in at(i)..at(j) : v[k].call = v[at(i)].call
      /\ at(i) > n => v[at(j)].n = v[at(i)].n + (at(j) - at(i))
  <2>1. at(i) \in 1..Len(v) /\ at(j) \in 1..Len(v) /\ v[at(i)] = w[i] /\ v[at(j)] = w[j]
    BY <1>2
  <2> QED BY <1>3, <2>1 DEF OneStretch
<1> QED BY <1>2, <1>3, <1>4, <1>5

LEMMA FramesOfCall ==
  ASSUME NEW c \in Calls
  PROVE  /\ CallFrames(c) \in Seq(Frame) /\ CallFrames(c) \in Seq(Item) /\ Len(CallFrames(c)) = FramesOf
         /\ \A n \in 1..FramesOf : CallFrames(c)[n].call = c /\ CallFrames(c)[n].n = n
<1>1. FramesOf \in Nat
  BY StreamAssumption DEF StreamAssumption
<1>2. CallFrames(c) \in [1..FramesOf -> Frame] /\ Frame \subseteq Item
  BY DEF CallFrames, Frame, Item
<1>3. CallFrames(c) \in Seq(Frame) /\ CallFrames(c) \in Seq(Item)
  BY <1>1, <1>2, SeqDef
<1> QED BY <1>1, <1>2, <1>3, LenProperties DEF CallFrames

\* Two sequences, one after the other.
LEMMA BothLack ==
  ASSUME NEW p \in Seq(Item), NEW q \in Seq(Item), NEW c
  PROVE  Lacks(p \o q, c) <=> Lacks(p, c) /\ Lacks(q, c)
<1>1. /\ Len(p \o q) = Len(p) + Len(q) /\ Len(p) \in Nat /\ Len(q) \in Nat
      /\ \A i \in 1..Len(p) + Len(q) : (p \o q)[i] = IF i <= Len(p) THEN p[i] ELSE q[i - Len(p)]
  BY ConcatProperties, LenProperties
<1>2. ASSUME Lacks(p \o q, c) PROVE Lacks(p, c)
  BY <1>1, <1>2 DEF Lacks
<1>3. ASSUME Lacks(p \o q, c) PROVE Lacks(q, c)
  <2> SUFFICES ASSUME NEW i \in 1..Len(q) PROVE q[i].call # c
    BY DEF Lacks
  <2>1. i + Len(p) \in 1..Len(p) + Len(q) /\ (p \o q)[i + Len(p)] = q[i]
    BY <1>1
  <2> QED BY <1>1, <1>3, <2>1 DEF Lacks
<1>4. ASSUME Lacks(p, c), Lacks(q, c) PROVE Lacks(p \o q, c)
  <2> SUFFICES ASSUME NEW i \in 1..Len(p) + Len(q) PROVE (p \o q)[i].call # c
    BY <1>1 DEF Lacks
  <2>1. CASE i <= Len(p)
    BY <1>1, <1>4, <2>1 DEF Lacks
  <2>2. CASE i > Len(p)
    BY <1>1, <1>4, <2>2 DEF Lacks
  <2> QED BY <1>1, <2>1, <2>2
<1> QED BY <1>2, <1>3, <1>4

\* A call comes after all there is.
LEMMA CallAppended ==
  ASSUME NEW w \in Seq(Item), NEW n \in Nat, OneStretch(w, n), NEW c \in Calls, Lacks(w, c)
  PROVE  OneStretch(w \o CallFrames(c), n)
<1> DEFINE s == CallFrames(c)
<1>1. /\ s \in Seq(Item) /\ Len(s) = FramesOf /\ FramesOf \in Nat
      /\ \A m \in 1..FramesOf : s[m].call = c /\ s[m].n = m
  BY FramesOfCall, StreamAssumption DEF StreamAssumption
<1> HIDE DEF s
<1> DEFINE v == w \o s
<1>2. /\ Len(v) = Len(w) + FramesOf /\ Len(w) \in Nat
      /\ \A i \in 1..Len(v) : v[i] = IF i <= Len(w) THEN w[i] ELSE s[i - Len(w)]
  <2>1. /\ Len(w \o s) = Len(w) + Len(s)
        /\ \A i \in 1 .. Len(w) + Len(s) : (w \o s)[i] = IF i <= Len(w) THEN w[i] ELSE s[i - Len(w)]
    BY <1>1, ConcatProperties
  <2> QED BY <1>1, <2>1, LenProperties
<1> HIDE DEF v
<1>3. \A i \in 1..Len(v) : IF i <= Len(w) THEN v[i] = w[i] /\ w[i].call # c
                           ELSE v[i].call = c /\ v[i].n = i - Len(w)
  BY <1>1, <1>2 DEF Lacks
<1> SUFFICES ASSUME NEW i \in 1..Len(v), NEW j \in 1..Len(v),
                    i < j, v[i].call = v[j].call, v[i] # Silence
             PROVE  /\ v[i].n < v[j].n
                    /\ \A k \in i..j : v[k].call = v[i].call
                    /\ i > n => v[j].n = v[i].n + (j - i)
  BY DEF OneStretch, v, s
<1>4. CASE j <= Len(w)
  <2>1. i \in 1..Len(w) /\ j \in 1..Len(w) /\ \A k \in i..j : k \in 1..Len(v) /\ v[k] = w[k]
    BY <1>2, <1>3, <1>4
  <2>2. v[i] = w[i] /\ v[j] = w[j]
    BY <1>2, <2>1
  <2> QED BY <2>1, <2>2 DEF OneStretch
<1>5. CASE j > Len(w)
  <2>1. i > Len(w)
    BY <1>2, <1>3, <1>5
  <2> QED BY <1>2, <1>3, <1>5, <2>1
<1> QED BY <1>2, <1>4, <1>5

\* The backlog after a call is queued: within its cap, and the newest of it.
LEMMA BacklogIsTrimmed ==
  ASSUME NEW q \in Seq(Frame)
  PROVE  \E d \in Nat : /\ Trim(q) \in Seq(Frame) /\ Len(Trim(q)) = Len(q) - d /\ d <= Len(q)
                        /\ Len(Trim(q)) <= MaxFrames
                        /\ \A i \in 1..Len(Trim(q)) : Trim(q)[i] = q[i + d]
<1>1. MaxFrames \in Nat \ {0} /\ Len(q) \in Nat /\ \A i \in 1..Len(q) : q[i] \in Frame
  BY LenProperties, ElementOfSeq, StreamAssumption DEF StreamAssumption
<1> DEFINE d == IF Len(q) > MaxFrames THEN Len(q) - MaxFrames ELSE 0
<1>2. Trim(q) = SubSeq(q, d + 1, Len(q)) /\ d \in Nat /\ d <= Len(q) /\ Len(q) - d <= MaxFrames
  BY <1>1 DEF Trim
<1> HIDE DEF d
<1>3. \A i \in d + 1 .. Len(q) : q[i] \in Frame
  BY <1>1, <1>2
<1>4. /\ SubSeq(q, d + 1, Len(q)) \in Seq(Frame)
      /\ Len(SubSeq(q, d + 1, Len(q))) = IF d + 1 <= Len(q) THEN Len(q) - (d + 1) + 1 ELSE 0
      /\ \A i \in 1 .. Len(q) - (d + 1) + 1 : SubSeq(q, d + 1, Len(q))[i] = q[(d + 1) + i - 1]
  BY <1>1, <1>2, <1>3, SubSeqProperties
<1>5. Len(Trim(q)) = Len(q) - d
  BY <1>1, <1>2, <1>4
<1>6. \A i \in 1..Len(Trim(q)) : Trim(q)[i] = q[i + d]
  <2> TAKE i \in 1..Len(Trim(q))
  <2>1. i \in 1 .. Len(q) - (d + 1) + 1 /\ (d + 1) + i - 1 = i + d
    BY <1>1, <1>2, <1>5
  <2> QED BY <1>2, <1>4, <2>1
<1> QED BY <1>2, <1>4, <1>5, <1>6

LEMMA CallQueued ==
  ASSUME NEW p \in Seq(Item), NEW q \in Seq(Frame), NEW c \in Calls,
         OneStretch(p \o q, Len(p)), Lacks(p \o q, c)
  PROVE  /\ Trim(q \o CallFrames(c)) \in Seq(Frame) /\ Len(Trim(q \o CallFrames(c))) <= MaxFrames
         /\ OneStretch(p \o Trim(q \o CallFrames(c)), Len(p))
         /\ \A x : x # c /\ Lacks(q, x) => Lacks(Trim(q \o CallFrames(c)), x)
<1> DEFINE s == CallFrames(c)
<1> DEFINE b == q \o s
<1>0. Frame \subseteq Item
  BY DEF Item
<1>1. /\ s \in Seq(Frame) /\ s \in Seq(Item) /\ Len(s) \in Nat /\ \A i \in 1..Len(s) : s[i].call = c
      /\ q \in Seq(Item) /\ Len(p) \in Nat /\ Len(q) \in Nat
  BY <1>0, FramesOfCall, SeqMonotonic, LenProperties
<1>2. OneStretch((p \o q) \o s, Len(p))
  BY <1>1, ConcatProperties, CallAppended
<1> HIDE DEF s
<1>3. /\ b \in Seq(Frame) /\ Len(b) = Len(q) + Len(s)
      /\ \A i \in 1..Len(b) : b[i] = IF i <= Len(q) THEN q[i] ELSE s[i - Len(q)]
  BY <1>1, ConcatProperties
<1>4. (p \o q) \o s = p \o b
  BY <1>1, ConcatAssociative
<1> HIDE DEF b
<1>5. b \in Seq(Item) /\ Len(b) \in Nat
  BY <1>0, <1>3, SeqMonotonic, LenProperties
<1>6. PICK d \in Nat : /\ Trim(b) \in Seq(Frame) /\ Len(Trim(b)) = Len(b) - d /\ d <= Len(b)
                       /\ Len(Trim(b)) <= MaxFrames
                       /\ \A i \in 1..Len(Trim(b)) : Trim(b)[i] = b[i + d]
  BY <1>3, BacklogIsTrimmed
<1>7. Trim(b) \in Seq(Item)
  BY <1>0, <1>6, SeqMonotonic
<1>8. OneStretch(p \o Trim(b), Len(p))
  <2> DEFINE v == p \o b
  <2> DEFINE w == p \o Trim(b)
  <2>1. /\ v \in Seq(Item) /\ Len(v) = Len(p) + Len(b)
        /\ \A i \in 1..Len(v) : v[i] = IF i <= Len(p) THEN p[i] ELSE b[i - Len(p)]
    BY <1>1, <1>5, ConcatProperties
  <2>2. /\ w \in Seq(Item) /\ Len(w) = Len(p) + Len(Trim(b))
        /\ \A i \in 1..Len(w) : w[i] = IF i <= Len(p) THEN p[i] ELSE Trim(b)[i - Len(p)]
    BY <1>1, <1>7, ConcatProperties
  <2>3. OneStretch(v, Len(p))
    BY <1>2, <1>4
  <2> HIDE DEF v, w
  <2>4. Len(w) = Len(v) - d /\ Len(p) + d <= Len(v)
    BY <1>1, <1>5, <1>6, <2>1, <2>2
  <2>5. \A i \in 1..Len(w) : w[i] = IF i <= Len(p) THEN v[i] ELSE v[i + d]
    <3> TAKE i \in 1..Len(w)
    <3>1. CASE i <= Len(p)
      BY <1>1, <1>5, <2>1, <2>2, <2>4, <3>1
    <3>2. CASE i > Len(p)
      <4>1. i - Len(p) \in 1..Len(Trim(b)) /\ (i - Len(p)) + d = (i + d) - Len(p)
            /\ i + d \in 1..Len(v) /\ ~(i + d <= Len(p))
        BY <1>1, <1>5, <1>6, <2>1, <2>2, <3>2
      <4>2. w[i] = Trim(b)[i - Len(p)]
        BY <1>1, <2>2, <3>2
      <4>3. Trim(b)[i - Len(p)] = b[(i - Len(p)) + d]
        BY <1>6, <4>1
      <4> QED BY <1>1, <2>1, <3>2, <4>1, <4>2, <4>3
    <3> QED BY <1>1, <2>2, <3>1, <3>2
  <2>6. OneStretch(w, Len(p))
    BY <1>1, <2>1, <2>2, <2>3, <2>4, <2>5, FramesDropped
  <2> QED BY <2>6 DEF w
<1>9. ASSUME NEW x, x # c, Lacks(q, x) PROVE Lacks(Trim(b), x)
  <2> SUFFICES ASSUME NEW i \in 1..Len(Trim(b)) PROVE Trim(b)[i].call # x
    BY DEF Lacks
  <2>1. i + d \in 1..Len(b) /\ Trim(b)[i] = b[i + d]
    BY <1>5, <1>6
  <2> QED BY <1>1, <1>3, <1>9, <2>1 DEF Lacks
<1> QED BY <1>6, <1>8, <1>9 DEF b, s

\* The burst has no cues, and each frame after it that begins a call has one.
LEMMA CuesGrow ==
  ASSUME NEW s \in Seq(Item), NEW f \in Item
  PROVE  CuesOf(Append(s, f)) =
           IF Len(s) >= Prime /\ f.n = 1 THEN CuesOf(s) \union {<<f.call, Len(s)>>} ELSE CuesOf(s)
<1> DEFINE t == Append(s, f)
<1>1. /\ Len(t) = Len(s) + 1 /\ Len(s) \in Nat /\ Prime \in Nat
      /\ t[Len(s) + 1] = f /\ \A i \in 1..Len(s) : t[i] = s[i]
  BY AppendProperties, LenProperties, StreamAssumption DEF StreamAssumption
<1> HIDE DEF t
<1> DEFINE I(r) == {j \in Prime + 1 .. Len(r) : r[j].n = 1}
<1>2. I(t) = IF Len(s) >= Prime /\ f.n = 1 THEN I(s) \union {Len(s) + 1} ELSE I(s)
  BY <1>1
<1>3. \A i \in I(s) : t[i] = s[i]
  BY <1>1
<1>4. CuesOf(t) = {<<t[i].call, i - 1>> : i \in I(t)} /\ CuesOf(s) = {<<s[i].call, i - 1>> : i \in I(s)}
  BY DEF CuesOf
<1>5. (Len(s) + 1) - 1 = Len(s)
  BY <1>1
<1> HIDE DEF I
<1>6. CASE Len(s) >= Prime /\ f.n = 1
  <2>1. I(t) = I(s) \union {Len(s) + 1}
    BY <1>2, <1>6
  <2>2. ASSUME NEW x \in CuesOf(t) PROVE x \in CuesOf(s) \union {<<f.call, Len(s)>>}
    <3>1. PICK i \in I(t) : x = <<t[i].call, i - 1>>
      BY <1>4
    <3>2. CASE i \in I(s)
      BY <1>3, <1>4, <3>1, <3>2
    <3>3. CASE i = Len(s) + 1
      BY <1>1, <1>5, <3>1, <3>3
    <3> QED BY <2>1, <3>2, <3>3
  <2>3. ASSUME NEW x \in CuesOf(s) PROVE x \in CuesOf(t)
    BY <1>3, <1>4, <2>1
  <2>4. <<f.call, Len(s)>> \in CuesOf(t)
    BY <1>1, <1>4, <1>5, <2>1
  <2> QED BY <1>6, <2>2, <2>3, <2>4 DEF t
<1>7. CASE ~(Len(s) >= Prime /\ f.n = 1)
  <2>1. I(t) = I(s)
    BY <1>2, <1>7
  <2>2. CuesOf(t) = CuesOf(s)
    BY <1>3, <1>4, <2>1
  <2> QED BY <1>7, <2>2 DEF t
<1> QED BY <1>6, <1>7

-----------------------------------------------------------------------------
(* The invariant.                                                          *)

\* All a listener was sent or will be.
Sent(l) == written[l] \o queue[l]

Agreed(l) == /\ l \in managed <=> phase[l] \in {"joining", "priming", "pacing"}
             /\ l \in registry <=> phase[l] \in {"priming", "pacing", "leaving"}

\* How far a stream is with its burst.
Primed(l) == /\ phase[l] \in {"new", "allowed", "joining"} => written[l] = <<>>
             /\ phase[l] = "priming" => Len(written[l]) < Prime
             /\ phase[l] = "pacing" => Len(written[l]) >= Prime

\* No listener was sent a call that is not encoded yet, one it will still be
\* sent, or one its user has not wanted.
Awaited(c, l) == \/ notify[c].pc \in {"new", "resolving", "filtering", "encoding"}
                 \/ l \in notify[c].wanted
                 \/ UserOf[l] \in unheard[c]

AwaitedAreUnheard == \A c \in Calls, l \in Listeners : Awaited(c, l) => Lacks(Sent(l), c)

\* Who did not want a call does not want it now either, and is not among
\* those it will be sent to.
Unwanted(c) == /\ \A u \in unheard[c] : ~Wants(u)
               /\ \A l \in notify[c].wanted : UserOf[l] \notin unheard[c]

IInv ==
  /\ TypeOK
  /\ \A l \in Listeners : Agreed(l) /\ Primed(l) /\ cues[l] = CuesOf(written[l])
  /\ CallsArePlayedInOneStretch
  /\ AwaitedAreUnheard
  /\ \A c \in Calls : Unwanted(c)

USE DEF streams, audio, rows

LEMMA SentIs ==
  ASSUME TypeOK, NEW l \in Listeners
  PROVE  /\ written[l] \in Seq(Item) /\ queue[l] \in Seq(Frame) /\ queue[l] \in Seq(Item)
         /\ Sent(l) \in Seq(Item) /\ Len(written[l]) \in Nat /\ UserOf[l] \in Users
<1>1. written[l] \in Seq(Item) /\ queue[l] \in Seq(Frame) /\ Frame \subseteq Item
  BY DEF TypeOK, Item
<1>2. queue[l] \in Seq(Item)
  BY <1>1, SeqMonotonic
<1> QED BY <1>1, <1>2, ConcatProperties, LenProperties, StreamAssumption DEF StreamAssumption, Sent

LEMMA InitInv == Init => IInv
<1> SUFFICES ASSUME Init PROVE IInv
  OBVIOUS
<1>1. Prime \in Nat /\ MaxFrames \in Nat /\ MaxWritten \in Nat /\ MaxRetunes \in Nat
  BY StreamAssumption DEF StreamAssumption
<1>2. TypeOK
  <2>1. <<>> \in Seq(Frame) /\ <<>> \in Seq(Frame \union {Silence}) /\ Len(<<>>) = 0
    BY EmptySeq
  <2> QED BY <1>1, <2>1 DEF Init, TypeOK, Phases, Steps
<1>3. \A l \in Listeners : Sent(l) = <<>> /\ written[l] = <<>>
  BY DEF Init, Sent
<1>4. \A l \in Listeners : Agreed(l) /\ Primed(l)
  BY DEF Init, Agreed, Primed
<1>5. \A l \in Listeners : cues[l] = CuesOf(written[l])
  BY <1>1 DEF Init, CuesOf
<1>6. CallsArePlayedInOneStretch
  <2>1. \A l \in Listeners : Len(Sent(l)) = 0
    BY <1>3
  <2>2. \A s : Len(s) = 0 => \A n : OneStretch(s, n)
    BY DEF OneStretch
  <2> QED BY <2>1, <2>2 DEF CallsArePlayedInOneStretch, Sent
<1>7. AwaitedAreUnheard
  BY <1>3 DEF AwaitedAreUnheard, Lacks
<1>8. \A c \in Calls : Unwanted(c)
  BY DEF Init, Unwanted
<1> QED BY <1>2, <1>4, <1>5, <1>6, <1>7, <1>8 DEF IInv

-----------------------------------------------------------------------------
(* Streams come and go.                                                    *)

\* A step of a stream that writes nothing.
LEMMA NothingWritten ==
  ASSUME IInv, UNCHANGED <<ready, rows, audio, notify, unheard>>, TypeOK',
         \A l \in Listeners : Agreed(l)' /\ Primed(l)'
  PROVE  IInv'
BY DEF IInv, CallsArePlayedInOneStretch, AwaitedAreUnheard, Awaited, Sent, Unwanted, Wants

LEMMA StreamSteps ==
  ASSUME IInv, NEW l \in Listeners,
         \/ Open(l) \/ Join(l) \/ Enter(l) \/ Done(l) \/ HangUp(l) \/ Leave(l) \/ Stall(l) \/ Resume(l)
  PROVE  IInv'
<1>0. /\ TypeOK /\ UNCHANGED <<ready, rows, audio, notify, unheard>>
      /\ \A k \in Listeners : Agreed(k) /\ Primed(k)
  BY DEF IInv, Open, Join, Enter, Done, HangUp, Leave, Stall, Resume
<1>1. CASE Open(l)
  <2>1. TypeOK' /\ \A k \in Listeners : Agreed(k)' /\ Primed(k)'
    BY <1>0, <1>1 DEF Open, GoOn, TypeOK, Phases, Agreed, Primed
  <2> QED BY <1>0, <2>1, NothingWritten
<1>2. CASE Join(l)
  <2>1. TypeOK' /\ \A k \in Listeners : Agreed(k)' /\ Primed(k)'
    BY <1>0, <1>2 DEF Join, GoOn, TypeOK, Phases, Agreed, Primed
  <2> QED BY <1>0, <2>1, NothingWritten
<1>3. CASE Enter(l)
  <2>1. TypeOK'
    BY <1>0, <1>3 DEF Enter, GoOn, TypeOK, Phases
  <2>2. \A k \in Listeners : Agreed(k)'
    BY <1>0, <1>3 DEF Enter, GoOn, TypeOK, Agreed
  <2>3. \A k \in Listeners : Primed(k)'
    <3>1. Len(written[l]) = 0 /\ Prime \in Nat
      BY <1>0, <1>3, StreamAssumption DEF Enter, Primed, StreamAssumption
    <3> QED BY <1>0, <1>3, <3>1 DEF Enter, GoOn, TypeOK, Primed
  <2> QED BY <1>0, <2>1, <2>2, <2>3, NothingWritten
<1>4. CASE Done(l)
  <2>1. TypeOK' /\ \A k \in Listeners : Agreed(k)' /\ Primed(k)'
    BY <1>0, <1>4 DEF Done, GoOn, TypeOK, Phases, Agreed, Primed
  <2> QED BY <1>0, <2>1, NothingWritten
<1>5. CASE HangUp(l)
  <2>1. TypeOK' /\ \A k \in Listeners : Agreed(k)' /\ Primed(k)'
    BY <1>0, <1>5 DEF HangUp, GoOn, TypeOK, Phases, Agreed, Primed
  <2> QED BY <1>0, <2>1, NothingWritten
<1>6. CASE Leave(l)
  <2>1. TypeOK' /\ \A k \in Listeners : Agreed(k)' /\ Primed(k)'
    BY <1>0, <1>6 DEF Leave, GoOn, TypeOK, Phases, Agreed, Primed
  <2> QED BY <1>0, <2>1, NothingWritten
<1>7. CASE Stall(l) \/ Resume(l)
  <2>1. TypeOK' /\ \A k \in Listeners : Agreed(k)' /\ Primed(k)'
    BY <1>0, <1>7 DEF Stall, Resume, TypeOK, Agreed, Primed
  <2> QED BY <1>0, <2>1, NothingWritten
<1> QED BY <1>1, <1>2, <1>3, <1>4, <1>5, <1>6, <1>7

LEMMA DisconnectInv ==
  ASSUME IInv, NEW S, Disconnect(S)
  PROVE  IInv'
<1>1. /\ TypeOK /\ UNCHANGED <<ready, rows, audio, notify, unheard>>
      /\ \A k \in Listeners : Agreed(k) /\ Primed(k)
  BY DEF IInv, Disconnect
<1>2. TypeOK' /\ \A k \in Listeners : Agreed(k)' /\ Primed(k)'
  BY <1>1 DEF Disconnect, TypeOK, Agreed, Primed
<1> QED BY <1>1, <1>2, NothingWritten

-----------------------------------------------------------------------------
(* Frames are written.                                                     *)

\* A frame that is written is the head of the backlog, or filler: it changes
\* nothing in the order of the calls.
LEMMA FrameWritten ==
  ASSUME IInv, NEW l \in Listeners, WriteFrame(l)
  PROVE  /\ NextFrame(l) \in Item
         /\ written' = [written EXCEPT ![l] = Append(written[l], NextFrame(l))]
         /\ queue' \in [Listeners -> Seq(Frame)] /\ written' \in [Listeners -> Seq(Frame \union {Silence})]
         /\ Len(written'[l]) = Len(written[l]) + 1
         /\ \A k \in Listeners : /\ Len(queue'[k]) <= MaxFrames /\ Len(written'[k]) <= MaxWritten
                                 /\ k # l => queue'[k] = queue[k] /\ written'[k] = written[k]
         /\ OneStretch(written'[l] \o queue'[l], Len(written'[l]))
         /\ \A c \in Calls : Lacks(Sent(l), c) => Lacks(written'[l] \o queue'[l], c)
<1>1. /\ TypeOK /\ OneStretch(written[l] \o queue[l], Len(written[l]))
      /\ written[l] \in Seq(Item) /\ queue[l] \in Seq(Frame) /\ queue[l] \in Seq(Item) /\ Len(written[l]) \in Nat
  BY SentIs DEF IInv, CallsArePlayedInOneStretch
<1> DEFINE f == NextFrame(l)
<1>2. f \in Item
  BY <1>1, HeadTailProperties DEF NextFrame, Item
<1>3. /\ written' = [written EXCEPT ![l] = Append(written[l], f)]
      /\ queue' = [queue EXCEPT ![l] = IF queue[l] = <<>> THEN queue[l] ELSE Tail(queue[l])]
      /\ Len(written[l]) < MaxWritten
  BY DEF WriteFrame
<1>4. /\ Append(written[l], f) \in Seq(Item) /\ Len(Append(written[l], f)) = Len(written[l]) + 1
  BY <1>1, <1>2, AppendProperties
<1> HIDE DEF f
<1>5. /\ written'[l] = Append(written[l], f)
      /\ queue'[l] = IF queue[l] = <<>> THEN queue[l] ELSE Tail(queue[l])
      /\ \A k \in Listeners : k # l => queue'[k] = queue[k] /\ written'[k] = written[k]
  BY <1>1, <1>3 DEF TypeOK
<1>6. queue'[l] \in Seq(Frame) /\ Len(queue'[l]) <= MaxFrames
  <2>1. CASE queue[l] = <<>>
    BY <1>1, <1>5, <2>1 DEF TypeOK
  <2>2. CASE queue[l] # <<>>
    <3>1. Tail(queue[l]) \in Seq(Frame) /\ Len(Tail(queue[l])) = Len(queue[l]) - 1
          /\ Len(queue[l]) \in Nat /\ Len(queue[l]) <= MaxFrames /\ MaxFrames \in Nat
      BY <1>1, <2>2, HeadTailProperties, LenProperties, StreamAssumption DEF TypeOK, StreamAssumption
    <3> QED BY <1>5, <2>2, <3>1
  <2> QED BY <2>1, <2>2
<1>7. queue' \in [Listeners -> Seq(Frame)] /\ written' \in [Listeners -> Seq(Frame \union {Silence})]
  BY <1>1, <1>3, <1>4, <1>5, <1>6 DEF TypeOK, Item
<1>8. \A k \in Listeners : Len(queue'[k]) <= MaxFrames /\ Len(written'[k]) <= MaxWritten
  <2>1. Len(written'[l]) <= MaxWritten
    BY <1>1, <1>3, <1>4, <1>5, StreamAssumption DEF StreamAssumption
  <2> QED BY <1>1, <1>5, <1>6, <2>1 DEF TypeOK
<1>9. /\ OneStretch(written'[l] \o queue'[l], Len(written'[l]))
      /\ \A c \in Calls : Lacks(Sent(l), c) => Lacks(written'[l] \o queue'[l], c)
  <2>1. CASE queue[l] = <<>>
    <3>1. /\ f = Silence /\ queue'[l] = <<>>
          /\ written[l] \o queue[l] = written[l] /\ written'[l] \o queue'[l] = written'[l]
      BY <1>1, <1>4, <1>5, <2>1, ConcatEmptySeq DEF f, NextFrame
    <3>2. OneStretch(written'[l], Len(written'[l]))
      BY <1>1, <1>4, <1>5, <3>1, SilenceAppended
    <3>3. ASSUME NEW c \in Calls, Lacks(written[l], c) PROVE Lacks(written'[l], c)
      <4>1. \A i \in 1..Len(written[l]) : written'[l][i] = written[l][i]
        BY <1>1, <1>2, <1>5, AppendProperties
      <4>2. written'[l][Len(written[l]) + 1] = Silence
        BY <1>1, <1>2, <1>5, <3>1, AppendProperties
      <4> QED BY <1>1, <1>4, <1>5, <3>3, <4>1, <4>2, FrameFacts DEF Lacks
    <3> QED BY <3>1, <3>2, <3>3 DEF Sent
  <2>2. CASE queue[l] # <<>>
    <3>1. written'[l] \o queue'[l] = written[l] \o queue[l]
      BY <1>1, <1>5, <2>2, HeadMoves DEF f, NextFrame
    <3>2. OneStretch(written[l] \o queue[l], Len(written[l]) + 1)
      <4>1. written[l] \o queue[l] \in Seq(Item)
        BY <1>1, ConcatProperties
      <4> QED BY <1>1, <4>1, OneStretchOn
    <3> QED BY <1>4, <1>5, <3>1, <3>2 DEF Sent
  <2> QED BY <2>1, <2>2
<1> QED BY <1>2, <1>3, <1>4, <1>5, <1>7, <1>8, <1>9 DEF f

\* What follows of it for a stream that goes on to a phase that fits.
LEMMA WriteInv ==
  ASSUME IInv, NEW l \in Listeners, WriteFrame(l),
         UNCHANGED <<ready, rows, managed, registry, cancelled, stalled, notify, unheard>>,
         phase' \in [Listeners -> Phases], \A k \in Listeners : Agreed(k)' /\ Primed(k)',
         cues' \in [Listeners -> SUBSET (Calls \X (0..MaxWritten))],
         \A k \in Listeners : cues'[k] = CuesOf(written'[k])
  PROVE  IInv'
<1>1. TypeOK'
  BY FrameWritten DEF IInv, TypeOK
<1>2. CallsArePlayedInOneStretch'
  BY FrameWritten DEF IInv, CallsArePlayedInOneStretch
<1>3. AwaitedAreUnheard'
  BY FrameWritten DEF IInv, AwaitedAreUnheard, Awaited, Sent
<1> QED BY <1>1, <1>2, <1>3 DEF IInv, Unwanted, Wants

LEMMA WritePrimeInv ==
  ASSUME IInv, NEW l \in Listeners, WritePrime(l)
  PROVE  IInv'
<1>1. /\ WriteFrame(l) /\ phase[l] = "priming" /\ Len(written[l]) < Prime
      /\ UNCHANGED <<ready, rows, managed, registry, cancelled, stalled, cues, notify, unheard>>
      /\ phase' = [phase EXCEPT ![l] = IF Len(written'[l]) = Prime THEN "pacing" ELSE "priming"]
  BY DEF WritePrime, GoOn, IInv, Primed
<1>2. /\ TypeOK /\ Prime \in Nat /\ Len(written[l]) \in Nat /\ written[l] \in Seq(Item)
      /\ \A k \in Listeners : Agreed(k) /\ Primed(k) /\ cues[k] = CuesOf(written[k])
  BY SentIs, StreamAssumption DEF IInv, StreamAssumption
<1>3. /\ phase' \in [Listeners -> Phases]
      /\ phase'[l] = IF Len(written'[l]) = Prime THEN "pacing" ELSE "priming"
      /\ \A k \in Listeners : k # l => phase'[k] = phase[k]
  BY <1>1, <1>2 DEF TypeOK, Phases
<1>4. Len(written'[l]) = Len(written[l]) + 1 /\ \A k \in Listeners : k # l => written'[k] = written[k]
  BY <1>1, FrameWritten
<1>5. \A k \in Listeners : Agreed(k)'
  BY <1>1, <1>2, <1>3 DEF Agreed
<1>6. \A k \in Listeners : Primed(k)'
  BY <1>1, <1>2, <1>3, <1>4 DEF Primed
<1>7. \A k \in Listeners : cues'[k] = CuesOf(written'[k])
  <2>1. written'[l] = Append(written[l], NextFrame(l)) /\ NextFrame(l) \in Item
    BY <1>1, <1>2, FrameWritten DEF TypeOK
  <2>2. CuesOf(written'[l]) = CuesOf(written[l])
    BY <1>1, <1>2, <2>1, CuesGrow
  <2> QED BY <1>1, <1>2, <1>4, <2>2
<1>8. cues' \in [Listeners -> SUBSET (Calls \X (0..MaxWritten))]
  BY <1>1, <1>2 DEF TypeOK
<1> QED BY <1>1, <1>3, <1>5, <1>6, <1>7, <1>8, WriteInv

LEMMA TickInv ==
  ASSUME IInv, NEW l \in Listeners, Tick(l)
  PROVE  IInv'
<1>1. /\ WriteFrame(l) /\ phase[l] = "pacing" /\ Len(written[l]) >= Prime /\ Len(written[l]) < MaxWritten
      /\ UNCHANGED <<ready, rows, phase, managed, registry, cancelled, stalled, notify, unheard>>
      /\ cues' = IF NextFrame(l).n = 1
                   THEN [cues EXCEPT ![l] = @ \union {<<NextFrame(l).call, Len(written[l])>>}]
                   ELSE cues
  BY DEF Tick, WriteFrame, IInv, Primed
<1>2. /\ TypeOK /\ Prime \in Nat /\ Len(written[l]) \in Nat /\ written[l] \in Seq(Item) /\ MaxWritten \in Nat
      /\ \A k \in Listeners : Agreed(k) /\ Primed(k) /\ cues[k] = CuesOf(written[k])
  BY SentIs, StreamAssumption DEF IInv, StreamAssumption
<1>3. NextFrame(l) \in Item /\ Len(written'[l]) = Len(written[l]) + 1
      /\ \A k \in Listeners : k # l => written'[k] = written[k]
  BY <1>1, FrameWritten
<1>4. \A k \in Listeners : Agreed(k)'
  BY <1>1, <1>2 DEF Agreed
<1>5. \A k \in Listeners : Primed(k)'
  BY <1>1, <1>2, <1>3 DEF Primed
<1>6. cues' \in [Listeners -> SUBSET (Calls \X (0..MaxWritten))]
  <2>1. NextFrame(l).n = 1 => NextFrame(l).call \in Calls
    BY <1>3, FrameFacts
  <2>2. Len(written[l]) \in 0..MaxWritten
    BY <1>1, <1>2
  <2>3. NextFrame(l).n = 1 => {<<NextFrame(l).call, Len(written[l])>>} \subseteq Calls \X (0..MaxWritten)
    BY <2>1, <2>2
  <2>4. cues \in [Listeners -> SUBSET (Calls \X (0..MaxWritten))]
    BY <1>2 DEF TypeOK
  <2> QED BY <1>1, <2>3, <2>4
<1>7. \A k \in Listeners : cues'[k] = CuesOf(written'[k])
  <2>1. written'[l] = Append(written[l], NextFrame(l))
    BY <1>1, <1>2, FrameWritten DEF TypeOK
  <2>2. CuesOf(written'[l]) = IF NextFrame(l).n = 1 THEN CuesOf(written[l]) \union {<<NextFrame(l).call, Len(written[l])>>}
                              ELSE CuesOf(written[l])
    BY <1>1, <1>2, <1>3, <2>1, CuesGrow
  <2>3. cues'[l] = CuesOf(written'[l])
    BY <1>1, <1>2, <2>2 DEF TypeOK
  <2>4. \A k \in Listeners : k # l => cues'[k] = cues[k]
    BY <1>1, <1>2 DEF TypeOK
  <2> QED BY <1>2, <1>3, <2>3, <2>4
<1>8. phase' \in [Listeners -> Phases]
  BY <1>1, <1>2 DEF TypeOK
<1> QED BY <1>1, <1>4, <1>5, <1>6, <1>7, <1>8, WriteInv

-----------------------------------------------------------------------------
(* A new call.                                                             *)

\* A step of Notify before the call is queued, in which only users that want
\* the call are added to those it will be sent to.
LEMMA NotifyGoesOn ==
  ASSUME IInv, NEW c \in Calls, NEW n \in [pc : Steps, ask : SUBSET Listeners, wanted : SUBSET Listeners],
         NotifyAt(c, n), UNCHANGED <<ready, rows, streams, audio>>,
         unheard' \in [Calls -> SUBSET Users],
         \A x \in Calls : x # c => unheard'[x] = unheard[x],
         \A u \in unheard'[c] : ~Wants(u),
         \A l \in n.wanted : UserOf[l] \notin unheard'[c],
         \A l \in Listeners :
           n.pc \in {"new", "resolving", "filtering", "encoding"} \/ l \in n.wanted \/ UserOf[l] \in unheard'[c]
             => Lacks(Sent(l), c)
  PROVE  IInv'
<1>1. TypeOK /\ notify \in [Calls -> [pc : Steps, ask : SUBSET Listeners, wanted : SUBSET Listeners]]
  BY DEF IInv, TypeOK
<1>2. /\ notify' \in [Calls -> [pc : Steps, ask : SUBSET Listeners, wanted : SUBSET Listeners]]
      /\ notify'[c] = n /\ \A x \in Calls : x # c => notify'[x] = notify[x]
  BY <1>1 DEF NotifyAt
<1>3. TypeOK'
  BY <1>1, <1>2 DEF TypeOK
<1>4. \A l \in Listeners : Agreed(l)' /\ Primed(l)' /\ cues'[l] = CuesOf(written'[l])
  BY DEF IInv, Agreed, Primed
<1>5. CallsArePlayedInOneStretch'
  BY DEF IInv, CallsArePlayedInOneStretch
<1>6. AwaitedAreUnheard'
  <2> SUFFICES ASSUME NEW x \in Calls, NEW l \in Listeners, Awaited(x, l)' PROVE Lacks(Sent(l), x)
    BY DEF AwaitedAreUnheard, Sent
  <2>1. CASE x = c
    BY <1>2, <2>1 DEF Awaited
  <2>2. CASE x # c
    BY <1>2, <2>2 DEF Awaited, IInv, AwaitedAreUnheard
  <2> QED BY <2>1, <2>2
<1>7. \A x \in Calls : Unwanted(x)'
  <2> SUFFICES ASSUME NEW x \in Calls PROVE Unwanted(x)'
    OBVIOUS
  <2>1. CASE x = c
    BY <1>2, <2>1 DEF Unwanted, Wants
  <2>2. CASE x # c
    BY <1>2, <2>2 DEF Unwanted, Wants, IInv
  <2> QED BY <2>1, <2>2
<1> QED BY <1>3, <1>4, <1>5, <1>6, <1>7 DEF IInv

LEMMA NotifyStartInv ==
  ASSUME IInv, NEW c \in Calls, NotifyStart(c)
  PROVE  IInv'
<1> DEFINE n == [pc |-> IF managed = {} THEN "done" ELSE "resolving", ask |-> managed, wanted |-> {}]
<1>1. TypeOK /\ managed \subseteq Listeners /\ unheard \in [Calls -> SUBSET Users]
  BY DEF IInv, TypeOK
<1>2. n \in [pc : Steps, ask : SUBSET Listeners, wanted : SUBSET Listeners] /\ n.wanted = {}
  BY <1>1 DEF Steps
<1> HIDE DEF n
<1>3. /\ NotifyAt(c, n) /\ UNCHANGED <<ready, rows, streams, audio>> /\ notify[c].pc = "new"
      /\ unheard' = [unheard EXCEPT ![c] = {u \in Users : ~Wants(u)}]
  BY DEF NotifyStart, n
<1>4. /\ unheard' \in [Calls -> SUBSET Users] /\ \A x \in Calls : x # c => unheard'[x] = unheard[x]
      /\ \A u \in unheard'[c] : ~Wants(u)
  BY <1>1, <1>3
<1>5. \A l \in Listeners : Lacks(Sent(l), c)
  BY <1>3 DEF IInv, AwaitedAreUnheard, Awaited
<1> QED BY <1>2, <1>3, <1>4, <1>5, NotifyGoesOn

LEMMA NotifyStepsInv ==
  ASSUME IInv, NEW c \in Calls, Resolve(c) \/ Filter(c) \/ Encode(c) \/ NotifyEnd(c)
  PROVE  IInv'
<1>1. /\ TypeOK /\ notify[c] \in [pc : Steps, ask : SUBSET Listeners, wanted : SUBSET Listeners]
      /\ unheard \in [Calls -> SUBSET Users] /\ Unwanted(c)
      /\ \A l \in Listeners : Awaited(c, l) => Lacks(Sent(l), c)
  BY DEF IInv, TypeOK, AwaitedAreUnheard
<1>2. UNCHANGED <<ready, rows, streams, audio, unheard>>
  BY DEF Resolve, Filter, Encode, NotifyEnd
<1>3. ASSUME NEW n \in [pc : Steps, ask : SUBSET Listeners, wanted : SUBSET Listeners], NotifyAt(c, n),
             \A l \in n.wanted : l \in notify[c].wanted \/ Wants(UserOf[l]),
             \/ notify[c].pc \in {"resolving", "filtering", "encoding"}
             \/ n.pc = "done" /\ n.wanted = {}
      PROVE  IInv'
  <2>1. \A l \in n.wanted : UserOf[l] \notin unheard[c]
    BY <1>1, <1>3 DEF Unwanted
  <2>2. \A l \in Listeners :
           n.pc \in {"new", "resolving", "filtering", "encoding"} \/ l \in n.wanted \/ UserOf[l] \in unheard[c]
             => Lacks(Sent(l), c)
    BY <1>1, <1>3 DEF Awaited
  <2>3. /\ unheard' \in [Calls -> SUBSET Users] /\ unheard'[c] = unheard[c]
        /\ \A x \in Calls : x # c => unheard'[x] = unheard[x]
        /\ \A u \in unheard'[c] : ~Wants(u)
    BY <1>1, <1>2 DEF Unwanted
  <2> QED BY <1>2, <1>3, <2>1, <2>2, <2>3, NotifyGoesOn
<1>4. ASSUME NEW pc \in Steps, NotifyAt(c, [notify[c] EXCEPT !.pc = pc]),
             notify[c].pc \in {"resolving", "filtering", "encoding"} \/ (pc = "done" /\ notify[c].wanted = {})
      PROVE  IInv'
  <2> DEFINE n == [notify[c] EXCEPT !.pc = pc]
  <2>1. n \in [pc : Steps, ask : SUBSET Listeners, wanted : SUBSET Listeners]
        /\ n.wanted = notify[c].wanted /\ n.pc = pc
    BY <1>1
  <2> HIDE DEF n
  <2> QED BY <1>3, <1>4, <2>1 DEF n
<1>5. CASE Resolve(c)
  BY <1>4, <1>5 DEF Resolve, Steps
<1>6. CASE Filter(c)
  <2>1. PICK l \in notify[c].ask :
          NotifyAt(c, [notify[c] EXCEPT !.ask = @ \ {l},
                                        !.wanted = IF Wants(UserOf[l]) THEN @ \union {l} ELSE @])
    BY <1>6 DEF Filter
  <2> DEFINE n == [notify[c] EXCEPT !.ask = @ \ {l}, !.wanted = IF Wants(UserOf[l]) THEN @ \union {l} ELSE @]
  <2>2. /\ n \in [pc : Steps, ask : SUBSET Listeners, wanted : SUBSET Listeners]
        /\ n.wanted = IF Wants(UserOf[l]) THEN notify[c].wanted \union {l} ELSE notify[c].wanted
    BY <1>1
  <2>3. NotifyAt(c, n)
    BY <2>1
  <2> HIDE DEF n
  <2>4. notify[c].pc = "filtering"
    BY <1>6 DEF Filter
  <2> QED BY <1>3, <2>2, <2>3, <2>4
<1>7. CASE Encode(c)
  <2>1. PICK pc \in {"encoding", "queueing", "done"} : NotifyAt(c, [notify[c] EXCEPT !.pc = pc])
    BY <1>7 DEF Encode
  <2> QED BY <1>4, <1>7, <2>1 DEF Encode, Steps
<1>8. CASE NotifyEnd(c)
  BY <1>4, <1>8 DEF NotifyEnd, Steps
<1> QED BY <1>5, <1>6, <1>7, <1>8

LEMMA EnqueueInv ==
  ASSUME IInv, NEW c \in Calls, Enqueue(c)
  PROVE  IInv'
<1>1. PICK l \in notify[c].wanted :
        /\ notify[c].pc = "queueing"
        /\ queue' = [queue EXCEPT ![l] = Trim(queue[l] \o CallFrames(c))]
        /\ NotifyAt(c, [notify[c] EXCEPT !.wanted = @ \ {l}])
        /\ UNCHANGED <<ready, rows, streams, written, cues, unheard>>
  BY DEF Enqueue
<1>2. /\ TypeOK /\ notify \in [Calls -> [pc : Steps, ask : SUBSET Listeners, wanted : SUBSET Listeners]]
      /\ l \in Listeners /\ queue \in [Listeners -> Seq(Frame)]
      /\ Unwanted(c) /\ OneStretch(written[l] \o queue[l], Len(written[l]))
  BY <1>1 DEF IInv, TypeOK, CallsArePlayedInOneStretch
<1>3. /\ written[l] \in Seq(Item) /\ queue[l] \in Seq(Frame) /\ queue[l] \in Seq(Item)
  BY <1>2, SentIs
<1>4. Lacks(written[l] \o queue[l], c)
  BY <1>1, <1>2 DEF IInv, AwaitedAreUnheard, Awaited, Sent
<1> DEFINE q == Trim(queue[l] \o CallFrames(c))
<1>5. /\ q \in Seq(Frame) /\ Len(q) <= MaxFrames /\ OneStretch(written[l] \o q, Len(written[l]))
      /\ \A x : x # c /\ Lacks(queue[l], x) => Lacks(q, x)
  BY <1>2, <1>3, <1>4, CallQueued
<1>6. queue' = [queue EXCEPT ![l] = q]
  BY <1>1
<1> HIDE DEF q
<1>7. /\ queue' \in [Listeners -> Seq(Frame)] /\ queue'[l] = q
      /\ \A k \in Listeners : k # l => queue'[k] = queue[k]
  BY <1>2, <1>5, <1>6
<1> DEFINE n == [notify[c] EXCEPT !.wanted = @ \ {l}]
<1>8. n \in [pc : Steps, ask : SUBSET Listeners, wanted : SUBSET Listeners]
      /\ n.wanted = notify[c].wanted \ {l} /\ n.pc = "queueing"
  BY <1>1, <1>2
<1>9. notify' = [notify EXCEPT ![c] = n]
  BY <1>1 DEF NotifyAt
<1> HIDE DEF n
<1>10. /\ notify' \in [Calls -> [pc : Steps, ask : SUBSET Listeners, wanted : SUBSET Listeners]]
       /\ notify'[c] = n /\ \A x \in Calls : x # c => notify'[x] = notify[x]
  BY <1>2, <1>8, <1>9
<1>11. TypeOK'
  BY <1>1, <1>2, <1>5, <1>7, <1>10 DEF TypeOK
<1>12. \A k \in Listeners : Agreed(k)' /\ Primed(k)' /\ cues'[k] = CuesOf(written'[k])
  BY <1>1 DEF IInv, Agreed, Primed
<1>13. CallsArePlayedInOneStretch'
  BY <1>1, <1>5, <1>7 DEF IInv, CallsArePlayedInOneStretch
<1>14. AwaitedAreUnheard'
  <2> SUFFICES ASSUME NEW x \in Calls, NEW k \in Listeners, Awaited(x, k)' PROVE Lacks(written[k] \o queue'[k], x)
    BY <1>1 DEF AwaitedAreUnheard, Sent
  <2>1. Awaited(x, k) /\ ~(x = c /\ k = l)
    <3>1. ~(x = c /\ k = l)
      BY <1>1, <1>2, <1>8, <1>10 DEF Awaited, Unwanted
    <3>2. Awaited(x, k)
      BY <1>1, <1>8, <1>10 DEF Awaited
    <3> QED BY <3>1, <3>2
  <2>2. Lacks(written[k] \o queue[k], x)
    BY <2>1 DEF IInv, AwaitedAreUnheard, Sent
  <2>3. CASE k # l
    BY <1>7, <2>2, <2>3
  <2>4. CASE k = l
    <3>1. Lacks(written[l], x) /\ Lacks(queue[l], x)
      BY <1>3, <2>2, <2>4, BothLack
    <3>2. Lacks(q, x) /\ q \in Seq(Item)
      BY <1>5, <2>1, <2>4, <3>1, SeqMonotonic DEF Item
    <3> QED BY <1>3, <1>7, <2>4, <3>1, <3>2, BothLack
  <2> QED BY <2>3, <2>4
<1>15. \A x \in Calls : Unwanted(x)'
  BY <1>1, <1>2, <1>8, <1>10 DEF IInv, Unwanted, Wants
<1> QED BY <1>11, <1>12, <1>13, <1>14, <1>15 DEF IInv

-----------------------------------------------------------------------------
(* Accounts.                                                               *)

LEMMA RetuneInv ==
  ASSUME IInv, NEW u \in Users, NEW to \in {"tuned", "tunedOut", "disabled"}, Retune(u, to)
  PROVE  IInv'
<1>1. /\ TypeOK /\ retunes \in Nat /\ retunes < MaxRetunes /\ MaxRetunes \in Nat
      /\ UNCHANGED <<ready, streams, audio, notify>>
      /\ account' = [account EXCEPT ![u] = to] /\ retunes' = retunes + 1
      /\ unheard' = IF to = "tuned" THEN [c \in Calls |-> unheard[c] \ {u}] ELSE unheard
  BY StreamAssumption DEF IInv, TypeOK, Retune, StreamAssumption
<1>2. /\ account' \in [Users -> {"tuned", "tunedOut", "disabled"}]
      /\ \A v \in Users : account'[v] = IF v = u THEN to ELSE account[v]
  BY <1>1 DEF TypeOK
<1>3. /\ unheard' \in [Calls -> SUBSET Users]
      /\ \A c \in Calls : unheard'[c] \subseteq unheard[c] /\ (to = "tuned" => u \notin unheard'[c])
  BY <1>1 DEF TypeOK
<1>4. TypeOK'
  BY <1>1, <1>2, <1>3 DEF TypeOK
<1>5. \A l \in Listeners : Agreed(l)' /\ Primed(l)' /\ cues'[l] = CuesOf(written'[l])
  BY <1>1 DEF IInv, Agreed, Primed
<1>6. CallsArePlayedInOneStretch'
  BY <1>1 DEF IInv, CallsArePlayedInOneStretch
<1>7. AwaitedAreUnheard'
  BY <1>1, <1>3 DEF IInv, AwaitedAreUnheard, Awaited, Sent
<1>8. \A c \in Calls : Unwanted(c)'
  <2> SUFFICES ASSUME NEW c \in Calls PROVE Unwanted(c)'
    OBVIOUS
  <2>1. \A v \in unheard'[c] : v \in Users /\ account'[v] # "tuned"
    BY <1>2, <1>3 DEF IInv, Unwanted, Wants
  <2>2. \A l \in notify'[c].wanted : UserOf[l] \notin unheard'[c]
    BY <1>1, <1>3 DEF IInv, Unwanted
  <2> QED BY <2>1, <2>2 DEF Unwanted, Wants
<1> QED BY <1>4, <1>5, <1>6, <1>7, <1>8 DEF IInv

LEMMA StutterInv ==
  ASSUME IInv, UNCHANGED vars
  PROVE  IInv'
BY DEF vars, IInv, TypeOK, Agreed, Primed, CallsArePlayedInOneStretch, AwaitedAreUnheard, Awaited, Sent, Unwanted, Wants

-----------------------------------------------------------------------------
LEMMA StepInv ==
  ASSUME IInv, [Next]_vars
  PROVE  IInv'
<1>1. ASSUME NEW l \in Listeners,
             Open(l) \/ Serve(l) \/ HangUp(l) \/ Stall(l) \/ Resume(l) \/ DisconnectJTI(l)
      PROVE  IInv'
  BY <1>1, StreamSteps, WritePrimeInv, TickInv, DisconnectInv DEF Serve, DisconnectJTI
<1>2. ASSUME NEW c \in Calls, NotifyStart(c) \/ Notify(c)
      PROVE  IInv'
  BY <1>2, NotifyStartInv, NotifyStepsInv, EnqueueInv DEF Notify
<1>3. ASSUME NEW u \in Users,
             DisconnectUser(u) \/ \E to \in {"tuned", "tunedOut", "disabled"} : Retune(u, to)
      PROVE  IInv'
  BY <1>3, DisconnectInv, RetuneInv DEF DisconnectUser
<1> QED BY <1>1, <1>2, <1>3, StutterInv DEF Next

LEMMA Invariance == Spec => []IInv
<1>1. Init => IInv
  BY InitInv
<1>2. IInv /\ [Next]_vars => IInv'
  BY StepInv
<1> QED BY <1>1, <1>2, PTL DEF Spec

\* However many listeners there are and however calls come: the manager and
\* the registry agree with how far each stream is, and each listener was told
\* exactly the calls that begin in what it was sent, each at its position.
THEOREM CuesAreTrue == Spec => []StreamInv
<1>1. IInv => StreamInv
  BY DEF IInv, StreamInv, Agreed
<1> QED BY <1>1, Invariance, PTL

\* Calls of any length, queued in any order and cut by any cap, are never
\* mixed in what a listener is sent.
THEOREM CallsAreNotMixed == Spec => []CallsArePlayedInOneStretch
<1>1. IInv => CallsArePlayedInOneStretch
  BY DEF IInv
<1> QED BY <1>1, Invariance, PTL

\* No listener hears a call its user did not want when it came and has not
\* wanted since, for any number of users and changes of their selections.
THEOREM SelectionIsKept == Spec => []UnwantedIsUnheard
<1>1. IInv => UnwantedIsUnheard
  <2> SUFFICES ASSUME IInv, NEW c \in Calls, NEW l \in Listeners, UserOf[l] \in unheard[c]
               PROVE  \A i \in 1..Len(written[l]) : written[l][i].call # c
    BY DEF UnwantedIsUnheard
  <2>1. TypeOK /\ Lacks(written[l] \o queue[l], c)
    BY DEF IInv, AwaitedAreUnheard, Awaited, Sent
  <2>2. written[l] \in Seq(Item) /\ queue[l] \in Seq(Item)
    BY <2>1, SentIs
  <2>3. Lacks(written[l], c)
    BY <2>1, <2>2, BothLack
  <2> QED BY <2>3 DEF Lacks
<1> QED BY <1>1, Invariance, PTL

-----------------------------------------------------------------------------
(* Folder monitors.                                                        *)

Watchers == [gen : Nat, poll : BOOLEAN, delete : BOOLEAN, pc : {"start", "on", "scan"},
             seen : SUBSET Paths, scan : SUBSET Paths, left : SUBSET Paths]
Timers   == [gen : Nat, delete : BOOLEAN, path : Paths, n : Nat, expired : BOOLEAN]
Tasks    == [pc : {"parse", "check", "insert", "delete"}, gen : Nat, delete : BOOLEAN, path : Paths,
             time : Nat, seen : Nat, blind : BOOLEAN]
Made     == [time : Nat, seen : Nat, blind : BOOLEAN]
OnDisk   == [writes : 0..MaxWrites, audio : BOOLEAN, side : BOOLEAN, sided : BOOLEAN]

\* The types, in full.
Admined ==
  /\ recorder \in Recorders /\ row \in Rows
  /\ pending \in Nat /\ pending <= edits /\ edits \in 0..MaxEdits /\ faults \in 0..MaxFaults
Serving ==
  /\ reload \in {"none", "waiting"} /\ gen \in Nat \ {0} /\ runners \subseteq Watchers
  /\ status \in {"none", "watching", "polling", "stopped", "failed"}
Timed == events \subseteq Paths /\ timers \subseteq Timers /\ IsFiniteSet(timers) /\ timerOf \in [Paths -> Nat]
Called ==
  /\ disk \in [Files -> OnDisk] /\ failed \subseteq Files
  /\ task \in [0..Slots -> {NoTask} \union Tasks] /\ calls \in [Files -> Seq(Made)]
DirType == Admined /\ Serving /\ Timed /\ Called

\* One watcher, of the generation that is running, and a status that is its.
OneWatcher ==
  /\ \A r, s \in runners : r = s
  /\ \A r \in runners : r.gen = gen
  /\ status \in {"watching", "polling"} => \E r \in runners : r.pc # "start"

\* A watcher that is up has said so; it is deleted from what is shown only with
\* a reload to come.
Shown == pending = 0 /\ reload = "none" => \A r \in runners : r.pc # "start" => status = Mode(r)

\* What the last reload made of the row, when no other has been asked for.
AsSaved ==
  pending = 0 /\ reload = "none" =>
    /\ \A r \in runners : row.state = "on" /\ r.poll = row.poll /\ r.delete = row.delete
    /\ row.state = "on" /\ runners = {} => status = "failed"

\* What a handling knows of the calls of its recording.
Knows(t) ==
  /\ t.pc = "insert" /\ ~t.blind => /\ t.seen <= Len(calls[t.path[1]])
                                    /\ \A k \in 1..t.seen : calls[t.path[1]][k].time # t.time
  /\ t.pc = "delete" => calls[t.path[1]] # <<>>
Knowing == \A i \in 0..Slots : Knows(task[i])

\* A server that starts, with nothing recorded.
LEMMA DirTypeInit == DInit => DirType
<1>. SUFFICES ASSUME DInit PROVE DirType
  OBVIOUS
<1>1. Admined /\ Serving
  BY DirMonitorAssumption DEF DInit, Admined, Serving, DirMonitorAssumption, Rows
<1>2. Timed
  BY FS_EmptySet DEF DInit, Timed
<1>3. Called
  BY DirMonitorAssumption DEF DInit, Called, OnDisk, DirMonitorAssumption
<1>. QED  BY <1>1, <1>2, <1>3 DEF DirType

\* What the admin, the recorder and faults change.
LEMMA AdminedStep ==
  ASSUME DirType, [DNext]_dvars
  PROVE  Admined'
<1>. USE DEF DirType, Admined
<1>1. CASE \E new \in Rows : Save(new)
  BY <1>1, DirMonitorAssumption DEF Save, DirMonitorAssumption
<1>2. CASE DirMonitorsDelete \/ Stop \/ Start \/ Restart
  <2>1. CASE DirMonitorsDelete
    BY <2>1, DirMonitorAssumption DEF DirMonitorsDelete, DirMonitorAssumption, Rows
  <2>2. CASE Stop \/ Start
    BY <2>2 DEF Stop, Start, bounds
  <2>3. CASE Restart
    BY <2>3, DirMonitorAssumption DEF Restart, DirMonitorAssumption
  <2>. QED  BY <1>2, <2>1, <2>2, <2>3
<1>3. CASE \E i \in 0..Slots : TaskStep(i)
  <2>. PICK i \in 0..Slots : TaskStep(i)
    BY <1>3
  <2>. USE DirMonitorAssumption DEF DirMonitorAssumption, bounds
  <2>1. CASE Parse(i)
    BY <2>1 DEF Parse, service
  <2>2. CASE Check(i)
    <3>1. /\ UNCHANGED <<recorder, row, pending, edits>>
          /\ faults' = faults \/ (faults < MaxFaults /\ faults' = faults + 1)
      BY <2>2 DEF Check, service
    <3>. QED  BY <3>1
  <2>3. CASE Insert(i)
    BY <2>3 DEF Insert, service
  <2>4. CASE Delete(i)
    BY <2>4 DEF Delete, service
  <2>. QED  BY <2>1, <2>2, <2>3, <2>4 DEF TaskStep
<1>4. CASE RunnerStep
  <2>. PICK r \in runners : \/ Run(r) \/ Scan(r) \/ ScanEnd(r) \/ Exit(r)
                            \/ \E p \in Paths : Notice(r, p) \/ ScanEntry(r, p)
    BY <1>4 DEF RunnerStep
  <2>1. CASE Run(r)
    BY <2>1, DirMonitorAssumption DEF Run, DirMonitorAssumption
  <2>2. CASE Scan(r) \/ ScanEnd(r) \/ Exit(r)
    BY <2>2 DEF Scan, ScanEnd, Exit, bounds
  <2>3. CASE \E p \in Paths : Notice(r, p) \/ ScanEntry(r, p)
    BY <2>3 DEF Notice, ScanEntry, service, bounds
  <2>. QED  BY <2>1, <2>2, <2>3
<1>5. CASE (\E f \in Files : Write(f) \/ WriteSidecar(f)) \/ TimerStep \/ UNCHANGED dvars
  BY <1>5 DEF Write, WriteSidecar, TimerStep, Expire, Callback, dvars, service, bounds
<1>. QED  BY <1>1, <1>2, <1>3, <1>4, <1>5 DEF DNext

\* The watchers of the generation that runs.
LEMMA ServingStep ==
  ASSUME DirType, [DNext]_dvars
  PROVE  Serving'
<1>. USE DEF DirType, Serving
<1>1. Runner \in Watchers \/ gen' # gen + 1
  BY DEF Runner, Watchers, Admined, Rows
<1>2. CASE (\E new \in Rows : Save(new)) \/ DirMonitorsDelete \/ Stop
  BY <1>2 DEF Save, DirMonitorsDelete, Stop
<1>3. CASE Start \/ Restart
  BY <1>1, <1>3 DEF Start, Restart
<1>4. CASE RunnerStep
  <2>. PICK r \in runners : \/ Run(r) \/ Scan(r) \/ ScanEnd(r) \/ Exit(r)
                            \/ \E p \in Paths : Notice(r, p) \/ ScanEntry(r, p)
    BY <1>4 DEF RunnerStep
  <2>0. r \in Watchers
    OBVIOUS
  <2>1. CASE Run(r)
    BY <2>0, <2>1 DEF Run, Become, Watchers, Mode
  <2>2. CASE Scan(r)
    <3>. DEFINE there == {p \in Paths : There(p)}
    <3>1. there \in SUBSET Paths
      OBVIOUS
    <3>. HIDE DEF there
    <3>2. [r EXCEPT !.pc = "scan", !.scan = there, !.left = there] \in Watchers
      BY <2>0, <3>1 DEF Watchers
    <3>3. runners' = (runners \ {r}) \union {[r EXCEPT !.pc = "scan", !.scan = there, !.left = there]}
      BY <2>2 DEF Scan, Become, there
    <3>. QED  BY <2>2, <3>2, <3>3 DEF Scan
  <2>3. CASE ScanEnd(r)
    <3>1. r.seen \intersect r.scan \in SUBSET Paths /\ {} \in SUBSET Paths
      BY <2>0 DEF Watchers
    <3>2. [r EXCEPT !.pc = "on", !.seen = r.seen \intersect r.scan, !.scan = {}] \in Watchers
      BY <2>0, <3>1 DEF Watchers
    <3>. QED  BY <2>3, <3>2 DEF ScanEnd, Become
  <2>4. CASE Exit(r)
    BY <2>4 DEF Exit
  <2>5. CASE \E p \in Paths : Notice(r, p)
    BY <2>5 DEF Notice, service
  <2>6. CASE \E p \in Paths : ScanEntry(r, p)
    <3>. PICK p \in Paths : ScanEntry(r, p)
      BY <2>6
    <3>1. r.seen \union {p} \in SUBSET Paths /\ r.left \ {p} \in SUBSET Paths
      BY <2>0 DEF Watchers
    <3>2. [r EXCEPT !.left = r.left \ {p}, !.seen = r.seen \union {p}] \in Watchers
      BY <2>0, <3>1 DEF Watchers
    <3>. QED  BY <3>2 DEF ScanEntry, Become
  <2>. QED  BY <2>1, <2>2, <2>3, <2>4, <2>5, <2>6
<1>5. CASE \E i \in 0..Slots : TaskStep(i)
  BY <1>5 DEF TaskStep, Parse, Check, Insert, Delete, service
<1>6. CASE (\E f \in Files : Write(f) \/ WriteSidecar(f)) \/ TimerStep \/ UNCHANGED dvars
  BY <1>6 DEF Write, WriteSidecar, TimerStep, Expire, Callback, dvars, service
<1>. QED  BY <1>2, <1>3, <1>4, <1>5, <1>6 DEF DNext

\* There is always a number for a new timer: fewer have been given out than
\* there are to choose from.
LEMMA NumberLeft ==
  ASSUME NEW T, IsFiniteSet(T), NEW p
  PROVE  \E k \in 1..Cardinality(T) + 1 : \A t \in T : t.path = p => t.n # k
<1>. DEFINE Used == {t.n : t \in T}
            f == [t \in T |-> t.n]
<1>1. Cardinality(T) \in Nat
  BY FS_CardinalityType
<1>2. f \in Surjection(T, Used)
  BY DEF Surjection
<1>3. IsFiniteSet(Used) /\ Cardinality(Used) <= Cardinality(T)
  <2>. HIDE DEF Used, f
  <2>. QED  BY <1>2, FS_Surjection
<1>4. IsFiniteSet(1..Cardinality(T) + 1) /\ Cardinality(1..Cardinality(T) + 1) = Cardinality(T) + 1
  BY <1>1, FS_Interval
<1>5. ~(1..Cardinality(T) + 1 \subseteq Used)
  <2>. HIDE DEF Used
  <2>1. Cardinality(Used) \in Nat
    BY <1>3, FS_CardinalityType
  <2>2. 1..Cardinality(T) + 1 \subseteq Used => Cardinality(1..Cardinality(T) + 1) <= Cardinality(Used)
    BY <1>3, FS_Subset
  <2>. QED  BY <1>1, <1>3, <1>4, <2>1, <2>2
<1>. QED  BY <1>5

\* Events and timers.
LEMMA TimedStep ==
  ASSUME DirType, [DNext]_dvars
  PROVE  Timed'
<1>. USE DEF DirType, Timed
<1>1. CASE \E f \in Files : Write(f) \/ WriteSidecar(f)
  BY <1>1 DEF Write, WriteSidecar, Report, Paths
<1>2. CASE RunnerStep
  <2>. PICK r \in runners : \/ Run(r) \/ Scan(r) \/ ScanEnd(r) \/ Exit(r)
                            \/ \E p \in Paths : Notice(r, p) \/ ScanEntry(r, p)
    BY <1>2 DEF RunnerStep
  <2>0. r \in Watchers
    BY DEF Serving
  <2>1. CASE Run(r) \/ Scan(r) \/ ScanEnd(r) \/ \E p \in Paths : ScanEntry(r, p)
    BY <2>1 DEF Run, Scan, ScanEnd, ScanEntry, watching
  <2>2. CASE Exit(r)
    <3>1. timers' \subseteq timers /\ timerOf' = [p \in Paths |-> 0] /\ events' = {}
      BY <2>2 DEF Exit
    <3>2. IsFiniteSet(timers')
      BY <3>1, FS_Subset
    <3>. QED  BY <3>1, <3>2
  <2>3. CASE \E p \in Paths : Notice(r, p)
    <3>. PICK p \in Paths : Notice(r, p)
      BY <2>3
    <3>. DEFINE stopped == {t \in timers : t.gen = r.gen /\ t.path = p /\ t.n = timerOf[p] /\ ~t.expired}
                n == CHOOSE k \in 1..Cardinality(timers) + 1 : \A t \in timers : t.path = p => t.n # k
                new == [gen |-> r.gen, delete |-> r.delete, path |-> p, n |-> n, expired |-> FALSE]
    <3>1. /\ events' = events \ {p} /\ timers' = (timers \ stopped) \union {new}
          /\ timerOf' = [timerOf EXCEPT ![p] = n]
      BY DEF Notice
    <3>2. n \in 1..Cardinality(timers) + 1
      BY NumberLeft
    <3>3. n \in Nat
      BY <3>2, FS_CardinalityType
    <3>. HIDE DEF n
    <3>4. new \in Timers
      BY <2>0, <3>3 DEF Timers, Watchers
    <3>5. IsFiniteSet(timers \ stopped) /\ timers \ stopped \subseteq timers
      BY FS_Subset
    <3>. HIDE DEF new, stopped
    <3>6. IsFiniteSet(timers')
      BY <3>1, <3>5, FS_AddElement
    <3>. QED  BY <3>1, <3>3, <3>4, <3>5, <3>6
  <2>. QED  BY <2>1, <2>2, <2>3
<1>3. CASE TimerStep
  <2>. PICK t \in timers : Expire(t) \/ \E i \in 1..Slots : Callback(t, i)
    BY <1>3 DEF TimerStep
  <2>0. IsFiniteSet(timers \ {t}) /\ t \in Timers
    BY FS_RemoveElement
  <2>1. CASE Expire(t)
    <3>1. [t EXCEPT !.expired = TRUE] \in Timers
      BY <2>0 DEF Timers
    <3>2. IsFiniteSet((timers \ {t}) \union {[t EXCEPT !.expired = TRUE]})
      BY <2>0, FS_AddElement
    <3>. QED  BY <2>1, <3>1, <3>2 DEF Expire
  <2>2. CASE \E i \in 1..Slots : Callback(t, i)
    <3>1. t.path \in Paths
      BY <2>0 DEF Timers
    <3>. QED  BY <2>0, <2>2, <3>1 DEF Callback
  <2>. QED  BY <2>1, <2>2
<1>4. CASE Restart
  BY <1>4, FS_EmptySet DEF Restart
<1>5. CASE (\E new \in Rows : Save(new)) \/ DirMonitorsDelete \/ Stop \/ Start \/ UNCHANGED dvars
  BY <1>5 DEF Save, DirMonitorsDelete, Stop, Start, watching, dvars
<1>6. CASE \E i \in 0..Slots : TaskStep(i)
  BY <1>6 DEF TaskStep, Parse, Check, Insert, Delete, watching
<1>. QED  BY <1>1, <1>2, <1>3, <1>4, <1>5, <1>6 DEF DNext

\* One watcher at a time, and the status it reported last.
LEMMA OneWatcherStep ==
  ASSUME DirType, OneWatcher, AsSaved, Shown, [DNext]_dvars
  PROVE  OneWatcher' /\ AsSaved' /\ Shown'
<1>. USE DEF OneWatcher, AsSaved, Shown, Mode
<1>0. pending \in Nat /\ gen \in Nat /\ row \in Rows
  BY DEF DirType, Admined, Serving
<1>8. Runner.gen = gen' /\ Runner.poll = row.poll /\ Runner.delete = row.delete /\ Runner.pc = "start"
  BY DEF Runner
<1>1. CASE (\E new \in Rows : Save(new)) \/ DirMonitorsDelete
  BY <1>0, <1>1 DEF Save, DirMonitorsDelete
<1>2. CASE Stop
  BY <1>2 DEF Stop
<1>3. CASE Start
  BY <1>0, <1>3, <1>8 DEF Start
<1>4. CASE Restart
  BY <1>0, <1>4, <1>8 DEF Restart
<1>5. CASE RunnerStep
  <2>. PICK r \in runners : \/ Run(r) \/ Scan(r) \/ ScanEnd(r) \/ Exit(r)
                            \/ \E p \in Paths : Notice(r, p) \/ ScanEntry(r, p)
    BY <1>5 DEF RunnerStep
  <2>0. r \in Watchers /\ runners = {r}
    BY DEF DirType, Serving
  <2>1. ASSUME NEW s, Become(r, s), s.gen = r.gen, s.poll = r.poll, s.delete = r.delete,
               UNCHANGED <<row, pending, reload, gen>>, s.pc # "start",
               status' = Mode(r) \/ (status' = status /\ r.pc # "start")
        PROVE  OneWatcher' /\ AsSaved' /\ Shown'
    <3>1. runners' = {s} /\ Mode(s) = Mode(r)
      BY <2>0, <2>1 DEF Become
    <3>. QED  BY <2>0, <2>1, <3>1 DEF Watchers
  <2>2. CASE Run(r)
    <3>1. CASE Become(r, [r EXCEPT !.pc = "on"]) /\ status' = Mode(r)
      <4>1. [r EXCEPT !.pc = "on"].gen = r.gen /\ [r EXCEPT !.pc = "on"].poll = r.poll /\ [r EXCEPT !.pc = "on"].delete = r.delete
            /\ [r EXCEPT !.pc = "on"].pc = "on"
        BY <2>0 DEF Watchers
      <4>. QED  BY <2>1, <2>2, <3>1, <4>1 DEF Run
    <3>2. CASE runners' = runners \ {r} /\ status' = "failed"
      BY <2>0, <2>2, <3>2 DEF Run
    <3>. QED  BY <2>2, <3>1, <3>2 DEF Run
  <2>3. CASE Exit(r)
    <3>1. reload = "waiting" /\ runners' = {} /\ status' = "stopped" /\ reload' = reload
      BY <2>0, <2>3 DEF Exit, Cancelled
    <3>. QED  BY <3>1
  <2>4. CASE \E p \in Paths : Notice(r, p)
    BY <2>4 DEF Notice, service
  <2>5. CASE Scan(r) \/ ScanEnd(r) \/ \E p \in Paths : ScanEntry(r, p)
    <3>1. PICK s : /\ Become(r, s) /\ s.gen = r.gen /\ s.poll = r.poll /\ s.delete = r.delete
                   /\ s.pc # "start" /\ r.pc # "start"
                   /\ UNCHANGED <<row, pending, reload, gen, status>>
      BY <2>0, <2>5 DEF Scan, ScanEnd, ScanEntry, Watchers
    <3>. QED  BY <2>1, <3>1
  <2>. QED  BY <2>2, <2>3, <2>4, <2>5
<1>6. CASE \E i \in 0..Slots : TaskStep(i)
  BY <1>6 DEF TaskStep, Parse, Check, Insert, Delete, service
<1>7. CASE (\E f \in Files : Write(f) \/ WriteSidecar(f)) \/ TimerStep \/ UNCHANGED dvars
  BY <1>7 DEF Write, WriteSidecar, TimerStep, Expire, Callback, dvars, service
<1>. QED  BY <1>1, <1>2, <1>3, <1>4, <1>5, <1>6, <1>7 DEF DNext

\* A place for a handling takes another that knows what it must.
LEMMA TaskSet ==
  ASSUME DirType, Knowing, NEW i \in 0..Slots, NEW t \in {NoTask} \union Tasks, Knows(t),
         task' = [task EXCEPT ![i] = t], UNCHANGED calls
  PROVE  Knowing' /\ task' \in [0..Slots -> {NoTask} \union Tasks]
<1>1. task' \in [0..Slots -> {NoTask} \union Tasks]
  BY DEF DirType, Called
<1>2. \A j \in 0..Slots : task'[j] = IF j = i THEN t ELSE task[j]
  BY DEF DirType, Called
<1>. QED  BY <1>1, <1>2 DEF Knowing, Knows

\* A handling that starts, or is over, knows nothing yet.
LEMMA FreshKnows == \A t : t.pc \notin {"insert", "delete"} => Knows(t)
BY DEF Knows

\* A slot that is free holds no task.
LEMMA FreeTasks == NoTask.pc = "free" /\ \A t \in Tasks : t.pc # "free" /\ t # NoTask
BY DEF NoTask, Tasks

\* What a parser finds is a number, and the watchers' files are recordings'.
LEMMA TimeIsNat ==
  ASSUME DirType, NEW f \in Files
  PROVE  CallTime(f) \in Nat
<1>1. disk[f].writes \in Nat
  BY DirMonitorAssumption DEF DirType, Called, OnDisk, DirMonitorAssumption
<1>. QED  BY <1>1 DEF CallTime, ParseTrunkRecorder, ParseSDRTrunk, ParseNamed, ParseGeneric, Nothing, Paired

\* A handling up to the row, and the removal of the source: the calls of a
\* recording are told apart by what it knew when it made one.
LEMMA TaskKeeps ==
  ASSUME DirType, Knowing, OneCallEach, RemovedIsCalled, NEW i \in 0..Slots, TaskStep(i)
  PROVE  Called' /\ Knowing' /\ OneCallEach' /\ RemovedIsCalled'
<1>. DEFINE t == task[i]
            f == t.path[1]
            to(pc, time, seen, blind) ==
              [pc |-> pc, gen |-> t.gen, delete |-> t.delete, path |-> t.path, time |-> time, seen |-> seen, blind |-> blind]
<1>1. t \in Tasks
  BY FreeTasks DEF TaskStep, Parse, Check, Insert, Delete, Ready, DirType, Called
<1>2. /\ f \in Files /\ t.path \in Paths /\ t.gen \in Nat /\ t.delete \in BOOLEAN
      /\ t.time \in Nat /\ t.seen \in Nat /\ t.blind \in BOOLEAN
  BY <1>1 DEF Tasks, Paths
<1>3. ASSUME NEW pc \in {"parse", "check", "insert", "delete"}, NEW time \in Nat, NEW seen \in Nat, NEW blind \in BOOLEAN
      PROVE  to(pc, time, seen, blind) \in Tasks
  BY <1>2, <1>3 DEF Tasks
<1>4. t = to(t.pc, t.time, t.seen, t.blind)
  BY <1>1 DEF Tasks
<1>5. calls \in [Files -> Seq(Made)] /\ disk \in [Files -> OnDisk] /\ failed \subseteq Files
  BY DEF DirType, Called
<1>6. calls[f] \in Seq(Made) /\ Len(calls[f]) \in Nat
  BY <1>2, <1>5, LenProperties
<1>7. CASE Parse(i)
  <2>1. \/ task' = [task EXCEPT ![i] = NoTask]
        \/ task' = [task EXCEPT ![i] = to("check", CallTime(f), t.seen, t.blind)]
    BY <1>1, <1>7 DEF Parse, Free, Tasks
  <2>2. UNCHANGED <<calls, disk, failed>>
    BY <1>7 DEF Parse
  <2>3. Knows(NoTask) /\ Knows(to("check", CallTime(f), t.seen, t.blind))
    BY FreshKnows, FreeTasks
  <2>4. to("check", CallTime(f), t.seen, t.blind) \in Tasks
    BY <1>2, <1>3, TimeIsNat
  <2>. HIDE DEF t, f, to
  <2>. QED  BY <1>5, <2>1, <2>2, <2>3, <2>4, TaskSet DEF Called, OneCallEach, RemovedIsCalled
<1>8. CASE Check(i)
  <2>1. \/ task' = [task EXCEPT ![i] = NoTask]
        \/ /\ ~\E k \in DOMAIN calls[f] : calls[f][k].time = t.time
           /\ task' = [task EXCEPT ![i] = to("insert", t.time, Len(calls[f]), t.blind)]
        \/ task' = [task EXCEPT ![i] = to("insert", t.time, t.seen, TRUE)]
    <3>1. \/ Free(i)
          \/ /\ ~\E k \in DOMAIN calls[f] : calls[f][k].time = t.time
             /\ task' = [task EXCEPT ![i].pc = "insert", ![i].seen = Len(calls[f])]
          \/ task' = [task EXCEPT ![i].pc = "insert", ![i].blind = TRUE]
      BY <1>8 DEF Check
    <3>2. task' = [task EXCEPT ![i].pc = "insert", ![i].seen = Len(calls[f])] =>
            task' = [task EXCEPT ![i] = to("insert", t.time, Len(calls[f]), t.blind)]
      BY <1>1 DEF Tasks
    <3>3. task' = [task EXCEPT ![i].pc = "insert", ![i].blind = TRUE] =>
            task' = [task EXCEPT ![i] = to("insert", t.time, t.seen, TRUE)]
      BY <1>1 DEF Tasks
    <3>4. Free(i) => task' = [task EXCEPT ![i] = NoTask]
      BY DEF Free
    <3>. QED  BY <3>1, <3>2, <3>3, <3>4
  <2>2. UNCHANGED <<calls, disk>> /\ failed' \subseteq Files
    BY <1>2, <1>5, <1>8 DEF Check
  <2>3. to("insert", t.time, Len(calls[f]), t.blind) \in Tasks /\ to("insert", t.time, t.seen, TRUE) \in Tasks
    BY <1>2, <1>3, <1>6
  <2>4. Knows(NoTask) /\ Knows(to("insert", t.time, t.seen, TRUE))
    BY FreshKnows, FreeTasks DEF Knows
  <2>5. (~\E k \in DOMAIN calls[f] : calls[f][k].time = t.time) => Knows(to("insert", t.time, Len(calls[f]), t.blind))
    BY <1>6, LenProperties DEF Knows
  <2>. HIDE DEF t, f, to
  <2>6. Knowing' /\ task' \in [0..Slots -> {NoTask} \union Tasks]
    BY <2>1, <2>2, <2>3, <2>4, <2>5, TaskSet
  <2>. QED  BY <1>5, <2>2, <2>6 DEF Called, OneCallEach, RemovedIsCalled
<1>9. CASE Insert(i)
  <2>. DEFINE call == [time |-> t.time, seen |-> t.seen, blind |-> t.blind]
  <2>1. call \in Made /\ Append(calls[f], call) \in Seq(Made)
    BY <1>2, <1>6 DEF Made
  <2>2. /\ \/ task' = [task EXCEPT ![i] = NoTask]
           \/ /\ calls' = [calls EXCEPT ![f] = Append(@, call)]
              /\ task' = [task EXCEPT ![i] = to("delete", t.time, t.seen, t.blind)]
        /\ calls' = calls \/ calls' = [calls EXCEPT ![f] = Append(@, call)]
        /\ disk' = disk /\ failed' \subseteq Files /\ t.pc = "insert"
    BY <1>1, <1>2, <1>5, <1>9 DEF Insert, Free, Tasks, Ready
  <2>3. to("delete", t.time, t.seen, t.blind) \in Tasks
    BY <1>2, <1>3
  <2>4. Knows(t)
    BY DEF Knowing
  <2>5. CASE calls' = calls
    <3>1. task' = [task EXCEPT ![i] = NoTask]
      <4>1. Len(Append(calls[f], call)) # Len(calls[f])
        BY <1>6, <2>1, AppendProperties
      <4>2. calls' # [calls EXCEPT ![f] = Append(@, call)]
        BY <1>2, <1>5, <2>5, <4>1
      <4>. QED  BY <2>2, <4>2
    <3>2. Knowing' /\ task' \in [0..Slots -> {NoTask} \union Tasks]
      BY <2>5, <3>1, TaskSet, FreshKnows, FreeTasks
    <3>. QED  BY <1>5, <2>2, <2>5, <3>2 DEF Called, OneCallEach, RemovedIsCalled
  <2>6. CASE calls' = [calls EXCEPT ![f] = Append(@, call)]
    <3>1. calls' \in [Files -> Seq(Made)]
      BY <1>2, <1>5, <2>1, <2>6
    <3>2. \A g \in Files : calls'[g] = IF g = f THEN Append(calls[f], call) ELSE calls[g]
      BY <1>2, <1>5, <2>6
    <3>3. /\ Len(calls'[f]) = Len(calls[f]) + 1 /\ calls'[f][Len(calls[f]) + 1] = call
          /\ \A k \in 1..Len(calls[f]) : calls'[f][k] = calls[f][k]
      <4>. HIDE DEF t, f, to, call
      <4>1. calls'[f] = Append(calls[f], call)
        BY <1>2, <3>2
      <4>. QED  BY <1>6, <2>1, <4>1, AppendProperties
    <3>4. task' \in [0..Slots -> {NoTask} \union Tasks] /\ \A j \in 0..Slots : j # i => task'[j] = task[j]
      BY <2>2, <2>3 DEF DirType, Called
    <3>5. task'[i].pc # "insert" /\ (task'[i].pc = "delete" => task'[i].path[1] = f)
      <4>1. task'[i] \in {NoTask, to("delete", t.time, t.seen, t.blind)}
        BY <2>2 DEF DirType, Called
      <4>. QED  BY <4>1, FreeTasks
    <3>6. calls'[f] # <<>>
      BY <1>6, <3>3
    <3>. HIDE DEF t, f, to, call
    <3>7. \A j \in 0..Slots : task[j] \in Tasks => task[j].path[1] \in Files
      BY DEF Tasks, Paths
    <3>8. \A g \in Files : /\ Len(calls'[g]) >= Len(calls[g])
                           /\ \A k \in 1..Len(calls[g]) : calls'[g][k] = calls[g][k]
                           /\ calls[g] # <<>> => calls'[g] # <<>>
      BY <1>5, <1>6, <3>2, <3>3, <3>6, LenProperties
    <3>9. ASSUME NEW j \in 0..Slots, j # i PROVE Knows(task[j])'
      <4>1. task'[j] = task[j] /\ Knows(task[j])
        BY <3>4, <3>9 DEF Knowing
      <4>2. CASE task[j] \in Tasks
        <5>1. task[j].path[1] \in Files /\ task[j].seen \in Nat
          BY <3>7, <4>2 DEF Tasks
        <5>2. Len(calls[task[j].path[1]]) \in Nat /\ Len(calls'[task[j].path[1]]) \in Nat
          BY <1>5, <3>1, <5>1, LenProperties
        <5>3. /\ Len(calls[task[j].path[1]]) <= Len(calls'[task[j].path[1]])
              /\ \A k \in 1..Len(calls[task[j].path[1]]) : calls'[task[j].path[1]][k] = calls[task[j].path[1]][k]
              /\ calls[task[j].path[1]] # <<>> => calls'[task[j].path[1]] # <<>>
          BY <3>8, <5>1, <5>2
        <5>4. task[j].pc = "insert" /\ ~task[j].blind =>
                /\ task[j].seen <= Len(calls'[task[j].path[1]])
                /\ \A k \in 1..task[j].seen : calls'[task[j].path[1]][k].time # task[j].time
          <6>. SUFFICES ASSUME task[j].pc = "insert", ~task[j].blind
                        PROVE  /\ task[j].seen <= Len(calls'[task[j].path[1]])
                               /\ \A k \in 1..task[j].seen : calls'[task[j].path[1]][k].time # task[j].time
            OBVIOUS
          <6>1. /\ task[j].seen <= Len(calls[task[j].path[1]])
                /\ \A k \in 1..task[j].seen : calls[task[j].path[1]][k].time # task[j].time
            BY <4>1 DEF Knows
          <6>2. \A k \in 1..task[j].seen : k \in 1..Len(calls[task[j].path[1]])
            BY <5>1, <5>2, <6>1
          <6>3. task[j].seen <= Len(calls'[task[j].path[1]])
            BY <5>1, <5>2, <5>3, <6>1
          <6>. QED  BY <5>3, <6>1, <6>2, <6>3
        <5>. QED  BY <4>1, <5>3, <5>4 DEF Knows
      <4>3. CASE task[j] = NoTask
        BY <4>1, <4>3, FreeTasks DEF Knows
      <4>. QED  BY <4>2, <4>3 DEF DirType, Called
    <3>10. Knows(task[i])'
      BY <3>5, <3>6 DEF Knows
    <3>11. Knowing'
      BY <3>9, <3>10 DEF Knowing
    <3>12. OneCallEach'
      <4>. SUFFICES ASSUME NEW g \in Files, NEW n \in DOMAIN calls'[g], NEW m \in 1..n - 1,
                           calls'[g][m].time = calls'[g][n].time, ~calls'[g][n].blind
                    PROVE  calls'[g][n].seen < m
        BY DEF OneCallEach
      <4>0. calls'[g] \in Seq(Made) /\ calls[g] \in Seq(Made) /\ n \in 1..Len(calls'[g]) /\ Len(calls[g]) \in Nat
        BY <1>5, <3>1, LenProperties
      <4>1. CASE g = f /\ n = Len(calls[f]) + 1
        <5>1. calls'[g][n].time = t.time /\ calls'[g][n].seen = t.seen /\ calls'[g][n].blind = t.blind
          BY <3>3, <4>1 DEF call
        <5>2. m \in 1..Len(calls[f]) /\ calls[f][m].time = t.time
          BY <1>6, <3>3, <4>1, <5>1
        <5>3. \A k \in 1..t.seen : calls[f][k].time # t.time
          BY <2>2, <2>4, <5>1 DEF Knows, f
        <5>. QED  BY <1>2, <5>1, <5>2, <5>3
      <4>2. CASE ~(g = f /\ n = Len(calls[f]) + 1)
        <5>1. n \in 1..Len(calls[g]) /\ m \in 1..Len(calls[g]) /\ m \in 1..n - 1
          BY <1>2, <1>6, <3>2, <3>3, <4>0, <4>2
        <5>2. calls'[g][n] = calls[g][n] /\ calls'[g][m] = calls[g][m]
          BY <3>8, <5>1
        <5>3. n \in DOMAIN calls[g]
          BY <4>0, <5>1, LenProperties
        <5>. QED  BY <5>1, <5>2, <5>3 DEF OneCallEach
      <4>. QED  BY <4>1, <4>2
    <3>13. RemovedIsCalled'
      BY <2>2, <3>8 DEF RemovedIsCalled
    <3>. QED  BY <1>5, <2>2, <3>1, <3>4, <3>11, <3>12, <3>13 DEF Called
  <2>. QED  BY <2>2, <2>5, <2>6
<1>10. CASE Delete(i)
  <2>1. /\ task' = [task EXCEPT ![i] = NoTask] /\ UNCHANGED <<calls, failed>> /\ t.pc = "delete"
        /\ disk' = [disk EXCEPT ![f].audio = FALSE, ![f].side = @ /\ ~Paired]
    BY <1>10 DEF Delete, Free, Ready
  <2>2. disk' \in [Files -> OnDisk] /\ \A g \in Files : g # f => disk'[g] = disk[g]
    BY <1>2, <1>5, <2>1 DEF OnDisk
  <2>3. calls[f] # <<>>
    BY <2>1 DEF Knowing, Knows
  <2>4. Knowing' /\ task' \in [0..Slots -> {NoTask} \union Tasks]
    BY <2>1, TaskSet, FreshKnows, FreeTasks
  <2>5. RemovedIsCalled'
    BY <2>1, <2>2, <2>3 DEF RemovedIsCalled
  <2>. QED  BY <1>5, <2>1, <2>2, <2>4, <2>5 DEF Called, OneCallEach
<1>. QED  BY <1>7, <1>8, <1>9, <1>10 DEF TaskStep

\* Everything else leaves the calls alone, and what handlings know of them.
LEMMA OthersKeep ==
  ASSUME DirType, Knowing, OneCallEach, RemovedIsCalled, [DNext]_dvars, ~\E i \in 0..Slots : TaskStep(i)
  PROVE  Called' /\ Knowing' /\ OneCallEach' /\ RemovedIsCalled'
<1>0. /\ disk \in [Files -> OnDisk] /\ failed \subseteq Files /\ calls \in [Files -> Seq(Made)]
      /\ task \in [0..Slots -> {NoTask} \union Tasks]
  BY DEF DirType, Called
<1>1. CASE \E f \in Files : Write(f) \/ WriteSidecar(f)
  <2>. PICK f \in Files : Write(f) \/ WriteSidecar(f)
    BY <1>1
  <2>1. UNCHANGED <<task, calls, failed>>
    BY DEF Write, WriteSidecar
  <2>2. disk[f] \in OnDisk /\ MaxWrites \in Nat
    BY <1>0, DirMonitorAssumption DEF DirMonitorAssumption
  <2>3. /\ disk' \in [Files -> OnDisk]
        /\ \A g \in Files : disk'[g].writes > 0 /\ ~disk'[g].audio => disk[g].writes > 0 /\ ~disk[g].audio
    <3>1. CASE Write(f)
      <4>. DEFINE n == disk[f].writes + 1
                  there == disk[f].audio \/ disk[f].writes = 0
                  new == [disk[f] EXCEPT !.writes = n, !.audio = there]
      <4>1. n \in 0..MaxWrites /\ n > 0 /\ there \in BOOLEAN
        BY <2>2, <3>1 DEF Write, OnDisk
      <4>2. disk' = [disk EXCEPT ![f] = new]
        BY <1>0, <3>1 DEF Write
      <4>3. new \in OnDisk /\ (~new.audio => ~disk[f].audio /\ disk[f].writes # 0)
        <5>. HIDE DEF n
        <5>1. (~there => ~disk[f].audio /\ disk[f].writes # 0)
          OBVIOUS
        <5>. HIDE DEF there
        <5>2. new \in OnDisk /\ new.audio = there
          BY <2>2, <4>1 DEF OnDisk
        <5>. QED  BY <5>1, <5>2
      <4>. HIDE DEF new
      <4>. QED  BY <1>0, <2>2, <4>2, <4>3 DEF OnDisk
    <3>2. CASE WriteSidecar(f)
      BY <1>0, <2>2, <3>2 DEF WriteSidecar, OnDisk
    <3>. QED  BY <3>1, <3>2
  <2>. QED  BY <1>0, <2>1, <2>3 DEF Called, Knowing, Knows, OneCallEach, RemovedIsCalled
<1>2. CASE RunnerStep \/ TimerStep
  <2>1. UNCHANGED <<disk, calls, failed>>
    BY <1>2 DEF RunnerStep, TimerStep, Run, Scan, ScanEnd, Exit, Notice, ScanEntry, Expire, Callback
  <2>2. \/ task' = task
        \/ \E i \in 0..Slots, g \in Nat, d \in BOOLEAN, p \in Paths : task' = [task EXCEPT ![i] = Handling(g, d, p)]
    <3>1. CASE RunnerStep
      <4>1. 0 \in 0..Slots
        BY DirMonitorAssumption DEF DirMonitorAssumption
      <4>2. \A r \in runners : r.gen \in Nat /\ r.delete \in BOOLEAN
        BY DEF DirType, Serving, Watchers
      <4>. PICK r \in runners : \/ Run(r) \/ Scan(r) \/ ScanEnd(r) \/ Exit(r)
                                \/ \E p \in Paths : Notice(r, p) \/ ScanEntry(r, p)
        BY <3>1 DEF RunnerStep
      <4>3. CASE \E p \in Paths : ScanEntry(r, p)
        <5>. PICK p \in Paths : ScanEntry(r, p)
          BY <4>3
        <5>1. task' = task \/ task' = [task EXCEPT ![0] = Handling(r.gen, r.delete, p)]
          BY DEF ScanEntry
        <5>2. r.gen \in Nat /\ r.delete \in BOOLEAN /\ p \in Paths
          BY <4>2
        <5>. QED  BY <4>1, <5>1, <5>2, Zenon
      <4>4. CASE \E p \in Paths : Notice(r, p)
        BY <4>4 DEF Notice
      <4>5. CASE Run(r) \/ Scan(r) \/ ScanEnd(r) \/ Exit(r)
        BY <4>5 DEF Run, Scan, ScanEnd, Exit
      <4>. QED  BY <4>3, <4>4, <4>5
    <3>2. CASE TimerStep
      <4>1. \A t \in timers : t.gen \in Nat /\ t.delete \in BOOLEAN /\ t.path \in Paths
        BY DEF DirType, Timed, Timers
      <4>2. 1..Slots \subseteq 0..Slots
        BY DirMonitorAssumption DEF DirMonitorAssumption
      <4>. QED  BY <3>2, <4>1, <4>2 DEF TimerStep, Expire, Callback
    <3>. QED  BY <1>2, <3>1, <3>2
  <2>3. \A g \in Nat, d \in BOOLEAN, p \in Paths : Handling(g, d, p) \in Tasks /\ Knows(Handling(g, d, p))
    BY DEF Handling, Tasks, Knows
  <2>4. Knowing' /\ task' \in [0..Slots -> {NoTask} \union Tasks]
    <3>1. CASE task' = task
      BY <1>0, <2>1, <3>1 DEF Knowing, Knows
    <3>2. CASE task' # task
      BY <2>1, <2>2, <2>3, <3>2, TaskSet
    <3>. QED  BY <3>1, <3>2
  <2>. QED  BY <1>0, <2>1, <2>4 DEF Called, OneCallEach, RemovedIsCalled
<1>3. CASE Restart
  <2>1. /\ task' = [i \in 0..Slots |-> NoTask] /\ failed' = Files /\ UNCHANGED <<disk, calls>>
    BY <1>3 DEF Restart
  <2>. QED  BY <1>0, <2>1, FreeTasks DEF Called, Knowing, Knows, OneCallEach, RemovedIsCalled
<1>4. CASE (\E new \in Rows : Save(new)) \/ DirMonitorsDelete \/ Stop \/ Start \/ UNCHANGED dvars
  <2>1. UNCHANGED <<disk, task, calls, failed>>
    BY <1>4 DEF Save, DirMonitorsDelete, Stop, Start, dvars
  <2>. QED  BY <1>0, <2>1 DEF Called, Knowing, Knows, OneCallEach, RemovedIsCalled
<1>. QED  BY <1>1, <1>2, <1>3, <1>4 DEF DNext

-----------------------------------------------------------------------------

MonitorIInv == DirType /\ OneWatcher /\ AsSaved /\ Shown /\ Knowing /\ OneCallEach /\ RemovedIsCalled

\* However many recordings there are, and however often the recorder writes to
\* them, the admin saves and the process restarts: no monitor runs twice, or
\* otherwise than its row says, each handling knows of the calls it compares
\* with, and nothing is removed that is not a call (runDirMonitor, Reload,
\* ingestCall).
THEOREM MonitorsAreKept == DSpec => []MonitorIInv
<1>1. DInit => MonitorIInv
  <2>. SUFFICES ASSUME DInit PROVE MonitorIInv
    OBVIOUS
  <2>1. DirType
    BY DirTypeInit
  <2>2. OneWatcher /\ AsSaved /\ Shown
    BY DEF DInit, OneWatcher, AsSaved, Shown
  <2>3. Knowing /\ OneCallEach /\ RemovedIsCalled
    BY FreeTasks DEF DInit, Knowing, Knows, OneCallEach, RemovedIsCalled
  <2>. QED  BY <2>1, <2>2, <2>3 DEF MonitorIInv
<1>2. MonitorIInv /\ [DNext]_dvars => MonitorIInv'
  <2>. SUFFICES ASSUME MonitorIInv, [DNext]_dvars PROVE MonitorIInv'
    OBVIOUS
  <2>. USE DEF MonitorIInv
  <2>1. Admined' /\ Serving' /\ Timed' /\ OneWatcher' /\ AsSaved' /\ Shown'
    BY AdminedStep, ServingStep, TimedStep, OneWatcherStep
  <2>2. Called' /\ Knowing' /\ OneCallEach' /\ RemovedIsCalled'
    <3>1. CASE \E i \in 0..Slots : TaskStep(i)
      BY <3>1, TaskKeeps
    <3>2. CASE ~\E i \in 0..Slots : TaskStep(i)
      BY <3>2, OthersKeep
    <3>. QED  BY <3>1, <3>2
  <2>. QED  BY <2>1, <2>2 DEF DirType
<1>. QED  BY <1>1, <1>2, PTL DEF DSpec

\* Whatever saves wait for each other, a monitor runs as its row says, once,
\* and the admin is shown what it does (Reload, Stopped and Running).
THEOREM MonitorsAreAsSaved == DSpec => []MonitorIsAsSaved
<1>1. MonitorIInv => MonitorIsAsSaved
  <2>. SUFFICES ASSUME MonitorIInv PROVE MonitorIsAsSaved
    OBVIOUS
  <2>. USE DEF MonitorIInv, DirType
  <2>1. \A i \in 0..Slots : task[i].pc \in {"free", "parse", "check", "insert", "delete"}
    BY FreeTasks DEF Called, Tasks
  <2>2. \A r \in runners : r.gen \in 1..gen /\ r.pc \in {"start", "on", "scan"}
    BY DEF Serving, OneWatcher, Watchers
  <2>3. pending \in 0..MaxEdits
    BY DirMonitorAssumption DEF Admined, DirMonitorAssumption
  <2>4. DTypeOK
    BY <2>1, <2>2, <2>3 DEF DTypeOK, Admined, Serving, Timed, Called, OnDisk
  <2>. QED  BY <2>4 DEF MonitorIsAsSaved, OneWatcher, AsSaved, Shown
<1>. QED  BY <1>1, MonitorsAreKept, PTL

\* Two calls of one recording are of two of its handlings that did not see
\* each other, or of two versions of the file, or the check failed
\* (IsDuplicate).
THEOREM RecordingsAreCalledOnce == DSpec => []OneCallEach
BY MonitorsAreKept, PTL DEF MonitorIInv

\* A recording is removed only when it has become a call (DeleteAfter).
THEOREM RemovedAreCalls == DSpec => []RemovedIsCalled
BY MonitorsAreKept, PTL DEF MonitorIInv

=============================================================================
