------------------------- MODULE IMUGPSFusionKFProofs -------------------------
(***************************************************************************)
(* Proofs about IMUGPSFusionKF: for every depth and period of the windows  *)
(* and every mixture of steps, a window is the sensor's last N residuals,  *)
(* and the measurement noise that of the window at the latest L-th push.   *)
(***************************************************************************)
EXTENDS IMUGPSFusionKF, SequenceTheorems, TLAPS

(* Length and entries of what LastOf keeps. *)
LEMMA LastOfProperties ==
  ASSUME NEW T, NEW q \in Seq(T), NEW n \in Nat
  PROVE  /\ LastOf(q, n) \in Seq(T)
         /\ Len(LastOf(q, n)) = IF Len(q) <= n THEN Len(q) ELSE n
         /\ Len(q) > n =>
              \A i \in 1..n : LastOf(q, n)[i] = q[Len(q) - n + i]
<1>1. Len(q) \in Nat
  BY LenProperties
<1>2. CASE Len(q) <= n
  BY <1>1, <1>2 DEF LastOf
<1>3. CASE Len(q) > n
  <2>1. Len(q) - n + 1 \in 1..Len(q)+1 /\ Len(q) \in Len(q)-n..Len(q)
    BY <1>1, <1>3
  <2>2. LastOf(q, n) = SubSeq(q, Len(q) - n + 1, Len(q))
    BY <1>1, <1>3 DEF LastOf
  <2>3. /\ SubSeq(q, Len(q) - n + 1, Len(q)) \in Seq(T)
        /\ Len(SubSeq(q, Len(q) - n + 1, Len(q))) = n
    BY <1>1, <1>3, <2>1, SubSeqProperties
  <2>4. \A i \in 1..n : SubSeq(q, Len(q) - n + 1, Len(q))[i] = q[Len(q) - n + i]
    BY <1>1, <1>3, <2>1, SubSeqProperties
  <2>. QED BY <1>1, <1>3, <2>2, <2>3, <2>4
<1>. QED BY <1>1, <1>2, <1>3

(* Dropping the oldest entry for a new one. *)
LEMMA SlideProperties ==
  ASSUME NEW T, NEW w \in Seq(T), NEW n \in Nat, n # 0, Len(w) = n, NEW r \in T
  PROVE  /\ Append(Tail(w), r) \in Seq(T) /\ Len(Append(Tail(w), r)) = n
         /\ Append(Tail(w), r)[n] = r
         /\ \A i \in 1..n-1 : Append(Tail(w), r)[i] = w[i + 1]
<1>1. w # << >>
  BY EmptySeq
<1>2. /\ Tail(w) \in Seq(T) /\ Len(Tail(w)) = n - 1
      /\ \A i \in 1..n-1 : Tail(w)[i] = w[i + 1]
  BY <1>1, HeadTailProperties
<1>3. /\ Append(Tail(w), r) \in Seq(T)
      /\ Len(Append(Tail(w), r)) = Len(Tail(w)) + 1
      /\ \A i \in 1..Len(Tail(w)) : Append(Tail(w), r)[i] = Tail(w)[i]
      /\ Append(Tail(w), r)[Len(Tail(w)) + 1] = r
  BY <1>2, AppendProperties
<1>4. Len(Tail(w)) + 1 = n
  BY <1>2
<1>5. \A i \in 1..n-1 : Append(Tail(w), r)[i] = w[i + 1]
  BY <1>2, <1>3
<1>. QED BY <1>3, <1>4, <1>5

(* One more residual: the window grows until it is full, then it slides.   *)
LEMMA LastOfAppend ==
  ASSUME NEW T, NEW q \in Seq(T), NEW n \in Nat, n # 0, NEW r \in T
  PROVE  LastOf(Append(q, r), n) =
           IF Len(LastOf(q, n)) >= n
           THEN Append(Tail(LastOf(q, n)), r)
           ELSE Append(LastOf(q, n), r)
<1>1. /\ Len(q) \in Nat /\ Append(q, r) \in Seq(T) /\ Len(Append(q, r)) = Len(q) + 1
      /\ \A i \in 1..Len(q) : Append(q, r)[i] = q[i]
      /\ Append(q, r)[Len(q) + 1] = r
  BY LenProperties, AppendProperties
<1>2. CASE Len(q) < n
  <2>1. LastOf(q, n) = q /\ LastOf(Append(q, r), n) = Append(q, r)
    BY <1>1, <1>2 DEF LastOf
  <2>. QED BY <1>1, <1>2, <2>1
<1>3. CASE Len(q) >= n
  <2> DEFINE w == LastOf(q, n)
             new == LastOf(Append(q, r), n)
             k == Len(q) - n
  <2>1. w \in Seq(T) /\ Len(w) = n
    BY <1>1, <1>3, LastOfProperties
  <2>2. \A i \in 1..n : w[i] = q[k + i]
    <3>1. CASE Len(q) = n
      BY <1>1, <3>1 DEF LastOf
    <3>2. CASE Len(q) > n
      BY <3>2, LastOfProperties
    <3>. QED BY <1>1, <1>3, <3>1, <3>2
  <2>3. /\ new \in Seq(T) /\ Len(new) = n
        /\ \A i \in 1..n : new[i] = Append(q, r)[Len(Append(q, r)) - n + i]
    <3>1. Len(Append(q, r)) > n
      BY <1>1, <1>3
    <3>2. ASSUME NEW a \in Seq(T), Len(a) > n
          PROVE  /\ LastOf(a, n) \in Seq(T) /\ Len(LastOf(a, n)) = n
                 /\ \A i \in 1..n : LastOf(a, n)[i] = a[Len(a) - n + i]
      <4>1. ~(Len(a) <= n)
        BY <3>2, LenProperties
      <4>. QED BY <3>2, <4>1, LastOfProperties
    <3>. QED BY <1>1, <3>1, <3>2
  <2>4. k \in Nat /\ Len(q) = k + n
    BY <1>1, <1>3
  <2>5. \A i \in 1..n : new[i] = Append(q, r)[k + i + 1]
    <3>1. ASSUME NEW i \in 1..n PROVE Len(Append(q, r)) - n + i = k + i + 1
      BY <1>1, <2>4
    <3>. QED BY <2>3, <3>1
  <2> HIDE DEF k, new, w
  <2>6. new[n] = r
    BY <1>1, <2>4, <2>5
  <2>7. ASSUME NEW i \in 1..n-1 PROVE new[i] = w[i + 1]
    <3>1. i \in 1..n /\ i + 1 \in 1..n /\ k + i + 1 \in 1..Len(q)
      BY <2>4
    <3>2. new[i] = q[k + i + 1]
      BY <1>1, <2>5, <3>1
    <3>3. w[i + 1] = q[k + (i + 1)]
      BY <2>2, <3>1
    <3>. QED BY <2>4, <3>2, <3>3
  <2>8. new = Append(Tail(w), r)
    <3>1. /\ Append(Tail(w), r) \in Seq(T) /\ Len(Append(Tail(w), r)) = n
          /\ Append(Tail(w), r)[n] = r
          /\ \A i \in 1..n-1 : Append(Tail(w), r)[i] = w[i + 1]
      BY <2>1, SlideProperties
    <3>2. \A i \in 1..n : new[i] = Append(Tail(w), r)[i]
      BY <2>6, <2>7, <3>1
    <3>. QED BY <2>3, <3>1, <3>2, SeqEqual
  <2>. QED BY <2>1, <2>8 DEF w, new
<1>. QED BY <1>1, <1>2, <1>3

-----------------------------------------------------------------------------
(* The filter.                                                             *)

(* The windows are recent, and everything is well typed.                   *)
Typed ==
  /\ depth \in [Sensors -> Nat] /\ steps \in Nat
  /\ queue \in [Sensors -> Seq(Nat)] /\ pushed \in [Sensors -> Seq(Nat)]

Recent == Typed /\ WindowIsRecent

(* No residuals, no window.                                                *)
LEMMA EmptyWindows ==
  ASSUME NEW d \in [Sensors -> Nat], NEW s \in Sensors
  PROVE  LastOf(<<>>, d[s]) = <<>>
  BY EmptySeq DEF LastOf

LEMMA NothingOfNone ==
  ASSUME NEW q \in Seq(Nat)
  PROVE  LastOf(q, 0) = <<>>
<1>1. Len(q) \in Nat
  BY LenProperties
<1>2. LastOf(q, 0) \in Seq(Nat) /\ Len(LastOf(q, 0)) = 0
  BY <1>1, LastOfProperties
<1>. QED BY <1>2, EmptySeq

LEMMA RecentInit == Init => Recent
<1> SUFFICES ASSUME Init PROVE Recent
  OBVIOUS
<1>1. Typed
  BY FilterAssumption, EmptySeq DEF Init, Typed
<1>2. \A s \in Sensors : queue[s] = LastOf(pushed[s], depth[s])
  BY <1>1, EmptyWindows DEF Init, Typed
<1>. QED BY <1>1, <1>2 DEF Recent, WindowIsRecent

LEMMA PushKeepsRecent ==
  ASSUME Recent, NEW used \in SUBSET Sensors, NEW r \in Nat, PushInnovation(used, r),
         steps' \in Nat
  PROVE  Recent'
<1>1. UNCHANGED depth
  BY DEF PushInnovation
<1>2. ASSUME NEW s \in Sensors
      PROVE  /\ queue[s] \in Seq(Nat) /\ pushed[s] \in Seq(Nat) /\ depth[s] \in Nat
             /\ queue[s] = LastOf(pushed[s], depth[s])
             /\ queue'[s] = IF s \in used /\ depth[s] # 0 THEN Slide(s, r) ELSE queue[s]
             /\ pushed'[s] = IF s \in used THEN Append(pushed[s], r) ELSE pushed[s]
  BY DEF Recent, Typed, WindowIsRecent, PushInnovation
<1>3. ASSUME NEW s \in Sensors PROVE pushed'[s] \in Seq(Nat)
  <2>1. pushed[s] \in Seq(Nat)
    BY <1>2, <1>3
  <2>2. Append(pushed[s], r) \in Seq(Nat)
    BY <2>1, AppendProperties
  <2>. QED BY <1>2, <1>3, <2>1, <2>2
<1>4. ASSUME NEW s \in Sensors PROVE queue'[s] = LastOf(pushed'[s], depth[s])
  <2>1. CASE s \notin used
    BY <1>2, <2>1
  <2>2. CASE s \in used /\ depth[s] = 0
    BY <1>2, <1>3, <2>2, NothingOfNone
  <2>3. CASE s \in used /\ depth[s] # 0
    <3>1. LastOf(Append(pushed[s], r), depth[s]) =
            IF Len(LastOf(pushed[s], depth[s])) >= depth[s]
            THEN Append(Tail(LastOf(pushed[s], depth[s])), r)
            ELSE Append(LastOf(pushed[s], depth[s]), r)
      <4>1. pushed[s] \in Seq(Nat) /\ depth[s] \in Nat /\ depth[s] # 0
        BY <1>2, <1>4, <2>3
      <4>. QED BY <4>1, LastOfAppend
    <3>. QED BY <1>2, <2>3, <3>1 DEF Slide, Full
  <2>. QED BY <2>1, <2>2, <2>3
<1>5. ASSUME NEW s \in Sensors PROVE queue'[s] \in Seq(Nat)
  BY <1>2, <1>3, <1>4, LastOfProperties
<1>6. queue' \in [Sensors -> Seq(Nat)] /\ pushed' \in [Sensors -> Seq(Nat)]
  <2>1. queue' = [s \in Sensors |-> queue'[s]] /\ pushed' = [s \in Sensors |-> pushed'[s]]
    BY DEF PushInnovation
  <2>. QED BY <2>1, <1>3, <1>5
<1>. QED BY <1>1, <1>4, <1>6 DEF Recent, Typed, WindowIsRecent

LEMMA RecentStep == Recent /\ [Next]_vars => Recent'
<1> SUFFICES ASSUME Recent, [Next]_vars PROVE Recent'
  OBVIOUS
<1>1. ASSUME NEW used \in SUBSET Sensors, NEW c, Step(used, c) PROVE Recent'
  <2>1. steps' \in Nat
    BY <1>1 DEF Step, Recent, Typed
  <2>. QED BY <1>1, <2>1, PushKeepsRecent DEF Step
<1>2. CASE StepImu
  BY <1>1, <1>2 DEF StepImu, Sensors
<1>3. CASE StepGpsImu
  BY <1>1, <1>3 DEF StepGpsImu
<1>4. CASE Clean
  <2>1. Typed'
    BY <1>4, EmptySeq DEF Clean, Recent, Typed
  <2>2. \A s \in Sensors : queue'[s] = LastOf(pushed'[s], depth'[s])
    BY <1>4, <2>1, EmptyWindows DEF Clean, Typed
  <2>. QED BY <2>1, <2>2 DEF Recent, WindowIsRecent
<1>5. ASSUME NEW n \in [Sensors -> Depths], NEW l \in [Sensors -> Periods], Construct(n, l)
      PROVE  Recent'
  <2>1. Typed'
    BY <1>5, EmptySeq, FilterAssumption DEF Construct, Typed
  <2>2. \A s \in Sensors : queue'[s] = LastOf(pushed'[s], depth'[s])
    BY <1>5, <2>1, EmptyWindows DEF Construct, Typed
  <2>. QED BY <2>1, <2>2 DEF Recent, WindowIsRecent
<1>6. CASE UNCHANGED vars
  BY <1>6 DEF vars, windows, Recent, Typed, WindowIsRecent
<1>. QED BY <1>2, <1>3, <1>4, <1>5, <1>6 DEF Next

(* However the steps with and without a fix alternate, each window holds   *)
(* the last N residuals of its sensor, in order, for every N and L.        *)
THEOREM RecentWindows == Spec => []WindowIsRecent
<1>1. Recent => WindowIsRecent
  BY DEF Recent
<1>. QED BY <1>1, RecentInit, RecentStep, PTL DEF Spec

-----------------------------------------------------------------------------
(* The measurement noise.                                                  *)

(* A quotient, from the division it is the result of. *)
LEMMA Quotient ==
  ASSUME NEW m \in Nat, NEW l \in Nat, l > 0, NEW j \in 0..l-1
  PROVE  (m * l + j) \div l = m
  OBVIOUS

(* Part of a history does not change when the history grows. *)
LEMMA PartOfAppend ==
  ASSUME NEW T, NEW q \in Seq(T), NEW r \in T, NEW a \in 1..Len(q), NEW b \in 1..Len(q)
  PROVE  SubSeq(Append(q, r), a, b) = SubSeq(q, a, b)
<1>1. <<r>> \in Seq(T) /\ Append(q, r) = q \o <<r>>
  BY AppendIsConcat
<1>. QED BY <1>1, SubSeqOfConcat1

(* The counter of a sensor: zero until its window is full, then running    *)
(* from one to the period and over again.                                  *)
Rhythm(s) ==
  depth[s] # 0 =>
    /\ FullPushes(s) <= 0 => since[s] = 0
    /\ FullPushes(s) > 0 /\ period[s] > 0 =>
         /\ since[s] \in 1..period[s]
         /\ \E m \in Nat : FullPushes(s) = m * period[s] + since[s]

NoiseOf(s) ==
  noise[s] = IF depth[s] = 0 \/ FullPushes(s) <= period[s] THEN <<>>
             ELSE SubSeq(pushed[s], LastDue(s) + 1, LastDue(s) + depth[s])

Adapted ==
  /\ Recent /\ period \in [Sensors -> Nat] /\ since \in [Sensors -> Nat]
  /\ \A s \in Sensors : Rhythm(s) /\ NoiseOf(s)

(* The latest update is as many full pushes back as the counter tells. *)
LEMMA LastDueIs ==
  ASSUME NEW s \in Sensors, Adapted, depth[s] # 0, FullPushes(s) > 0, period[s] > 0
  PROVE  /\ LastDue(s) = FullPushes(s) - since[s] + 1
         /\ LastDue(s) \in 1..FullPushes(s)
<1>1. PICK m \in Nat : FullPushes(s) = m * period[s] + since[s]
  BY DEF Adapted, Rhythm
<1>2. /\ period[s] \in Nat /\ since[s] \in 1..period[s] /\ m * period[s] \in Nat
      /\ since[s] - 1 \in 0..period[s]-1
  BY <1>1 DEF Adapted, Rhythm
<1>3. (m * period[s] + (since[s] - 1)) \div period[s] = m
  BY <1>2, Quotient
<1>4. FullPushes(s) - 1 = m * period[s] + (since[s] - 1)
  BY <1>1, <1>2
<1>5. LastDue(s) = m * period[s] + 1
  BY <1>2, <1>3, <1>4 DEF LastDue
<1>. QED BY <1>1, <1>2, <1>5

(* The arithmetic of the counter c after f full pushes with period l: what *)
(* holds after one more of them.                                           *)
InRhythm(f, l, c) ==
  /\ f <= 0 => c = 0
  /\ f > 0 /\ l > 0 => c \in 1..l /\ \E m \in Nat : f = m * l + c

LEMMA RestartInRhythm ==
  ASSUME NEW f \in Nat, NEW l \in Nat, NEW c \in Nat, InRhythm(f, l, c), c >= l
  PROVE  /\ InRhythm(f + 1, l, 1)
         /\ f + 1 > l
         /\ l > 0 => (f \div l) * l = f
<1>1. CASE l = 0
  BY <1>1 DEF InRhythm
<1>2. CASE l > 0
  <2>1. f > 0
    BY <1>2 DEF InRhythm
  <2>2. PICK m \in Nat : f = m * l + c
    BY <1>2, <2>1 DEF InRhythm
  <2>3. c = l
    BY <1>2, <2>1 DEF InRhythm
  <2>4. m + 1 \in Nat /\ (m + 1) * l = m * l + l /\ m * l \in Nat /\ 0 \in 0..l-1
    BY <1>2
  <2>5. f = (m + 1) * l /\ f + 1 = (m + 1) * l + 1 /\ f >= l /\ (m + 1) * l + 0 = f
    BY <2>2, <2>3, <2>4
  <2>6. f \div l = m + 1
    <3>1. ((m + 1) * l + 0) \div l = m + 1
      BY <1>2, <2>4, Quotient
    <3>. QED BY <2>5, <3>1
  <2>7. ~(f + 1 <= 0) /\ 1 \in 1..l
    BY <1>2
  <2>8. InRhythm(f + 1, l, 1)
    BY <2>4, <2>5, <2>7 DEF InRhythm
  <2>. QED BY <2>5, <2>6, <2>8
<1>. QED BY <1>1, <1>2

LEMMA CountInRhythm ==
  ASSUME NEW f \in Nat, NEW l \in Nat, NEW c \in Nat, InRhythm(f, l, c), c < l
  PROVE  /\ InRhythm(f + 1, l, c + 1)
         /\ f # l
         /\ (f \div l) * l = f - c
<1>1. PICK m \in Nat : f = m * l + c
  <2>1. CASE f = 0
    <3>1. c = 0 /\ 0 = 0 * l + 0
      BY <2>1 DEF InRhythm
    <3>. QED BY <2>1, <3>1
  <2>2. CASE f > 0
    BY <2>2 DEF InRhythm
  <2>. QED BY <2>1, <2>2
<1>2. c \in 0..l-1 /\ c + 1 \in 1..l /\ l > 0 /\ m * l \in Nat
  OBVIOUS
<1>3. f \div l = m
  <2>1. (m * l + c) \div l = m
    BY <1>2, Quotient
  <2>. QED BY <1>1, <2>1
<1>4. (f \div l) * l = f - c
  BY <1>1, <1>2, <1>3
<1>5. InRhythm(f + 1, l, c + 1)
  <2>1. f + 1 = m * l + (c + 1) /\ ~(f + 1 <= 0)
    BY <1>1, <1>2
  <2>. QED BY <1>2, <2>1 DEF InRhythm
<1>6. f # l
  <2>1. SUFFICES ASSUME f = l PROVE FALSE
    OBVIOUS
  <2>2. c >= 1
    BY <1>2, <2>1 DEF InRhythm
  <2>3. CASE m = 0
    BY <1>1, <1>2, <2>1, <2>3
  <2>4. CASE m > 0
    <3>1. m - 1 \in Nat
      BY <2>4
    <3>2. (m - 1) * l \in Nat /\ m * l = (m - 1) * l + l
      BY <3>1
    <3>. QED BY <1>1, <1>2, <2>1, <2>2, <3>2
  <2>. QED BY <2>3, <2>4
<1>. QED BY <1>4, <1>5, <1>6

(* The same conditions, of a sensor whose window has a depth. *)
LEMMA RhythmIs ==
  ASSUME NEW s \in Sensors, depth[s] # 0
  PROVE  /\ Rhythm(s) <=> InRhythm(FullPushes(s), period[s], since[s])
         /\ NoiseOf(s) <=>
              IF FullPushes(s) <= period[s] THEN noise[s] = <<>>
              ELSE noise[s] = SubSeq(pushed[s], LastDue(s) + 1, LastDue(s) + depth[s])
BY DEF Rhythm, InRhythm, NoiseOf

LEMMA RhythmIsNext ==
  ASSUME NEW s \in Sensors, depth'[s] # 0
  PROVE  /\ Rhythm(s)' <=> InRhythm(FullPushes(s)', period'[s], since'[s])
         /\ NoiseOf(s)' <=>
              IF FullPushes(s)' <= period'[s] THEN noise'[s] = <<>>
              ELSE noise'[s] = SubSeq(pushed'[s], LastDue(s)' + 1, LastDue(s)' + depth'[s])
BY DEF Rhythm, InRhythm, NoiseOf

(* What a push does to the sensor's window, in full pushes. *)
Moved(s, r, d, f, l, c) ==
  /\ d = depth[s] /\ f = FullPushes(s) /\ l = period[s] /\ c = since[s]
  /\ d \in Nat /\ d # 0 /\ l \in Nat /\ c \in Nat /\ f \in Int
  /\ pushed[s] \in Seq(Nat) /\ Len(pushed[s]) = f + d
  /\ depth'[s] = d /\ period'[s] = l /\ FullPushes(s)' = f + 1
  /\ pushed'[s] = Append(pushed[s], r)
  /\ IF f >= 0 /\ c >= l
     THEN noise'[s] = SubSeq(pushed'[s], f + 2, f + 1 + d) /\ since'[s] = 1
     ELSE noise'[s] = noise[s] /\ since'[s] = IF f >= 0 THEN c + 1 ELSE c

LEMMA PushMoves ==
  ASSUME Adapted, Recent', NEW used \in SUBSET Sensors, NEW r \in Nat, PushInnovation(used, r),
         NEW s \in used, depth[s] # 0
  PROVE  \E d, f, l, c : Moved(s, r, d, f, l, c)
<1>1. PICK d, f, l, c : d = depth[s] /\ f = FullPushes(s) /\ l = period[s] /\ c = since[s]
  OBVIOUS
<1>2. s \in Sensors /\ d \in Nat /\ d # 0 /\ l \in Nat /\ c \in Nat
  BY <1>1 DEF Adapted, Recent, Typed
<1>3. pushed[s] \in Seq(Nat) /\ Len(pushed[s]) \in Nat
  BY <1>2, LenProperties DEF Adapted, Recent, Typed
<1>4. f \in Int /\ Len(pushed[s]) = f + d
  BY <1>1, <1>2, <1>3 DEF FullPushes
<1>5. pushed'[s] = Append(pushed[s], r)
  BY <1>2 DEF PushInnovation
<1>6. depth'[s] = d /\ period'[s] = l
  BY <1>1 DEF PushInnovation
<1>7. Len(pushed'[s]) = f + d + 1
  BY <1>4, <1>3, <1>5, AppendProperties
<1>8. FullPushes(s)' = f + 1
  <2>1. FullPushes(s)' = Len(pushed'[s]) - depth'[s]
    BY DEF FullPushes
  <2>2. f + d + 1 - d = f + 1
    BY <1>2, <1>4
  <2>. QED BY <1>2, <1>4, <1>6, <1>7, <2>1, <2>2
<1>9. Full(s) <=> f >= 0
  <2>1. queue[s] = LastOf(pushed[s], d)
    BY <1>1, <1>2 DEF Adapted, Recent, WindowIsRecent
  <2>2. Len(LastOf(pushed[s], d)) = IF Len(pushed[s]) <= d THEN Len(pushed[s]) ELSE d
    BY <1>2, <1>3, LastOfProperties
  <2>. QED BY <1>1, <1>2, <1>4, <2>1, <2>2 DEF Full
<1>10. Due(s) <=> f >= 0 /\ c >= l
  BY <1>1, <1>9 DEF Due
<1>11. queue'[s] = LastOf(pushed'[s], d)
  BY <1>2, <1>6 DEF Recent, WindowIsRecent
<1>12. CASE f >= 0 /\ c >= l
  <2>1. noise'[s] = queue'[s] /\ since'[s] = 1
    BY <1>2, <1>9, <1>10, <1>12 DEF PushInnovation, Counted
  <2>2. PICK n : n = f + d + 1
    OBVIOUS
  <2>3. ~(n <= d) /\ (n - d) + 1 = f + 2 /\ n = f + 1 + d
    BY ONLY <1>2, <1>4, <1>12, <2>2
  <2>4. queue'[s] = SubSeq(pushed'[s], f + 2, f + 1 + d)
    <3>1. LastOf(pushed'[s], d) =
            IF Len(pushed'[s]) <= d THEN pushed'[s]
            ELSE SubSeq(pushed'[s], (Len(pushed'[s]) - d) + 1, Len(pushed'[s]))
      BY DEF LastOf
    <3>2. LastOf(pushed'[s], d) = IF n <= d THEN pushed'[s] ELSE SubSeq(pushed'[s], (n - d) + 1, n)
      BY ONLY <1>7, <2>2, <3>1
    <3>. QED BY ONLY <1>11, <2>3, <3>2
  <2>5. noise'[s] = SubSeq(pushed'[s], f + 2, f + 1 + d) /\ since'[s] = 1
    BY <2>1, <2>4
  <2>6. f >= 0 /\ c >= l
    BY <1>12
  <2>. QED BY ONLY <1>1, <1>2, <1>4, <1>3, <1>6, <1>5, <1>8, <2>5, <2>6 DEF Moved
<1>13. CASE ~(f >= 0 /\ c >= l)
  <2>1. noise'[s] = noise[s]
    BY <1>2, <1>10, <1>13 DEF PushInnovation
  <2>2. since'[s] = IF Full(s) THEN Counted(s) ELSE since[s]
    BY <1>2 DEF PushInnovation
  <2>3. since'[s] = IF f >= 0 THEN c + 1 ELSE c
    BY <1>1, <1>9, <1>10, <1>13, <2>2 DEF Counted
  <2>. QED BY ONLY <1>1, <1>2, <1>4, <1>3, <1>6, <1>5, <1>8, <1>13, <2>1, <2>3 DEF Moved
<1>. QED BY <1>12, <1>13

(* A sensor whose residual is pushed. *)
LEMMA PushAdapts ==
  ASSUME Adapted, Recent', NEW used \in SUBSET Sensors, NEW r \in Nat, PushInnovation(used, r),
         NEW s \in used, depth[s] # 0
  PROVE  since'[s] \in Nat /\ Rhythm(s)' /\ NoiseOf(s)'
<1>1. PICK d, f, l, c : Moved(s, r, d, f, l, c)
  BY PushMoves
<1>2. /\ d = depth[s] /\ f = FullPushes(s) /\ l = period[s] /\ c = since[s]
      /\ d \in Nat /\ d # 0 /\ l \in Nat /\ c \in Nat /\ f \in Int
      /\ pushed[s] \in Seq(Nat) /\ Len(pushed[s]) = f + d
      /\ depth'[s] = d /\ period'[s] = l /\ FullPushes(s)' = f + 1
      /\ pushed'[s] = Append(pushed[s], r)
      /\ IF f >= 0 /\ c >= l
         THEN noise'[s] = SubSeq(pushed'[s], f + 2, f + 1 + d) /\ since'[s] = 1
         ELSE noise'[s] = noise[s] /\ since'[s] = IF f >= 0 THEN c + 1 ELSE c
  BY <1>1 DEF Moved
<1>3. s \in Sensors /\ Rhythm(s) /\ NoiseOf(s)
  BY DEF Adapted
<1>4. /\ InRhythm(f, l, c)
      /\ IF f <= l THEN noise[s] = <<>>
         ELSE noise[s] = SubSeq(pushed[s], LastDue(s) + 1, LastDue(s) + d)
  BY <1>2, <1>3, RhythmIs
<1>5. /\ Rhythm(s)' <=> InRhythm(f + 1, l, since'[s])
      /\ NoiseOf(s)' <=>
           IF f + 1 <= l THEN noise'[s] = <<>>
           ELSE noise'[s] = SubSeq(pushed'[s], LastDue(s)' + 1, LastDue(s)' + d)
  BY <1>2, <1>3, RhythmIsNext
<1>6. LastDue(s)' = IF l = 0 THEN f + 1 ELSE (f \div l) * l + 1
  <2>1. LastDue(s)' = IF period'[s] = 0 THEN FullPushes(s)'
                      ELSE ((FullPushes(s)' - 1) \div period'[s]) * period'[s] + 1
    BY DEF LastDue
  <2>2. f + 1 - 1 = f
    BY <1>2
  <2>. QED BY <1>2, <2>1, <2>2
<1>7. CASE f < 0
  <2>1. c = 0 /\ f + 1 <= 0 /\ ~(f + 1 > 0) /\ f + 1 <= l /\ f <= l /\ ~(f >= 0)
    <3>1. f \in Int /\ l \in Nat /\ f < 0 /\ InRhythm(f, l, c)
      BY <1>2, <1>4, <1>7
    <3>. QED BY ONLY <3>1 DEF InRhythm
  <2>2. since'[s] = 0 /\ noise'[s] = <<>>
    BY <1>2, <1>4, <2>1
  <2>3. InRhythm(f + 1, l, 0)
    BY <2>1 DEF InRhythm
  <2>. QED BY <1>5, <2>1, <2>2, <2>3
<1>8. CASE f >= 0 /\ c >= l
  <2>1. f \in Nat
    BY <1>2, <1>8
  <2>2. InRhythm(f + 1, l, 1) /\ f + 1 > l /\ (l > 0 => (f \div l) * l = f)
    BY <1>2, <1>4, <1>8, <2>1, RestartInRhythm
  <2>3. LastDue(s)' = f + 1 /\ f + 1 + 1 = f + 2 /\ ~(f + 1 <= l)
    <3>1. LastDue(s)' = f + 1
      <4>1. l = 0 \/ (l # 0 /\ (f \div l) * l = f)
        BY <1>2, <2>2
      <4>. QED BY <1>6, <4>1
    <3>2. f \in Nat /\ l \in Nat
      BY <1>2, <2>1
    <3>. QED BY <2>2, <3>1, <3>2
  <2>4. since'[s] = 1 /\ noise'[s] = SubSeq(pushed'[s], LastDue(s)' + 1, LastDue(s)' + d)
    BY <1>2, <1>8, <2>3
  <2>. QED BY <1>5, <2>2, <2>3, <2>4
<1>9. CASE f >= 0 /\ c < l
  <2>1. f \in Nat /\ ~(c >= l) /\ l > 0 /\ l # 0
    BY <1>2, <1>9
  <2>2. InRhythm(f + 1, l, c + 1) /\ f # l /\ (f \div l) * l = f - c
    <3>1. f \in Nat /\ l \in Nat /\ c \in Nat /\ InRhythm(f, l, c) /\ c < l
      BY <1>2, <1>4, <1>9, <2>1
    <3>. QED BY ONLY <3>1, CountInRhythm
  <2>3. since'[s] = c + 1 /\ c + 1 \in Nat /\ noise'[s] = noise[s]
    BY <1>2, <1>9, <2>1
  <2>4. CASE f + 1 <= l
    <3>1. f <= l
      BY <1>2, <2>4
    <3>. QED BY <1>4, <1>5, <2>2, <2>3, <2>4, <3>1
  <2>5. CASE f > l
    <3>1. LastDue(s) = f - c + 1 /\ LastDue(s) \in 1..f
      <4>1. FullPushes(s) > 0 /\ period[s] > 0
        BY <1>2, <2>1, <2>5
      <4>2. LastDue(s) = FullPushes(s) - since[s] + 1 /\ LastDue(s) \in 1..FullPushes(s)
        BY ONLY <1>3, <4>1, LastDueIs, Adapted, depth[s] # 0
      <4>. QED BY <1>2, <4>2
    <3>2. LastDue(s)' = LastDue(s)
      BY <1>6, <2>1, <2>2, <3>1
    <3>3. /\ LastDue(s) + 1 \in 1..Len(pushed[s]) /\ LastDue(s) + d \in 1..Len(pushed[s])
          /\ ~(f <= l) /\ ~(f + 1 <= l)
      <4>1. d \in Nat /\ f \in Nat /\ Len(pushed[s]) = f + d /\ d # 0
        BY <1>2, <2>1
      <4>2. \A e \in 1..f : e + 1 \in 1..f + d /\ e + d \in 1..f + d
        BY <4>1
      <4>3. l \in Nat
        BY <1>2
      <4>. QED BY <2>5, <3>1, <4>1, <4>2, <4>3
    <3>4. SubSeq(Append(pushed[s], r), LastDue(s) + 1, LastDue(s) + d)
            = SubSeq(pushed[s], LastDue(s) + 1, LastDue(s) + d)
      BY <1>2, <3>3, PartOfAppend
    <3>5. noise[s] = SubSeq(pushed[s], LastDue(s) + 1, LastDue(s) + d)
      BY <1>4, <3>3
    <3>6. noise'[s] = SubSeq(pushed'[s], LastDue(s)' + 1, LastDue(s)' + d)
      <4>1. noise'[s] = noise[s] /\ pushed'[s] = Append(pushed[s], r)
        BY <1>2, <2>3
      <4>. QED BY ONLY <4>1, <3>2, <3>4, <3>5, Zenon
    <3>. QED BY <1>5, <2>2, <2>3, <3>3, <3>6
  <2>6. f + 1 <= l \/ f > l
    <3>1. f \in Nat /\ l \in Nat
      BY <1>2, <2>1
    <3>. QED BY ONLY <2>2, <3>1
  <2>. QED BY <2>4, <2>5, <2>6
<1>. QED BY <1>2, <1>7, <1>8, <1>9

(* A sensor that is not used, or whose window has depth zero. *)
LEMMA OthersAdapted ==
  ASSUME Adapted, NEW used \in SUBSET Sensors, NEW r \in Nat, PushInnovation(used, r),
         NEW s \in Sensors, s \notin used \/ depth[s] = 0
  PROVE  since'[s] \in Nat /\ Rhythm(s)' /\ NoiseOf(s)'
<1>1. UNCHANGED <<depth, period>> /\ since'[s] = since[s] /\ noise'[s] = noise[s]
  BY DEF PushInnovation
<1>2. CASE depth[s] = 0
  BY <1>1, <1>2 DEF Adapted, Rhythm, NoiseOf
<1>3. CASE s \notin used
  <2>1. pushed'[s] = pushed[s]
    BY <1>3 DEF PushInnovation
  <2>. QED BY <1>1, <2>1 DEF Adapted, Rhythm, NoiseOf, FullPushes, LastDue
<1>. QED BY <1>2, <1>3

(* Without residuals the noise is the initial one. *)
LEMMA FreshAdapted ==
  ASSUME Recent', period' \in [Sensors -> Nat], since' = [s \in Sensors |-> 0],
         noise' = [s \in Sensors |-> <<>>], pushed' = [s \in Sensors |-> <<>>]
  PROVE  Adapted'
<1>1. ASSUME NEW s \in Sensors PROVE Rhythm(s)' /\ NoiseOf(s)'
  <2>1. /\ depth'[s] \in Nat /\ period'[s] \in Nat
        /\ since'[s] = 0 /\ noise'[s] = <<>> /\ Len(pushed'[s]) = 0
    BY <1>1, EmptySeq DEF Recent, Typed
  <2>2. FullPushes(s)' <= 0 /\ ~(FullPushes(s)' > 0) /\ FullPushes(s)' <= period'[s]
    BY <2>1 DEF FullPushes
  <2>. QED BY <2>1, <2>2 DEF Rhythm, NoiseOf
<1>2. since' \in [Sensors -> Nat]
  OBVIOUS
<1>. QED BY <1>1, <1>2 DEF Adapted

LEMMA AdaptedStep == Adapted /\ [Next]_vars => Adapted'
<1> SUFFICES ASSUME Adapted, [Next]_vars PROVE Adapted'
  OBVIOUS
<1>0. Recent'
  BY RecentStep DEF Adapted
<1>1. ASSUME NEW used \in SUBSET Sensors, NEW c, Step(used, c) PROVE Adapted'
  <2>1. PushInnovation(used, steps') /\ steps' \in Nat
    BY <1>1 DEF Step, Adapted, Recent, Typed
  <2>2. \A s \in Sensors : since'[s] \in Nat /\ Rhythm(s)' /\ NoiseOf(s)'
    <3> SUFFICES ASSUME NEW s \in Sensors PROVE since'[s] \in Nat /\ Rhythm(s)' /\ NoiseOf(s)'
      OBVIOUS
    <3>1. CASE s \in used /\ depth[s] # 0
      BY <1>0, <2>1, <3>1, PushAdapts
    <3>2. CASE s \notin used \/ depth[s] = 0
      BY <2>1, <3>2, OthersAdapted
    <3>. QED BY <3>1, <3>2
  <2>3. since' \in [Sensors -> Nat] /\ UNCHANGED period
    <3>1. since' = [s \in Sensors |-> since'[s]] /\ UNCHANGED period
      BY <2>1 DEF PushInnovation
    <3>. QED BY <2>2, <3>1
  <2>. QED BY <1>0, <2>2, <2>3 DEF Adapted
<1>2. CASE StepImu
  BY <1>1, <1>2 DEF StepImu, Sensors
<1>3. CASE StepGpsImu
  BY <1>1, <1>3 DEF StepGpsImu
<1>4. CASE Clean
  BY <1>0, <1>4, FreshAdapted DEF Clean
<1>5. ASSUME NEW n \in [Sensors -> Depths], NEW l \in [Sensors -> Periods], Construct(n, l)
      PROVE  Adapted'
  <2>1. period' \in [Sensors -> Nat]
    BY <1>5, FilterAssumption DEF Construct
  <2>. QED BY <1>0, <1>5, <2>1, FreshAdapted DEF Construct
<1>6. CASE UNCHANGED vars
  <2>1. UNCHANGED <<depth, period, since, queue, noise, pushed>>
    BY <1>6 DEF vars, windows
  <2>. QED BY <1>0, <2>1 DEF Adapted, Rhythm, NoiseOf, FullPushes, LastDue
<1>. QED BY <1>2, <1>3, <1>4, <1>5, <1>6 DEF Next

(* For every depth and period, the noise is the initial one until period   *)
(* + 1 residuals went into a full window, and then that of the N residuals *)
(* which were the last when the latest multiple of the period was reached  *)
(* (386-409, 427-449), whatever steps came in between.                     *)
THEOREM NoiseOfWindow == Spec => []NoiseIsOfItsWindow
<1>1. Init => Adapted
  <2> SUFFICES ASSUME Init PROVE Adapted
    OBVIOUS
  <2>1. Recent
    BY RecentInit
  <2>2. period \in [Sensors -> Nat] /\ since \in [Sensors -> Nat]
    BY FilterAssumption DEF Init
  <2>3. ASSUME NEW s \in Sensors PROVE Rhythm(s) /\ NoiseOf(s)
    <3>1. /\ depth[s] \in Nat /\ period[s] \in Nat
          /\ since[s] = 0 /\ noise[s] = <<>> /\ Len(pushed[s]) = 0
      BY <2>1, <2>2, EmptySeq DEF Init, Recent, Typed
    <3>2. FullPushes(s) <= 0 /\ ~(FullPushes(s) > 0) /\ FullPushes(s) <= period[s]
      BY <3>1 DEF FullPushes
    <3>. QED BY <3>1, <3>2 DEF Rhythm, NoiseOf
  <2>. QED BY <2>1, <2>2, <2>3 DEF Adapted
<1>2. Adapted => NoiseIsOfItsWindow
  BY DEF Adapted, NoiseOf, NoiseIsOfItsWindow
<1>. QED BY <1>1, <1>2, AdaptedStep, PTL DEF Spec

=============================================================================
