----------------------------- MODULE RideProofs -----------------------------
(***************************************************************************)
(* The parts that follow the ride and hold no lock, proved for every value *)
(* of their constants: reverse stop, the sequences of touches and the bars *)
(* of the LEDs, whose variables have the names they have in MCParts.       *)
(***************************************************************************)
EXTENDS MCParts, TLAPS

-----------------------------------------------------------------------------
(* Reverse stop.                                                           *)

(* The board waits for a motion: there is no way to go.                    *)
Waiting == target_setpoint = 0 /\ progress = Reverse!Done

\* The turn was made in the last iteration, and has taken the board nowhere.
Turned == travelled = 0 /\ current_distance = 0 /\ progress = 0

ReverseTypes ==
  /\ setpoint \in Reverse!Setpoints /\ start_setpoint \in Reverse!Setpoints
  /\ target_setpoint \in {0, Angle} /\ progress \in 0..Reverse!Done
  /\ travelled \in Int /\ current_distance \in Int /\ target_distance \in Int
  /\ held \in 0..2 /\ late \in BOOLEAN

(* Reverse stop steers the board exactly while there is a way to go.       *)
WaitingInv ==
  /\ Waiting => /\ sat # "REVERSESTOP"
                /\ target_distance = 0 /\ current_distance = 0
  /\ ~Waiting => sat = "REVERSESTOP"

(* On the way back the timer is kept at zero.                              *)
BackInv ==
  target_setpoint = 0 /\ progress < Reverse!Done
    => target_distance > 0 /\ (Turned \/ rs_timer = 0)

(* On the way down the setpoint is between the start and where the         *)
(* progress has it, and from the second iteration on the timer is no older *)
(* than the lean.                                                          *)
Aimed ==
  start_setpoint + ((target_setpoint - start_setpoint) * progress) \div Reverse!Done
LeanInv ==
  target_setpoint > 0 /\ ~late =>
    /\ progress < Reverse!Done
    /\ ~Reverse!Leaned(start_setpoint)
    /\ target_distance = start_setpoint - Angle
    /\ current_distance <= 0
    /\ start_setpoint <= setpoint /\ setpoint <= Aimed
    /\ \/ Turned
       \/ /\ ~Reverse!Leaned(setpoint) => rs_timer = 0
          /\ rs_timer <= held \/ held = 2
          /\ rs_timer <= 2

ReverseInv ==
  /\ rs_running \in BOOLEAN /\ flipped \in BOOLEAN
  /\ rs_enabled \in BOOLEAN /\ darkride \in BOOLEAN
  /\ rs_timer \in 0..Reverse!Old
  /\ rs_running /\ ~flipped => ReverseTypes /\ WaitingInv /\ BackInv /\ LeanInv

-----------------------------------------------------------------------------
(* The numbers: half of the angle is a lean, and the way is covered when   *)
(* the board has gone as far as it is long.                                *)
LEMMA Halves ==
  ASSUME Angle \in Nat \ {0}
  PROVE  /\ Angle > 0 /\ 0 \in Reverse!Setpoints /\ Angle \in Reverse!Setpoints
         /\ Reverse!Leaned(Angle) /\ ~Reverse!Leaned(0)
         /\ \A s, t \in Reverse!Setpoints :
              s <= t /\ Reverse!Leaned(s) => Reverse!Leaned(t)
BY DEF Reverse!Setpoints, Reverse!Leaned

(* A board leans back as far as the angle, and no further.                 *)
LEMMA BelowTheAngle ==
  ASSUME Angle \in Nat \ {0}, NEW s \in Reverse!Setpoints, s # Angle
  PROVE  s < Angle
BY DEF Reverse!Setpoints

(* What aging does: an age stays one, and grows by the time that passed at *)
(* most.                                                                   *)
LEMMA AgesOfReverse ==
  ASSUME NEW age \in 0..Reverse!Old, NEW d \in {0, 1}
  PROVE  /\ Reverse!Aged(age, d) \in 0..Reverse!Old
         /\ Reverse!Aged(age, d) <= age + d
BY DEF Reverse!Aged, Reverse!Old, Reverse!LeastOf

(* A timer that is kept at zero does not run out, whatever the progress    *)
(* (reverse_stop_stop, reverse_stop.c:124).                                *)
LEMMA NeverTimesOut == ASSUME NEW p \in 0..Reverse!Done PROVE ~(0 > 3 - p)
BY DEF Reverse!Done

(* A timer that runs out is at least two old.                              *)
LEMMA TimesOutLate ==
  ASSUME NEW p \in {0, 1}, NEW age \in 0..4, age > 3 - p
  PROVE  ~(age <= 1)
OBVIOUS

\* The age of the timer stays one, whatever the ride.
LEMMA TimerIsAnAge ==
  ASSUME rs_timer \in 0..Reverse!Old, NEW move, NEW fast, NEW d \in {0, 1},
         Reverse!Update(move, fast, d)
  PROVE  rs_timer' \in 0..Reverse!Old
<1>1. rs_timer' \in {0, Reverse!Aged(rs_timer, d)}
  <2> DEFINE diff == ((travelled + move) - current_distance) * Reverse!Sign(target_distance)
  <2>1. Reverse!Turn(d) => rs_timer' = Reverse!Aged(rs_timer, d)
    BY DEF Reverse!Turn
  <2>2. Reverse!Proceed(travelled + move, diff, d)
          => rs_timer' \in {0, Reverse!Aged(rs_timer, d)}
    BY Zenon DEF Reverse!Proceed
  <2>3. \/ rs_timer' = Reverse!Aged(rs_timer, d) \/ Reverse!Turn(d)
        \/ Reverse!Proceed(travelled + move, diff, d)
    BY Zenon DEF Reverse!Update
  <2> QED
    BY <2>1, <2>2, <2>3
<1> QED
  BY <1>1, AgesOfReverse DEF Reverse!Old

(* The progress of a motion is one only of a board that has gone its whole *)
(* way.                                                                    *)
LEMMA CoveredIsFar ==
  ASSUME NEW current \in Int, target_distance \in Int
  PROVE  /\ Reverse!Covered(current) \in 0..Reverse!Done
         /\ Reverse!Covered(current) = Reverse!Done
              => Reverse!Abs(current) >= Reverse!Abs(target_distance)
<1>1. CASE target_distance = 0
  BY <1>1 DEF Reverse!Covered, Reverse!Done, Reverse!Abs
<1>2. CASE target_distance # 0
  <2> DEFINE far == Reverse!Abs(current)
             m == Reverse!Abs(target_distance)
             q == (Reverse!Done * far) \div m
  <2>1. far \in Nat /\ m \in Nat \ {0}
    BY <1>2 DEF Reverse!Abs
  <2>2. Reverse!Covered(current) = Reverse!LeastOf(Reverse!Done, q)
    BY <1>2 DEF Reverse!Covered
  <2> HIDE DEF far, m
  <2>3. q \in Nat /\ (q >= 2 => far >= m)
    BY <2>1 DEF Reverse!Done
  <2> HIDE DEF q
  <2> QED
    BY <2>2, <2>3 DEF Reverse!LeastOf, Reverse!Done, far, m
<1> QED
  BY <1>1, <1>2

(* The setpoint that the progress asks for lies between the start and the  *)
(* target.                                                                 *)
LEMMA AimIsBetween ==
  ASSUME Angle \in Nat \ {0}, NEW s \in Reverse!Setpoints, NEW t \in {0, Angle},
         NEW p \in 0..2
  PROVE  /\ s + ((t - s) * p) \div 2 \in Reverse!Setpoints
         /\ p = 0 => s + ((t - s) * p) \div 2 = s
         /\ t = Angle => s <= s + ((t - s) * p) \div 2
         /\ \A q \in 0..2 : t = Angle /\ q <= p =>
              s + ((t - s) * q) \div 2 <= s + ((t - s) * p) \div 2
<1>1. p = 0 \/ p = 1 \/ p = 2
  OBVIOUS
<1>2. \A q \in 0..2 : q = 0 \/ q = 1 \/ q = 2
  OBVIOUS
<1>3. s \in 0..Angle /\ Angle \in Nat
  BY DEF Reverse!Setpoints
<1> QED
  BY <1>1, <1>2, <1>3 DEF Reverse!Setpoints

-----------------------------------------------------------------------------
(* What an update leaves, before the setpoint follows it.                  *)
LeansDown ==
  target_setpoint' > 0 /\ ~late' =>
    /\ ~Reverse!Leaned(start_setpoint')
    /\ progress' < Reverse!Done => target_distance' = start_setpoint' - Angle
    /\ current_distance' <= 0
    /\ start_setpoint' <= setpoint /\ setpoint <= Reverse!Aim
    /\ progress' = Reverse!Done => /\ sat = "REVERSESTOP"
                           /\ travelled' <= Slack - (Angle - start_setpoint')
    /\ \/ Turned' /\ (sat = "REVERSESTOP" => rs_timer' <= 1)
       \/ /\ sat = "REVERSESTOP"
          /\ ~Reverse!Leaned(setpoint) => rs_timer' = 0
          /\ rs_timer' <= held' \/ held' = 2

Updated ==
  /\ start_setpoint' \in Reverse!Setpoints /\ target_setpoint' \in {0, Angle}
  /\ progress' \in 0..Reverse!Done /\ rs_timer' \in 0..Reverse!Old
  /\ held' \in 0..2
  /\ travelled' \in Int /\ current_distance' \in Int /\ target_distance' \in Int
  /\ late' \in BOOLEAN
  /\ Waiting' => target_distance' = 0 /\ current_distance' = 0
  /\ Waiting /\ ~Waiting' => rs_enabled
  /\ BackInv'
  /\ LeansDown
  /\ target_setpoint' = 0 /\ sat = "REVERSESTOP" => late' \/ ~Reverse!TimedOut

Riding(move, fast, d) ==
  /\ rs_running /\ ~flipped /\ ~darkride
  /\ move \in {-1, 0, 1} /\ d \in {0, 1}
  /\ Reverse!Update(move, fast, d) /\ Reverse!Observe(d)

(* While it waits, an update leaves reverse stop as it was.                *)
LEMMA WaitUpdates ==
  ASSUME Angle \in Nat \ {0}, Slack \in Nat \ {0}, ReverseInv,
         NEW move, NEW fast, NEW d, Riding(move, fast, d),
         progress = Reverse!Done, progress' = Reverse!Done, travelled' \in Int,
         rs_timer' = Reverse!Aged(rs_timer, d),
         UNCHANGED <<start_setpoint, target_setpoint, current_distance,
                     target_distance>>
  PROVE  Updated
<1> USE Halves, AgesOfReverse DEF ReverseInv, ReverseTypes, Riding
<1>1. Waiting' = Waiting
  BY DEF Waiting
<1>2. held' \in 0..2 /\ late' \in BOOLEAN
  BY DEF Reverse!Observe, Reverse!LeastOf, Reverse!Leaned, Reverse!Setpoints
<1>3. target_setpoint' > 0 => late'
  BY DEF Reverse!Observe, LeanInv
<1>4. target_setpoint' = 0 => sat # "REVERSESTOP"
  BY DEF WaitingInv, Waiting
<1>5. BackInv'
  BY DEF BackInv
<1>6. LeansDown
  BY <1>3 DEF LeansDown
<1>7. Waiting' => target_distance' = 0 /\ current_distance' = 0
  BY <1>1 DEF WaitingInv
<1> QED
  BY <1>1, <1>2, <1>4, <1>5, <1>6, <1>7 DEF Updated

(* An update that turns the motion around starts it anew, where the board  *)
(* stands.                                                                 *)
LEMMA TurnUpdates ==
  ASSUME Angle \in Nat \ {0}, Slack \in Nat \ {0}, ReverseInv,
         NEW move, NEW fast, NEW d, Riding(move, fast, d), Reverse!Turn(d),
         ~(progress = Reverse!Done /\ ~rs_enabled), NEW diff, diff < -Slack,
         diff = ((travelled + move) - current_distance) * Reverse!Sign(target_distance)
  PROVE  Updated
<1> USE Halves, AgesOfReverse DEF ReverseInv, ReverseTypes, Riding
<1> DEFINE target == IF target_setpoint > 0 THEN 0 ELSE Angle
           way == Reverse!Abs(setpoint - target)
<1>1. /\ target_setpoint' = target /\ start_setpoint' = setpoint
      /\ travelled' = 0 /\ current_distance' = 0
      /\ target_distance' = IF target > 0 THEN -way ELSE way
      /\ progress' = IF way < 1 THEN Reverse!Done ELSE 0
      /\ rs_timer' = Reverse!Aged(rs_timer, d)
  BY DEF Reverse!Turn
<1>2. ~Turned
  BY DEF Turned, Reverse!Sign
<1>3. held' \in 0..2
  BY DEF Reverse!Observe, Reverse!LeastOf
<1>4. /\ target \in {0, Angle} /\ way \in Nat
      /\ way = IF target = 0 THEN setpoint ELSE Angle - setpoint
  BY DEF Reverse!Abs, Reverse!Setpoints
<1> HIDE DEF target, way
<1>5. /\ start_setpoint' \in Reverse!Setpoints
      /\ target_setpoint' \in {0, Angle}
      /\ progress' \in 0..Reverse!Done /\ rs_timer' \in 0..Reverse!Old
      /\ travelled' \in Int /\ current_distance' \in Int
      /\ target_distance' \in Int
  BY <1>1, <1>4 DEF Reverse!Done
<1>6. CASE target_setpoint > 0
  <2>1. target = 0 /\ late' = late
    BY <1>1, <1>6 DEF target, Reverse!Observe
  <2>2. way = setpoint
    BY <1>4, <2>1
  <2>3. BackInv'
    BY <1>1, <2>1, <2>2, <1>5
    DEF BackInv, Turned, Reverse!Done, Reverse!Setpoints
  <2>4. LeansDown
    BY <1>1, <2>1 DEF LeansDown
  <2>5. late' \/ ~Reverse!TimedOut
    <3>1. CASE late
      BY <2>1, <3>1
    <3>2. CASE ~late
      <4>1. rs_timer <= 2 /\ (~Reverse!Leaned(setpoint) => rs_timer = 0)
        BY <1>2, <1>6, <3>2 DEF LeanInv
      <4>2. rs_timer' <= rs_timer + 1
        BY <1>1
      <4>3. CASE way < 1
        BY <1>1, <2>2, <4>1, <4>2, <4>3
        DEF Reverse!TimedOut, Reverse!Done, Reverse!Setpoints
      <4>4. CASE ~(way < 1)
        BY <1>1, <1>5, <4>1, <4>2, <4>4 DEF Reverse!TimedOut
      <4> QED
        BY <4>3, <4>4
    <3> QED
      BY <3>1, <3>2
  <2>6. Waiting' => target_distance' = 0 /\ current_distance' = 0
    BY <1>1, <1>4, <2>1, <2>2 DEF Waiting, Reverse!Done
  <2>7. ~Waiting
    BY <1>6 DEF Waiting
  <2>8. late' \in BOOLEAN
    BY <2>1
  <2> QED
    BY <1>3, <1>5, <2>3, <2>4, <2>5, <2>6, <2>7, <2>8 DEF Updated
<1>7. CASE target_setpoint = 0
  <2>1. target = Angle /\ late' = Reverse!Leaned(setpoint)
    BY <1>1, <1>7 DEF target, Reverse!Observe
  <2>2. way = Angle - setpoint
    BY <1>4, <2>1
  <2>3. BackInv'
    BY <1>1, <2>1 DEF BackInv
  <2>4. LeansDown
    <3> SUFFICES ASSUME ~late' PROVE LeansDown
      BY DEF LeansDown
    <3>1. ~Reverse!Leaned(setpoint) /\ way >= 1 /\ progress' = 0
      <4>1. ~Reverse!Leaned(setpoint) /\ setpoint # Angle
        BY <2>1
      <4> QED
        BY <1>1, <2>2, <4>1 DEF Reverse!Setpoints
    <3>2. Reverse!Aim = setpoint
      BY <1>1, <1>5, <3>1, AimIsBetween DEF Reverse!Aim, Reverse!Done
    <3>3. Turned'
      BY <1>1, <3>1 DEF Turned
    <3>4. sat = "REVERSESTOP" => rs_timer' <= 1
      <4> SUFFICES ASSUME sat = "REVERSESTOP" PROVE rs_timer' <= 1
        OBVIOUS
      <4>1. progress < Reverse!Done
        BY <1>7 DEF WaitingInv, Waiting, Reverse!Done
      <4>2. rs_timer = 0
        BY <1>2, <1>7, <4>1 DEF BackInv
      <4> QED
        BY <1>1, <4>2
    <3>5. target_distance' = start_setpoint' - Angle
      BY <1>1, <1>4, <2>1, <2>2 DEF Reverse!Setpoints
    <3> QED
      BY <1>1, <1>5, <3>1, <3>2, <3>3, <3>4, <3>5
      DEF LeansDown, Reverse!Setpoints, Reverse!Done
  <2>5. ~Waiting'
    BY <1>1, <2>1 DEF Waiting
  <2>6. Waiting => rs_enabled
    BY DEF Waiting
  <2>7. late' \in BOOLEAN
    BY <2>1 DEF Reverse!Leaned, Reverse!Setpoints
  <2> QED
    BY <1>1, <1>3, <1>5, <2>1, <2>3, <2>4, <2>5, <2>6, <2>7 DEF Updated
<1> QED
  BY <1>6, <1>7

(* An update that goes on only adds to the progress, and holds the timer   *)
(* unless the board leans.                                                 *)
LEMMA ProceedUpdates ==
  ASSUME Angle \in Nat \ {0}, Slack \in Nat \ {0}, ReverseInv,
         NEW move, NEW fast, NEW d, Riding(move, fast, d),
         NEW diff,
         diff = ((travelled + move) - current_distance) * Reverse!Sign(target_distance),
         diff >= -Slack, Reverse!Proceed(travelled + move, diff, d), ~Waiting
  PROVE  Updated
<1> USE Halves, AgesOfReverse DEF ReverseInv, ReverseTypes, Riding
<1> DEFINE new == travelled + move
           current == IF diff > 0 THEN new ELSE current_distance
<1>1. /\ progress' \in progress..Reverse!MostOf(progress, Reverse!Covered(current))
      /\ target_distance' = IF progress' = Reverse!Done THEN 0 ELSE target_distance
      /\ current_distance' = IF progress' = Reverse!Done THEN 0 ELSE current
      /\ travelled' = new
      /\ rs_timer' = IF Reverse!Refreshes THEN 0 ELSE Reverse!Aged(rs_timer, d)
      /\ UNCHANGED <<start_setpoint, target_setpoint>>
  BY DEF Reverse!Proceed
<1>2. /\ new \in Int /\ current \in Int
      /\ Reverse!Sign(target_distance) \in {-1, 1}
      /\ diff \in Int
  BY DEF Reverse!Sign
<1>3. /\ Reverse!Covered(current) \in 0..Reverse!Done
      /\ Reverse!Covered(current) = Reverse!Done
           => Reverse!Abs(current) >= Reverse!Abs(target_distance)
  <2> HIDE DEF current
  <2> QED
    BY <1>2, CoveredIsFar
<1>4. progress' \in 0..Reverse!Done /\ progress <= progress'
  BY <1>1, <1>3 DEF Reverse!MostOf, Reverse!Done
<1>5. held' \in 0..2 /\ rs_timer' \in 0..Reverse!Old /\ late' = late
  <2>1. rs_timer' \in 0..Reverse!Old
    BY <1>1 DEF Reverse!Old
  <2>2. held' \in 0..2
    BY DEF Reverse!Observe, Reverse!LeastOf
  <2>3. late' = late
    BY <1>1 DEF Reverse!Observe, Reverse!Setpoints
  <2> QED
    BY <2>1, <2>2, <2>3
<1>6. /\ target_distance' \in Int /\ current_distance' \in Int
      /\ travelled' \in Int
  BY <1>1, <1>2
<1>7. Waiting' => target_distance' = 0 /\ current_distance' = 0
  BY <1>1 DEF Waiting
<1>8. CASE target_setpoint = 0
  <2>1. rs_timer' = 0
    BY <1>1, <1>8 DEF Reverse!Refreshes
  <2>2. progress < Reverse!Done
    BY <1>8 DEF Waiting, Reverse!Done
  <2>3. BackInv'
    BY <1>1, <1>8, <2>1, <2>2 DEF BackInv
  <2>4. LeansDown
    BY <1>1, <1>8 DEF LeansDown
  <2>5. ~Reverse!TimedOut
    BY <1>4, <2>1, NeverTimesOut DEF Reverse!TimedOut
  <2> QED
    BY <1>1, <1>4, <1>5, <1>6, <1>7, <2>3, <2>4, <2>5 DEF Updated
<1>9. CASE target_setpoint > 0
  <2>1. BackInv'
    BY <1>1, <1>9 DEF BackInv
  <2>2. LeansDown
    <3> SUFFICES ASSUME ~late PROVE LeansDown
      BY <1>5 DEF LeansDown
    <3>1. /\ progress < Reverse!Done /\ ~Reverse!Leaned(start_setpoint)
          /\ target_distance = start_setpoint - Angle
          /\ current_distance <= 0
          /\ start_setpoint <= setpoint /\ setpoint <= Aimed
          /\ \/ Turned
             \/ /\ ~Reverse!Leaned(setpoint) => rs_timer = 0
                /\ rs_timer <= held \/ held = 2
      BY <1>9 DEF LeanInv
    <3>2. target_setpoint = Angle /\ start_setpoint < Angle
      <4>1. start_setpoint # Angle
        BY <3>1
      <4>2. start_setpoint < Angle
        BY <4>1, BelowTheAngle
      <4>3. target_setpoint = Angle
        BY <1>9
      <4> QED
        BY <4>2, <4>3
    <3>3. Reverse!Sign(target_distance) = -1 /\ diff = current_distance - new
      BY <1>2, <3>1, <3>2 DEF Reverse!Sign, Reverse!Setpoints
    <3>4. current_distance' <= 0
      BY <1>1, <1>2, <3>1, <3>3
    <3>5. setpoint <= Reverse!Aim
      <4> DEFINE leanAt(p) == start_setpoint + ((Angle - start_setpoint) * p) \div 2
      <4>1. leanAt(progress) <= leanAt(progress') /\ leanAt(progress) \in Reverse!Setpoints
            /\ leanAt(progress') \in Reverse!Setpoints
        BY <1>4, AimIsBetween DEF Reverse!Done
      <4>2. Aimed = leanAt(progress) /\ Reverse!Aim = leanAt(progress')
        BY <1>1, <3>2 DEF Aimed, Reverse!Aim, Reverse!Done
      <4> HIDE DEF leanAt
      <4> QED
        BY <3>1, <4>1, <4>2 DEF Reverse!Setpoints
    <3>6. ASSUME progress' = Reverse!Done
          PROVE  /\ sat = "REVERSESTOP"
                 /\ travelled' <= Slack - (Angle - start_setpoint)
      <4>1. Reverse!Covered(current) = Reverse!Done
        BY <1>1, <1>3, <3>1, <3>6 DEF Reverse!MostOf, Reverse!Done
      <4>2. Reverse!Abs(current) >= Angle - start_setpoint /\ current <= 0
        <5>1. Reverse!Abs(target_distance) = Angle - start_setpoint
          BY <3>1, <3>2 DEF Reverse!Abs, Reverse!Setpoints
        <5>2. current <= 0
          BY <1>2, <3>1, <3>3
        <5> QED
          BY <1>3, <4>1, <5>1, <5>2
      <4>3. current <= -(Angle - start_setpoint)
        BY <1>2, <4>2 DEF Reverse!Abs, Reverse!Setpoints
      <4>4. new <= current + Slack
        BY <1>2, <3>3
      <4> QED
        BY <1>1, <1>2, <4>3, <4>4 DEF WaitingInv, Reverse!Setpoints
    <3>7. \/ Turned' /\ (sat = "REVERSESTOP" => rs_timer' <= 1)
          \/ /\ sat = "REVERSESTOP"
             /\ ~Reverse!Leaned(setpoint) => rs_timer' = 0
             /\ rs_timer' <= held' \/ held' = 2
      <4>0. sat = "REVERSESTOP"
        BY DEF WaitingInv
      <4>1. ~Reverse!Leaned(setpoint) => rs_timer' = 0 /\ held' = 0
        BY <1>1 DEF Reverse!Refreshes, Reverse!Observe
      <4>2. CASE Reverse!Leaned(setpoint)
        <5>1. ~Turned
          <6> SUFFICES ASSUME Turned PROVE FALSE
            OBVIOUS
          <6>1. Aimed = start_setpoint
            BY AimIsBetween DEF Aimed, Turned, Reverse!Done
          <6>2. setpoint = start_setpoint
            BY <3>1, <6>1 DEF Reverse!Setpoints
          <6> QED
            BY <3>1, <4>2, <6>2
        <5>2. rs_timer <= held \/ held = 2
          BY <3>1, <5>1
        <5>3. held' = Reverse!LeastOf(2, held + d) /\ rs_timer' <= rs_timer + d
          BY <1>1, <1>9, <4>2, <3>2 DEF Reverse!Refreshes, Reverse!Observe
        <5>4. rs_timer \in 0..4 /\ held \in 0..2 /\ d \in {0, 1} /\ rs_timer' \in 0..4
          BY <1>5 DEF Reverse!Old
        <5>5. rs_timer' <= held' \/ held' = 2
          BY <5>2, <5>3, <5>4 DEF Reverse!LeastOf
        <5> QED
          BY <4>0, <4>2, <5>5
      <4> QED
        BY <1>5, <4>0, <4>1, <4>2
    <3> QED
      BY <1>1, <3>1, <3>4, <3>5, <3>6, <3>7 DEF LeansDown
  <2>3. target_setpoint' # 0
    BY <1>1, <1>9
  <2>4. Waiting /\ ~Waiting' => rs_enabled
    OBVIOUS
  <2> QED
    BY <1>1, <1>4, <1>5, <1>6, <1>7, <2>1, <2>2, <2>3 DEF Updated
<1> QED
  BY <1>8, <1>9

(* Together, every update of reverse_stop_update.                          *)
LEMMA UpdateUpdates ==
  ASSUME Angle \in Nat \ {0}, Slack \in Nat \ {0}, ReverseInv,
         NEW move, NEW fast, NEW d, Riding(move, fast, d)
  PROVE  Updated
<1>1. PICK diff :
           diff = ((travelled + move) - current_distance) * Reverse!Sign(target_distance)
  OBVIOUS
<1> DEFINE waits == progress = Reverse!Done /\ (~rs_enabled \/ ~fast \/ diff >= -Slack)
<1>2. \/ /\ waits
         /\ travelled' = IF ~rs_enabled \/ ~fast \/ diff > 0 THEN 0
                         ELSE travelled + move
         /\ rs_timer' = Reverse!Aged(rs_timer, d)
         /\ UNCHANGED <<start_setpoint, target_setpoint, current_distance,
                        target_distance, progress>>
      \/ ~waits /\ diff < -Slack /\ Reverse!Turn(d)
      \/ ~waits /\ diff >= -Slack /\ Reverse!Proceed(travelled + move, diff, d)
  BY <1>1 DEF Riding, Reverse!Update
<1>3. CASE /\ waits
           /\ travelled' = IF ~rs_enabled \/ ~fast \/ diff > 0 THEN 0
                           ELSE travelled + move
           /\ rs_timer' = Reverse!Aged(rs_timer, d)
           /\ UNCHANGED <<start_setpoint, target_setpoint, current_distance,
                          target_distance, progress>>
  <2>1. travelled + move \in Int
    BY DEF ReverseInv, ReverseTypes, Riding
  <2>2. travelled' \in Int /\ progress = Reverse!Done /\ progress' = Reverse!Done
    BY <1>3, <2>1
  <2> QED
    BY <1>3, <2>2, WaitUpdates
<1>4. CASE ~waits /\ diff < -Slack /\ Reverse!Turn(d)
  <2>1. ~(progress = Reverse!Done /\ ~rs_enabled)
    BY <1>4
  <2> HIDE DEF waits
  <2> QED
    BY <1>1, <1>4, <2>1, TurnUpdates
<1>5. CASE /\ ~waits /\ diff >= -Slack
           /\ Reverse!Proceed(travelled + move, diff, d)
  <2>1. ~Waiting
    BY <1>5 DEF Waiting
  <2> HIDE DEF waits
  <2> QED
    BY <1>1, <1>5, <2>1, ProceedUpdates
<1> QED
  BY <1>2, <1>3, <1>4, <1>5

-----------------------------------------------------------------------------
(* A board that was switched on has no motion under way.                   *)
LEMMA ReverseStarts == Reverse!Init => ReverseInv
<1> SUFFICES ASSUME Reverse!Init PROVE ReverseInv
  OBVIOUS
<1>1. rs_timer \in 0..Reverse!Old
  BY DEF Reverse!Init, Reverse!Old
<1> QED
  BY <1>1, Zenon DEF Reverse!Init, ReverseInv

(* A ride goes on: it was not the end of a way down, and not too late.     *)
LEMMA RideStep ==
  ASSUME Angle \in Nat \ {0}, Slack \in Nat \ {0}, ReverseInv,
         NEW move \in {-1, 0, 1}, NEW fast \in BOOLEAN, NEW d \in {0, 1},
         Reverse!Ride(move, fast, d), ~flipped'
  PROVE  ReverseTypes' /\ WaitingInv' /\ BackInv' /\ LeanInv'
<1> USE Halves
<1>1. ~flipped /\ ~darkride /\ rs_running
  BY DEF Reverse!Ride, Reverse!Observe
<1>2. Riding(move, fast, d)
  BY <1>1 DEF Reverse!Ride, Riding
<1>3. Updated
  BY <1>2, UpdateUpdates
<1>4. setpoint \in 0..Angle /\ (Waiting => sat # "REVERSESTOP")
      /\ (~Waiting => sat = "REVERSESTOP")
  BY <1>1 DEF ReverseInv, ReverseTypes, WaitingInv, Reverse!Setpoints
<1>5. Reverse!Active <=> ~Waiting'
  BY <1>3 DEF Updated, Reverse!Active, Waiting, Reverse!Done, Reverse!Setpoints
<1>6. sat' = IF Reverse!Active THEN "REVERSESTOP" ELSE sat'
  BY <1>1, <1>3, <1>4, <1>5 DEF Reverse!Ride, Reverse!Steer, Updated
<1>7. ~Reverse!Active => sat' # "REVERSESTOP"
  BY <1>4 DEF Reverse!Ride, Reverse!Steer
<1>8. WaitingInv'
  BY <1>3, <1>5, <1>6, <1>7 DEF WaitingInv, Updated
<1>9. Reverse!Aim \in Reverse!Setpoints
  BY <1>3, AimIsBetween DEF Updated, Reverse!Aim, Reverse!Done
<1>10. setpoint' \in Reverse!Setpoints
  BY <1>4, <1>9
  DEF Reverse!Ride, Reverse!Steer, Reverse!Setpoints, Reverse!LeastOf,
      Reverse!MostOf
<1>11. ReverseTypes'
  BY <1>3, <1>10 DEF Updated, ReverseTypes
<1>12. LeanInv'
  <2> SUFFICES ASSUME target_setpoint' > 0, ~late' PROVE LeanInv'
    BY DEF LeanInv
  <2>1. /\ ~Reverse!Leaned(start_setpoint')
        /\ progress' < Reverse!Done => target_distance' = start_setpoint' - Angle
        /\ current_distance' <= 0
        /\ start_setpoint' <= setpoint /\ setpoint <= Reverse!Aim
        /\ progress' = Reverse!Done => sat = "REVERSESTOP"
        /\ \/ Turned' /\ (sat = "REVERSESTOP" => rs_timer' <= 1)
           \/ /\ sat = "REVERSESTOP"
              /\ ~Reverse!Leaned(setpoint) => rs_timer' = 0
              /\ rs_timer' <= held' \/ held' = 2
    BY <1>3 DEF Updated, LeansDown
  <2>2. sat' = "REVERSESTOP"
    BY <1>6 DEF Reverse!Active
  <2>3. setpoint <= setpoint' /\ setpoint' <= Reverse!Aim
    BY <1>4, <1>9, <2>1, <2>2
    DEF Reverse!Ride, Reverse!Steer, Reverse!LeastOf, Reverse!MostOf,
        Reverse!Setpoints
  <2>4. sat = "REVERSESTOP" => ~Reverse!Stops
    BY <1>1 DEF Reverse!Ride
  <2>5. progress' < Reverse!Done
    <3>1. progress' # Reverse!Done
      BY <2>1, <2>4 DEF Reverse!Stops
    <3> QED
      BY <1>3, <3>1 DEF Updated, Reverse!Done
  <2>6. ~Reverse!Leaned(setpoint') => ~Reverse!Leaned(setpoint)
    BY <1>4, <1>10, <2>3 DEF Reverse!Setpoints
  <2>7. start_setpoint' <= setpoint'
    BY <1>3, <1>4, <1>10, <2>1, <2>3 DEF Updated, Reverse!Setpoints
  <2>8. \/ Turned'
        \/ /\ ~Reverse!Leaned(setpoint') => rs_timer' = 0
           /\ rs_timer' <= held' \/ held' = 2
           /\ rs_timer' <= 2
    <3> SUFFICES ASSUME ~Turned' PROVE rs_timer' <= 2
      BY <2>1, <2>6
    <3>1. ~Reverse!Leaned(setpoint) => rs_timer' = 0
      BY <2>1
    <3>2. CASE progress' = 0
      <4>1. Reverse!Aim = start_setpoint'
        BY <1>3, <3>2, AimIsBetween DEF Updated, Reverse!Aim, Reverse!Done
      <4>2. setpoint = start_setpoint'
        BY <1>3, <1>4, <2>1, <4>1 DEF Updated, Reverse!Setpoints
      <4> QED
        BY <2>1, <3>1, <4>2
    <3>3. CASE progress' = 1
      <4>1. sat = "REVERSESTOP"
        BY <2>1
      <4> QED
        BY <1>3, <2>4, <3>3, <4>1 DEF Reverse!Stops, Reverse!TimedOut, Updated
    <3> QED
      BY <1>3, <2>5, <3>2, <3>3 DEF Updated, Reverse!Done
  <2>9. Reverse!Aim = Aimed'
    BY DEF Reverse!Aim, Aimed
  <2> QED
    BY <2>1, <2>3, <2>5, <2>7, <2>8, <2>9 DEF LeanInv
<1> QED
  BY <1>3, <1>8, <1>11, <1>12 DEF Updated

(* Every step of the board keeps the invariant of reverse stop.            *)
LEMMA ReverseNext ==
  ASSUME Angle \in Nat \ {0}, Slack \in Nat \ {0}, ReverseInv,
         [Reverse!Next]_Reverse!vars
  PROVE  ReverseInv'
<1> USE Halves, AgesOfReverse DEF ReverseInv
<1>1. CASE Reverse!ReverseStops
  <2>1. PICK m \in Reverse!Moves, d \in {0, 1} : Reverse!Stop(m[1], m[2], d)
    BY <1>1 DEF Reverse!ReverseStops
  <2>2. rs_running' = FALSE /\ UNCHANGED <<rs_enabled, darkride>> /\ flipped' \in BOOLEAN
    BY <2>1 DEF Reverse!Stop, Reverse!Observe
  <2>3. rs_timer' \in 0..Reverse!Old
    BY <2>1, TimerIsAnAge DEF Reverse!Stop
  <2> QED
    BY <2>2, <2>3
<1>2. CASE Reverse!Rides
  <2>1. PICK m \in Reverse!Moves, d \in {0, 1} : Reverse!Ride(m[1], m[2], d)
    BY <1>2 DEF Reverse!Rides
  <2>2. m[1] \in {-1, 0, 1} /\ m[2] \in BOOLEAN
    BY DEF Reverse!Moves
  <2>3. ~flipped' => ReverseTypes' /\ WaitingInv' /\ BackInv' /\ LeanInv'
    BY <2>1, <2>2, RideStep
  <2>4. UNCHANGED <<rs_running, rs_enabled, darkride>> /\ flipped' \in BOOLEAN
    BY <2>1 DEF Reverse!Ride, Reverse!Observe
  <2>5. rs_timer' \in 0..Reverse!Old
    BY <2>1, TimerIsAnAge DEF Reverse!Ride
  <2> QED
    BY <2>3, <2>4, <2>5
<1>3. CASE Reverse!Centering
  <2>1. UNCHANGED <<rs_running, rs_enabled, darkride, Reverse!rs, held, late, flipped>>
    BY <1>3 DEF Reverse!Centering
  <2>2. rs_running /\ ~flipped => Waiting
    BY <1>3 DEF Reverse!Centering, WaitingInv
  <2>3. sat' # "REVERSESTOP" /\ setpoint' = 0
    BY <1>3 DEF Reverse!Centering
  <2>4. rs_running /\ ~flipped => target_setpoint = 0 /\ progress = Reverse!Done
    BY <2>2 DEF Waiting
  <2>5. rs_running' /\ ~flipped' =>
          ReverseTypes' /\ WaitingInv' /\ BackInv' /\ LeanInv'
    BY <2>1, <2>2, <2>3, <2>4
    DEF ReverseTypes, WaitingInv, BackInv, LeanInv, Waiting, Reverse!rs,
        Reverse!Done
  <2> QED
    BY <2>1, <2>5 DEF Reverse!rs
<1>4. CASE Reverse!Disengage
  BY <1>4 DEF Reverse!Disengage, Reverse!rs
<1>5. CASE Reverse!Engage
  <2>0. /\ target_setpoint' = 0 /\ start_setpoint' = 0 /\ setpoint' = 0
        /\ progress' = Reverse!Done /\ sat' = "CENTERING" /\ late' = FALSE
        /\ travelled' = 0 /\ current_distance' = 0 /\ target_distance' = 0
        /\ held' = 0
    BY <1>5 DEF Reverse!Engage, Reverse!Reset
  <2>1. ReverseTypes'
    <3>1. late' \in BOOLEAN
      BY <2>0, Zenon
    <3>2. held' \in 0..2 /\ progress' \in 0..Reverse!Done
      BY <2>0 DEF Reverse!Done
    <3>3. setpoint' \in Reverse!Setpoints /\ start_setpoint' \in Reverse!Setpoints
      BY <2>0
    <3>4. travelled' \in Int /\ current_distance' \in Int /\ target_distance' \in Int
      BY <2>0
    <3>5. target_setpoint' \in {0, Angle}
      BY <2>0
    <3> QED
      BY <3>1, <3>2, <3>3, <3>4, <3>5 DEF ReverseTypes
  <2>2. WaitingInv' /\ BackInv' /\ LeanInv'
    BY <2>0 DEF WaitingInv, Waiting, BackInv, LeanInv, Reverse!Done
  <2> QED
    BY <1>5, <2>1, <2>2 DEF Reverse!Engage, Reverse!Reset
<1>6. CASE Reverse!Flip \/ Reverse!Configure
  <2>1. UNCHANGED <<rs_running, sat, setpoint, Reverse!rs, held, late, flipped>>
        /\ rs_enabled' \in BOOLEAN /\ darkride' \in BOOLEAN
    BY <1>6 DEF Reverse!Flip, Reverse!Configure
  <2>2. ReverseTypes /\ WaitingInv /\ BackInv /\ LeanInv
          => ReverseTypes' /\ WaitingInv' /\ BackInv' /\ LeanInv'
    BY <2>1
    DEF ReverseTypes, WaitingInv, BackInv, LeanInv, Waiting, Turned, Aimed,
        Reverse!rs
  <2> QED
    BY <2>1, <2>2 DEF Reverse!rs
<1>7. CASE Reverse!Rest
  BY <1>7 DEF Reverse!Rest, Reverse!ride
<1>8. CASE UNCHANGED Reverse!vars
  <2>1. ReverseTypes /\ WaitingInv /\ BackInv /\ LeanInv
          => ReverseTypes' /\ WaitingInv' /\ BackInv' /\ LeanInv'
    BY <1>8
    DEF ReverseTypes, WaitingInv, BackInv, LeanInv, Waiting, Turned, Aimed,
        Reverse!rs, Reverse!ride, Reverse!vars
  <2> QED
    BY <1>8, <2>1 DEF Reverse!vars, Reverse!ride, Reverse!rs
<1> QED
  BY <1>1, <1>2, <1>3, <1>4, <1>5, <1>6, <1>7, <1>8 DEF Reverse!Next

(* A stop is earned: when the timer ran out, the lean was timed before; if *)
(* not, the board came all the way.                                        *)
LEMMA StopStep ==
  ASSUME Angle \in Nat \ {0}, Slack \in Nat \ {0}, ReverseInv,
         Reverse!ReverseStops
  PROVE  \/ late' \/ flipped'
         \/ held' >= 2
         \/ travelled' <= Slack - (Angle - start_setpoint')
<1>1. PICK m \in Reverse!Moves, d \in {0, 1} : Reverse!Stop(m[1], m[2], d)
  BY DEF Reverse!ReverseStops
<1>2. CASE flipped
  BY <1>1, <1>2 DEF Reverse!Stop, Reverse!Observe
<1>3. CASE ~flipped
  <2>1. Riding(m[1], m[2], d) /\ sat = "REVERSESTOP" /\ Reverse!Stops
    BY <1>1, <1>3 DEF Reverse!Stop, Riding, Reverse!Moves
  <2>2. Updated
    BY <2>1, UpdateUpdates
  <2>3. CASE target_setpoint' = 0
    BY <2>1, <2>2, <2>3 DEF Updated, Reverse!Stops
  <2>4. CASE target_setpoint' # 0 /\ ~late'
    <3>1. target_setpoint' > 0
      BY <2>2, <2>4 DEF Updated
    <3>2. CASE progress' = Reverse!Done
      BY <2>2, <2>4, <3>1, <3>2 DEF Updated, LeansDown
    <3>3. CASE progress' # Reverse!Done
      <4>1. Reverse!TimedOut
        BY <2>1, <3>3 DEF Reverse!Stops
      <4>2. progress' \in {0, 1} /\ rs_timer' \in 0..4 /\ held' \in 0..2
        BY <2>2, <3>3 DEF Updated, Reverse!Done, Reverse!Old
      <4>3. ~(rs_timer' <= 1)
        BY <4>1, <4>2, TimesOutLate DEF Reverse!TimedOut
      <4>4. rs_timer' <= held' \/ held' = 2
        BY <2>1, <2>2, <2>4, <3>1, <4>3 DEF Updated, LeansDown
      <4> QED
        BY <4>2, <4>3, <4>4
    <3> QED
      BY <3>2, <3>3
  <2> QED
    BY <2>3, <2>4
<1> QED
  BY <1>2, <1>3

(* Reverse stop: a board it stops was leaned back for a second at least,   *)
(* or has rolled back all the way up to the slack, whatever the angle and  *)
(* the ride (reverse_stop_stop, reverse_stop.c:118). The slack is not      *)
(* zero, as in the code: between two iterations the board moves no         *)
(* further.                                                                *)
THEOREM StopsAreEarned ==
  ASSUME Angle \in Nat \ {0}, Slack \in Nat \ {0}
  PROVE  Reverse!Spec => StopIsEarned
<1>1. Reverse!Init => ReverseInv
  BY ReverseStarts
<1>2. ReverseInv /\ [Reverse!Next]_Reverse!vars => ReverseInv'
  BY ReverseNext
<1>3. ReverseInv /\ [Reverse!Next]_Reverse!vars =>
        [Reverse!ReverseStops => \/ late' \/ flipped'
                         \/ held' >= 2
                         \/ travelled' <= Slack - (Angle - start_setpoint')]_Reverse!vars
  BY StopStep
<1> QED
  BY <1>1, <1>2, <1>3, PTL DEF Reverse!Spec, StopIsEarned, Reverse!StopIsEarned

-----------------------------------------------------------------------------
(* The konami sequences of the headlights.                                 *)

\* The recognizer that is fed, and those that are under way.
Fed(name) == IF name = "off" THEN switched_on ELSE ~switched_on
Live(name) == position[name] > 0 /\ sequence_timer[name] <= Longest

KonamiTypes ==
  /\ switched_on \in BOOLEAN
  /\ position \in [Touches!Names -> 0..4]
  /\ sequence_timer \in [Touches!Names -> Touches!Ages]
  /\ app \in Touches!Ages /\ twice \in BOOLEAN /\ touches \in 0..Touches!Enough

(* Every step of a recognizer but the first took a touch since the last    *)
(* switch by touches, and so did leaving the pad of the last step.         *)
Claimed(name, s, age, made) ==
  s > 0 /\ age <= Longest =>
    made >= s - 1 /\ (footpad # Touches!Sequence[name][s] => made >= s)
TouchInv ==
  \A name \in Touches!Names :
    Claimed(name, position[name], sequence_timer[name], touches)

(* A recognizer that is not fed any more was left by a switch of the app.  *)
FrozenInv ==
  \A name \in Touches!Names :
    ~Fed(name) /\ position[name] > 0 => sequence_timer[name] >= app

(* While it would still go on, the other one had the time since then, if it *)
(* had not kept its position over two switches of the app.                 *)
RaceInv ==
  ~twice =>
    \A name, other \in Touches!Names :
      Fed(name) /\ Live(name) /\ ~Fed(other) /\ Live(other)
        => app >= (position[name] - 1) * (Shortest + 1) + sequence_timer[name]

KonamiInv == KonamiTypes /\ TouchInv /\ FrozenInv /\ RaceInv

KonamiTimes ==
  /\ Shortest \in Nat /\ Longest \in Nat
  /\ 4 * (Shortest + 1) > Longest

(* There are two recognizers.                                              *)
LEMMA NamesAre == Touches!Names = {"on", "off"}
BY DEF Touches!Names, Touches!Sequence

(* Every step of a sequence is another touch than the step before.         *)
LEMMA Sequences ==
  ASSUME NEW name \in Touches!Names
  PROVE  /\ Len(Touches!Sequence[name]) = 5
         /\ \A s \in 1..4 : Touches!Sequence[name][s] # Touches!Sequence[name][s + 1]
<1>1. CASE name = "on"
  <2>1. Touches!Sequence[name] = <<"LEFT", "NONE", "LEFT", "NONE", "RIGHT">>
    BY <1>1 DEF Touches!Sequence
  <2> QED
    BY <2>1
<1>2. CASE name = "off"
  <2>1. Touches!Sequence[name] = <<"RIGHT", "NONE", "RIGHT", "NONE", "LEFT">>
    BY <1>2 DEF Touches!Sequence
  <2> QED
    BY <2>1
<1> QED
  BY <1>1, <1>2, NamesAre

\* What a check comes to.
Outcome(name, r) ==
  /\ r.state \in 0..4 /\ r.timer \in Touches!Ages /\ r.complete \in BOOLEAN
  /\ r.complete =>
       /\ r.state = 0 /\ position[name] = 4
       /\ Shortest < sequence_timer[name] /\ sequence_timer[name] <= Longest
       /\ footpad = Touches!Sequence[name][5]
  /\ \/ r.state = 0
     \/ r.state = position[name] /\ r.timer = sequence_timer[name]
     \/ /\ r.state = position[name] + 1 /\ r.timer = 0
        /\ footpad = Touches!Sequence[name][r.state]
        /\ Shortest < sequence_timer[name]
        /\ position[name] > 0 => sequence_timer[name] <= Longest

(* A check restarts its recognizer, leaves it, or takes it a step on, in   *)
(* time.                                                                   *)
LEMMA CheckOutcome ==
  ASSUME KonamiTimes, KonamiTypes, NEW name \in Touches!Names
  PROVE  Outcome(name, Touches!Check(name))
<1> DEFINE s == position[name]
<1>1. s \in 0..4 /\ sequence_timer[name] \in Touches!Ages /\ 0 \in Touches!Ages
  BY DEF KonamiTypes, Touches!Ages, KonamiTimes
<1>2. CASE s > 0 /\ sequence_timer[name] > Longest
  <2>1. Touches!Check(name)
          = [state |-> 0, timer |-> sequence_timer[name], complete |-> FALSE]
    BY <1>2 DEF Touches!Check
  <2> QED
    BY <1>1, <2>1 DEF Outcome
<1>3. CASE ~(s > 0 /\ sequence_timer[name] > Longest)
  <2>0. Touches!Check(name) = Touches!Feed(name)
    BY <1>3 DEF Touches!Check
  <2>1. CASE /\ footpad = Touches!Sequence[name][s + 1]
             /\ sequence_timer[name] <= Shortest
    <3>1. Touches!Feed(name)
            = [state |-> s, timer |-> sequence_timer[name], complete |-> FALSE]
      BY <2>1 DEF Touches!Feed
    <3> QED
      BY <1>1, <2>0, <3>1 DEF Outcome
  <2>2. CASE /\ footpad = Touches!Sequence[name][s + 1]
             /\ ~(sequence_timer[name] <= Shortest) /\ s = 4
    <3>1. Touches!Feed(name)
            = [state |-> 0, timer |-> sequence_timer[name], complete |-> TRUE]
      BY <2>2, Sequences DEF Touches!Feed
    <3> QED
      BY <1>1, <1>3, <2>0, <2>2, <3>1 DEF Outcome, KonamiTimes, Touches!Ages
  <2>3. CASE /\ footpad = Touches!Sequence[name][s + 1]
             /\ ~(sequence_timer[name] <= Shortest) /\ s # 4
    <3>1. Touches!Feed(name)
            = [state |-> s + 1, timer |-> 0, complete |-> FALSE]
      BY <1>1, <2>3, Sequences DEF Touches!Feed
    <3> QED
      BY <1>1, <1>3, <2>0, <2>3, <3>1 DEF Outcome, KonamiTimes, Touches!Ages
  <2>4. CASE footpad # Touches!Sequence[name][s + 1]
    <3>1. \E next \in {0, s} :
            Touches!Feed(name)
              = [state |-> next, timer |-> sequence_timer[name], complete |-> FALSE]
      BY <2>4 DEF Touches!Feed
    <3>2. /\ Touches!Check(name).state \in {0, s}
          /\ Touches!Check(name).timer = sequence_timer[name]
      BY <2>0, <3>1
    <3>3. Touches!Check(name).complete = FALSE
      BY <2>0, <3>1
    <3>4. ~Touches!Check(name).complete /\ Touches!Check(name).complete \in BOOLEAN
      BY <3>3, Zenon
    <3> QED
      BY <1>1, <3>2, <3>4 DEF Outcome
  <2> QED
    BY <2>1, <2>2, <2>3, <2>4
<1> QED
  BY <1>2, <1>3

(* It claims no touch that was not made, and completes with a whole        *)
(* sequence; of a recognizer that is out of time only the first step can   *)
(* match.                                                                  *)
LEMMA OutcomeIsClaimed ==
  ASSUME KonamiTimes, KonamiInv, NEW name \in Touches!Names, NEW r,
         Outcome(name, r)
  PROVE  /\ Claimed(name, r.state, r.timer, touches)
         /\ r.complete => Live(name) /\ touches = Touches!Enough
         /\ ~Live(name) => Claimed(name, r.state, r.timer, 0) /\ ~r.complete
<1>1. /\ position[name] \in 0..4 /\ sequence_timer[name] \in Touches!Ages
      /\ touches \in 0..4
      /\ r.state \in 0..4 /\ r.timer \in Touches!Ages
      /\ Claimed(name, position[name], sequence_timer[name], touches)
  BY DEF KonamiInv, KonamiTypes, TouchInv, Outcome, Touches!Enough
<1>2. \A s \in 1..4 : Touches!Sequence[name][s] # Touches!Sequence[name][s + 1]
  BY Sequences
<1>3. Claimed(name, r.state, r.timer, touches)
  <2>1. CASE r.state = 0
    BY <2>1 DEF Claimed
  <2>2. CASE r.state = position[name] /\ r.timer = sequence_timer[name]
    BY <1>1, <2>2
  <2>3. CASE /\ r.state = position[name] + 1 /\ r.timer = 0
             /\ footpad = Touches!Sequence[name][r.state]
             /\ position[name] > 0 => sequence_timer[name] <= Longest
    <3>1. CASE position[name] = 0
      BY <1>1, <2>3, <3>1 DEF Claimed
    <3>2. CASE position[name] > 0
      <4>1. footpad # Touches!Sequence[name][position[name]]
        BY <1>1, <1>2, <2>3, <3>2
      <4>2. touches >= position[name]
        BY <1>1, <2>3, <3>2, <4>1 DEF Claimed
      <4> QED
        BY <1>1, <2>3, <4>2 DEF Claimed
    <3> QED
      BY <1>1, <3>1, <3>2
  <2> QED
    BY <2>1, <2>2, <2>3 DEF Outcome
<1>4. ASSUME r.complete PROVE Live(name) /\ touches = Touches!Enough
  <2>1. /\ position[name] = 4 /\ sequence_timer[name] <= Longest
        /\ footpad = Touches!Sequence[name][5]
    BY <1>4 DEF Outcome
  <2>2. footpad # Touches!Sequence[name][4]
    BY <1>2, <2>1
  <2> QED
    BY <1>1, <2>1, <2>2 DEF Claimed, Live, Touches!Enough
<1>5. ASSUME ~Live(name) PROVE Claimed(name, r.state, r.timer, 0)
  <2>1. r.state # 0 => \/ r.state = position[name] /\ r.timer = sequence_timer[name]
                       \/ r.state = 1 /\ footpad = Touches!Sequence[name][1]
    BY <1>1, <1>5 DEF Outcome, Live
  <2> QED
    BY <1>1, <1>5, <2>1 DEF Claimed, Live
<1> QED
  BY <1>3, <1>4, <1>5

(* A switch by touches finds the other recognizer out of time, but for      *)
(* hasty switches of the app.                                              *)
LEMMA OtherIsOver ==
  ASSUME KonamiTimes, KonamiInv, NEW name \in Touches!Names,
         NEW other \in Touches!Names,
         Fed(name), ~Fed(other), NEW r, Outcome(name, r), r.complete,
         ~Touches!Hasty
  PROVE  ~Live(other)
<1> SUFFICES ASSUME Live(other) PROVE FALSE
  OBVIOUS
<1>0. ~twice
  BY DEF KonamiInv, KonamiTypes, FrozenInv, Live, Touches!Hasty, Touches!Ages,
         KonamiTimes
<1>1. Live(name) /\ position[name] = 4 /\ Shortest < sequence_timer[name]
  BY OutcomeIsClaimed DEF Outcome
<1>2. app >= (4 - 1) * (Shortest + 1) + sequence_timer[name]
  BY <1>0, <1>1 DEF KonamiInv, RaceInv
<1>3. sequence_timer[other] >= app /\ sequence_timer[other] <= Longest
  BY DEF KonamiInv, FrozenInv, Live
<1>4. sequence_timer[name] \in Nat /\ sequence_timer[other] \in Nat /\ app \in Nat
  BY DEF KonamiInv, KonamiTypes, Touches!Ages
<1> QED
  BY <1>1, <1>2, <1>3, <1>4 DEF KonamiTimes

(* konami_init leaves recognizers that have taken no step.                 *)
LEMMA KonamiStarts == ASSUME KonamiTimes, Touches!Init PROVE KonamiInv
<1>1. \A name \in Touches!Names :
        position[name] = 0 /\ sequence_timer[name] = Longest + 1
  BY DEF Touches!Init
<1>2. switched_on \in BOOLEAN /\ twice \in BOOLEAN
  BY Zenon DEF Touches!Init
<1>3. KonamiTypes
  BY <1>2
  DEF Touches!Init, KonamiTypes, Touches!Ages, KonamiTimes, Touches!Enough
<1>4. TouchInv
  BY <1>1 DEF TouchInv, Claimed
<1>5. FrozenInv /\ RaceInv
  BY <1>1 DEF FrozenInv, RaceInv, Live
<1> QED
  BY <1>3, <1>4, <1>5 DEF KonamiInv

\* A recognizer that is fed on stays in time with the switch of the app.
LEMMA RaceGoesOn ==
  ASSUME KonamiTimes, KonamiInv, NEW name \in Touches!Names,
         NEW other \in Touches!Names,
         Fed(name), ~Fed(other), Live(other), ~twice,
         NEW r, Outcome(name, r), r.state > 0, r.timer <= Longest
  PROVE  app >= (r.state - 1) * (Shortest + 1) + r.timer
<1>1. /\ position[name] \in 0..4 /\ sequence_timer[name] \in Nat /\ app \in Nat
      /\ r.state \in 0..4
      /\ Shortest \in Nat
  BY DEF KonamiInv, KonamiTypes, Touches!Ages, Outcome, KonamiTimes
<1>2. Live(name) => app >= (position[name] - 1) * (Shortest + 1) + sequence_timer[name]
  BY DEF KonamiInv, RaceInv
<1>3. CASE r.state = position[name] /\ r.timer = sequence_timer[name]
  BY <1>2, <1>3 DEF Live
<1>4. CASE /\ r.state = position[name] + 1 /\ r.timer = 0
           /\ Shortest < sequence_timer[name]
           /\ position[name] > 0 => sequence_timer[name] <= Longest
  <2>1. CASE position[name] = 0
    BY <1>1, <1>4, <2>1
  <2>2. CASE position[name] > 0
    <3> DEFINE gap == Shortest + 1
    <3>1. /\ app >= (position[name] - 1) * gap + sequence_timer[name]
          /\ sequence_timer[name] >= gap /\ gap \in Nat
      BY <1>1, <1>2, <1>4, <2>2 DEF Live
    <3> HIDE DEF gap
    <3>2. (position[name] - 1) * gap + gap = position[name] * gap
      BY <1>1, <3>1
    <3>3. (position[name] - 1) * gap \in Int /\ position[name] * gap \in Int
      BY <1>1, <3>1
    <3>4. app >= position[name] * gap
      BY <1>1, <3>1, <3>2, <3>3
    <3> QED
      BY <1>1, <1>4, <3>3, <3>4 DEF gap
  <2> QED
    BY <1>1, <2>1, <2>2
<1> QED
  BY <1>3, <1>4 DEF Outcome

(* An iteration that completes no sequence keeps the invariant.            *)
LEMMA FeedStep ==
  ASSUME KonamiTimes, KonamiInv, NEW name \in Touches!Names,
         NEW other \in Touches!Names,
         Fed(name), ~Fed(other), Touches!Names = {name, other}, NEW r,
         Outcome(name, r),
         position' \in [Touches!Names -> 0..4],
         sequence_timer' \in [Touches!Names -> Touches!Ages],
         position'[name] = r.state, sequence_timer'[name] = r.timer,
         position'[other] = position[other],
         sequence_timer'[other] = sequence_timer[other],
         UNCHANGED <<footpad, app, twice, touches, switched_on>>
  PROVE  KonamiInv'
<1>1. KonamiTypes'
  BY DEF KonamiInv, KonamiTypes
<1>2. TouchInv'
  <2>1. \A k \in Touches!Names : Claimed(k, position'[k], sequence_timer'[k], touches)
    BY OutcomeIsClaimed DEF KonamiInv, TouchInv
  <2> QED
    BY <2>1 DEF TouchInv, Claimed
<1>3. Fed(name)' /\ ~Fed(other)'
  BY DEF Fed
<1>4. FrozenInv'
  BY <1>3 DEF KonamiInv, FrozenInv
<1>5. RaceInv'
  <2> SUFFICES ASSUME ~twice, Live(name)', Live(other)'
               PROVE  app' >= (position'[name] - 1) * (Shortest + 1) + sequence_timer'[name]
    BY <1>3 DEF RaceInv
  <2>1. Live(other) /\ r.state > 0 /\ r.timer <= Longest
    BY DEF Live
  <2>2. app >= (r.state - 1) * (Shortest + 1) + r.timer
    BY <2>1, RaceGoesOn
  <2> QED
    BY <2>2
<1> QED
  BY <1>1, <1>2, <1>4, <1>5 DEF KonamiInv

(* One that completes a sequence keeps it too, and found enough touches.   *)
LEMMA SwitchStep ==
  ASSUME KonamiTimes, KonamiInv, NEW name \in Touches!Names,
         NEW other \in Touches!Names,
         Fed(name), ~Fed(other), Touches!Names = {name, other}, NEW r,
         Outcome(name, r), r.complete,
         position' \in [Touches!Names -> 0..4],
         sequence_timer' \in [Touches!Names -> Touches!Ages],
         position'[name] = 0, ~Touches!Hasty, touches' = 0,
         \/ /\ position'[other] = position[other]
            /\ sequence_timer'[other] = sequence_timer[other]
         \/ \E o : /\ Outcome(other, o)
                   /\ position'[other] = o.state /\ sequence_timer'[other] = o.timer,
         switched_on' = ~switched_on,
         UNCHANGED <<footpad, app, twice>>
  PROVE  KonamiInv' /\ touches = Touches!Enough
<1>1. KonamiTypes'
  BY DEF KonamiInv, KonamiTypes, Touches!Enough
<1>2. ~Live(other)
  BY OtherIsOver
<1>3. Claimed(other, position'[other], sequence_timer'[other], 0)
  <2>1. CASE /\ position'[other] = position[other]
             /\ sequence_timer'[other] = sequence_timer[other]
    BY <1>2, <2>1 DEF Claimed, Live
  <2>2. CASE \E o : /\ Outcome(other, o)
                    /\ position'[other] = o.state /\ sequence_timer'[other] = o.timer
    BY <1>2, <2>2, OutcomeIsClaimed
  <2> QED
    BY <2>1, <2>2
<1>4. TouchInv'
  BY <1>3 DEF TouchInv, Claimed
<1>5. ~Fed(name)' /\ Fed(other)'
  BY DEF Fed, KonamiInv, KonamiTypes
<1>6. FrozenInv' /\ RaceInv'
  BY <1>5 DEF FrozenInv, RaceInv, Live
<1>7. touches = Touches!Enough
  BY OutcomeIsClaimed
<1> QED
  BY <1>1, <1>4, <1>6, <1>7 DEF KonamiInv

(* After hasty switches of the app both sequences may be completed.  The   *)
(* touches of a switch do not count then.                                  *)
LEMMA HastyStep ==
  ASSUME KonamiTimes, KonamiInv, NEW name \in Touches!Names,
         NEW other \in Touches!Names,
         Fed(name), ~Fed(other), Touches!Names = {name, other}, NEW r,
         Outcome(name, r), r.complete,
         position' \in [Touches!Names -> 0..4],
         sequence_timer' \in [Touches!Names -> Touches!Ages],
         position'[name] = 0, Touches!Hasty, touches' = Touches!Enough,
         \/ switched_on' = ~switched_on
         \/ switched_on' = switched_on /\ position'[other] = 0,
         UNCHANGED <<footpad, app, twice>>
  PROVE  KonamiInv' /\ touches = Touches!Enough
<1>0. switched_on' \in BOOLEAN
  BY Zenon DEF KonamiInv, KonamiTypes
<1>1. KonamiTypes'
  BY <1>0 DEF KonamiInv, KonamiTypes, Touches!Enough
<1>2. TouchInv'
  BY <1>1 DEF TouchInv, Claimed, KonamiTypes, Touches!Enough
<1>3. \A k \in Touches!Names : ~Fed(k)' => position'[k] = 0
  BY DEF Fed, KonamiInv, KonamiTypes
<1>4. FrozenInv' /\ RaceInv'
  BY <1>3 DEF FrozenInv, RaceInv, Live
<1>5. touches = Touches!Enough
  BY OutcomeIsClaimed
<1> QED
  BY <1>1, <1>2, <1>4, <1>5 DEF KonamiInv

(* So does every iteration: but for those, one of the sequences at most is *)
(* completed.                                                              *)
LEMMA RecognizeStep ==
  ASSUME KonamiTimes, KonamiInv, Touches!Recognize
  PROVE  /\ KonamiInv'
         /\ switched_on' # switched_on => touches = Touches!Enough
<1> DEFINE on == Touches!Check("on")
           off == Touches!Check("off")
           turned_on == ~switched_on /\ on.complete
           feeds_off == switched_on \/ turned_on
           turned_off == feeds_off /\ off.complete
<1>1. /\ position' = [on |-> IF switched_on THEN position.on ELSE on.state,
                   off |-> IF feeds_off THEN off.state ELSE position.off]
      /\ sequence_timer' = [on |-> IF switched_on THEN sequence_timer.on ELSE on.timer,
                   off |-> IF feeds_off THEN off.timer ELSE sequence_timer.off]
      /\ switched_on' = (feeds_off /\ ~turned_off)
      /\ touches' = IF ~(turned_on \/ turned_off) THEN touches
                    ELSE IF Touches!Hasty THEN Touches!Enough ELSE 0
      /\ UNCHANGED <<footpad, app, twice>>
  BY DEF Touches!Recognize
<1>2. Outcome("on", on) /\ Outcome("off", off)
  BY CheckOutcome, NamesAre DEF KonamiInv
<1> HIDE DEF on, off
<1>3. /\ switched_on \in BOOLEAN
      /\ on.complete \in BOOLEAN /\ off.complete \in BOOLEAN
      /\ "on" \in Touches!Names /\ "off" \in Touches!Names
      /\ Touches!Names = {"on", "off"}
      /\ Touches!Names = {"off", "on"}
  BY <1>2, NamesAre DEF KonamiInv, KonamiTypes, Outcome
<1>4. /\ position'["on"] = IF switched_on THEN position["on"] ELSE on.state
      /\ position'["off"] = IF feeds_off THEN off.state ELSE position["off"]
      /\ sequence_timer'["on"] = IF switched_on THEN sequence_timer["on"] ELSE on.timer
      /\ sequence_timer'["off"] = IF feeds_off THEN off.timer ELSE sequence_timer["off"]
  BY <1>1
<1>5. /\ position' \in [Touches!Names -> 0..4]
      /\ sequence_timer' \in [Touches!Names -> Touches!Ages]
  <2>1. /\ position["on"] \in 0..4 /\ position["off"] \in 0..4
        /\ on.state \in 0..4 /\ off.state \in 0..4
        /\ sequence_timer["on"] \in Touches!Ages
        /\ sequence_timer["off"] \in Touches!Ages
        /\ on.timer \in Touches!Ages /\ off.timer \in Touches!Ages
    BY <1>2, <1>3 DEF KonamiInv, KonamiTypes, Outcome
  <2> QED
    BY <1>1, <1>3, <2>1
<1>6. CASE switched_on
  <2>1. Fed("off") /\ ~Fed("on")
    BY <1>6 DEF Fed
  <2>2. /\ position'["on"] = position["on"]
        /\ sequence_timer'["on"] = sequence_timer["on"]
        /\ position'["off"] = off.state /\ sequence_timer'["off"] = off.timer
    BY <1>4, <1>6
  <2>3. CASE off.complete
    <3>1. /\ switched_on' = ~switched_on
          /\ touches' = IF Touches!Hasty THEN Touches!Enough ELSE 0
      BY <1>1, <1>6, <2>3
    <3>2. position'["off"] = 0
      BY <1>2, <2>2, <2>3 DEF Outcome
    <3>3. CASE Touches!Hasty
      BY <1>1, <1>2, <1>3, <1>5, <2>1, <2>3, <3>1, <3>2, <3>3, HastyStep
    <3>4. CASE ~Touches!Hasty
      BY <1>1, <1>2, <1>3, <1>5, <2>1, <2>2, <2>3, <3>1, <3>2, <3>4, SwitchStep
    <3> QED
      BY <3>3, <3>4
  <2>4. CASE ~off.complete
    <3>1. UNCHANGED <<touches, switched_on>>
      BY <1>1, <1>3, <1>6, <2>4
    <3> QED
      BY <1>1, <1>2, <1>3, <1>5, <2>1, <2>2, <3>1, FeedStep
  <2> QED
    BY <2>3, <2>4
<1>7. CASE ~switched_on
  <2>1. Fed("on") /\ ~Fed("off")
    BY <1>7 DEF Fed
  <2>2. position'["on"] = on.state /\ sequence_timer'["on"] = on.timer
    BY <1>4, <1>7
  <2>3. CASE on.complete
    <3>1. position'["on"] = 0
      BY <1>2, <2>2, <2>3 DEF Outcome
    <3>2. position'["off"] = off.state /\ sequence_timer'["off"] = off.timer
      BY <1>4, <1>7, <2>3
    <3>3. /\ switched_on' = ~off.complete
          /\ touches' = IF Touches!Hasty THEN Touches!Enough ELSE 0
      BY <1>1, <1>7, <2>3
    <3>4. CASE Touches!Hasty
      <4>1. off.complete => position'["off"] = 0
        BY <1>2, <3>2 DEF Outcome
      <4>2. \/ switched_on' = ~switched_on
            \/ switched_on' = switched_on /\ position'["off"] = 0
        BY <1>3, <1>7, <3>3, <4>1
      <4> QED
        BY <1>1, <1>2, <1>3, <1>5, <2>1, <2>3, <3>1, <3>3, <3>4, <4>2, HastyStep
    <3>5. CASE ~Touches!Hasty
      <4>1. ~off.complete
        BY <1>2, <1>3, <2>1, <2>3, <3>5, OtherIsOver, OutcomeIsClaimed
      <4>2. switched_on' = ~switched_on /\ touches' = 0
        BY <1>7, <3>3, <3>5, <4>1
      <4> QED
        BY <1>1, <1>2, <1>3, <1>5, <2>1, <2>3, <3>1, <3>2, <3>5, <4>2, SwitchStep
    <3> QED
      BY <3>4, <3>5
  <2>4. CASE ~on.complete
    <3>1. UNCHANGED <<touches, switched_on>>
      BY <1>1, <1>3, <1>7, <2>4
    <3>2. /\ position'["off"] = position["off"]
          /\ sequence_timer'["off"] = sequence_timer["off"]
      BY <1>4, <1>7, <2>4
    <3> QED
      BY <1>1, <1>2, <1>3, <1>5, <2>1, <2>2, <3>1, <3>2, FeedStep
  <2> QED
    BY <2>3, <2>4
<1> QED
  BY <1>6, <1>7

(* Every step of the headlights keeps their invariant.                     *)
LEMMA KonamiNext ==
  ASSUME KonamiTimes, KonamiInv, [Touches!Next]_Touches!vars
  PROVE  KonamiInv'
<1> USE DEF KonamiInv
<1>1. CASE Touches!Recognize
  BY <1>1, RecognizeStep
<1>2. CASE Touches!Touch
  <2>1. KonamiTypes'
    BY <1>2 DEF Touches!Touch, KonamiTypes, Touches!Enough
  <2>2. TouchInv'
    BY <1>2 DEF Touches!Touch, TouchInv, Claimed, KonamiTypes, Touches!Enough
  <2>3. FrozenInv' /\ RaceInv'
    BY <1>2 DEF Touches!Touch, FrozenInv, RaceInv, Live, Fed
  <2> QED
    BY <2>1, <2>2, <2>3
<1>3. CASE Touches!Switch
  <2>1. KonamiTypes'
    BY <1>3
    DEF Touches!Switch, KonamiTypes, Touches!Enough, Touches!Ages, KonamiTimes
  <2>2. TouchInv'
    BY <1>3 DEF Touches!Switch, TouchInv, Claimed, KonamiTypes, Touches!Enough
  <2>3. \A name \in Touches!Names : Fed(name)' <=> ~Fed(name)
    BY <1>3 DEF Touches!Switch, Fed, KonamiTypes
  <2>4. FrozenInv'
    BY <1>3 DEF Touches!Switch, FrozenInv, KonamiTypes, Touches!Ages
  <2>5. RaceInv'
    <3>0. ~(app > Longest) => app <= Longest
      BY DEF KonamiTypes, Touches!Ages, KonamiTimes
    <3> SUFFICES ASSUME app > Longest PROVE RaceInv'
      BY <1>3, <3>0, Zenon DEF Touches!Switch, RaceInv
    <3>1. \A name \in Touches!Names : ~Fed(name) => ~Live(name)
      BY <1>3
      DEF Touches!Switch, FrozenInv, Live, KonamiTypes, Touches!Ages,
          KonamiTimes
    <3> QED
      BY <1>3, <2>3, <3>1 DEF Touches!Switch, RaceInv, Live
  <2> QED
    BY <2>1, <2>2, <2>4, <2>5
<1>4. CASE Touches!Tick
  <2>1. \A age \in Touches!Ages :
          /\ Touches!Older(age) \in Touches!Ages /\ age <= Touches!Older(age)
          /\ Touches!Older(age) <= Longest => Touches!Older(age) = age + 1
    BY DEF Touches!Older, Touches!Ages, KonamiTimes
  <2>2. /\ \A name \in Touches!Names :
             /\ sequence_timer'[name] = Touches!Older(sequence_timer[name])
             /\ sequence_timer[name] \in Touches!Ages
        /\ app' = Touches!Older(app) /\ app \in Touches!Ages
        /\ sequence_timer' \in [Touches!Names -> Touches!Ages]
    BY <1>4, <2>1 DEF Touches!Tick, KonamiTypes
  <2>3. KonamiTypes'
    BY <1>4, <2>1, <2>2 DEF Touches!Tick, KonamiTypes
  <2>4. TouchInv'
    BY <1>4, <2>1, <2>2
    DEF Touches!Tick, TouchInv, Claimed, Touches!Ages, KonamiTimes
  <2>5. FrozenInv'
    BY <1>4, <2>1, <2>2
    DEF Touches!Tick, FrozenInv, Fed, Touches!Ages, KonamiTimes, Touches!Older
  <2>6. RaceInv'
    <3> SUFFICES ASSUME ~twice,
                        NEW name \in Touches!Names, NEW other \in Touches!Names,
                        Fed(name)', Live(name)', ~Fed(other)', Live(other)'
                 PROVE  app' >= (position'[name] - 1) * (Shortest + 1) + sequence_timer'[name]
      BY <1>4 DEF RaceInv, Touches!Tick
    <3>1. UNCHANGED <<switched_on, position>>
      BY <1>4 DEF Touches!Tick
    <3>2. Fed(name) /\ Live(name) /\ ~Fed(other) /\ Live(other)
      BY <2>1, <2>2, <3>1 DEF Fed, Live, Touches!Ages, KonamiTimes
    <3>3. app >= (position[name] - 1) * (Shortest + 1) + sequence_timer[name]
      BY <3>2 DEF RaceInv
    <3>4. sequence_timer[other] >= app /\ position[name] > 0
      BY <3>2 DEF FrozenInv, Live
    <3>5. sequence_timer'[name] = sequence_timer[name] + 1 /\ app' = app + 1
      BY <2>1, <2>2, <3>4 DEF Live, Touches!Older, Touches!Ages, KonamiTimes
    <3>6. /\ (position[name] - 1) * (Shortest + 1) \in Int
          /\ sequence_timer[name] \in Int /\ app \in Int
      BY <2>2 DEF KonamiTypes, KonamiTimes, Touches!Ages
    <3> QED
      BY <3>1, <3>3, <3>5, <3>6
  <2> QED
    BY <2>3, <2>4, <2>5, <2>6
<1>5. CASE Touches!EngageOrStop \/ UNCHANGED Touches!vars
  <2>1. UNCHANGED <<footpad, switched_on, position, sequence_timer, app, twice, touches>>
    BY <1>5 DEF Touches!EngageOrStop, Touches!vars
  <2>2. KonamiTypes' /\ TouchInv'
    BY <2>1 DEF KonamiTypes, TouchInv, Claimed
  <2>3. FrozenInv' /\ RaceInv'
    BY <2>1 DEF FrozenInv, RaceInv, Live, Fed
  <2> QED
    BY <2>2, <2>3
<1> QED
  BY <1>1, <1>2, <1>3, <1>4, <1>5 DEF Touches!Next

(* Konami: a switch by touches takes the touches of a whole sequence since *)
(* the last one (konami_check and its calls in main.c), as long as the     *)
(* four touches that follow the first take longer than a recognizer waits  *)
(* for one: 4 * 0.15 s against 0.5 s in main.c:86-96.                      *)
THEOREM SequencesTakeTouches ==
  ASSUME KonamiTimes
  PROVE  Touches!Spec => SequencesApart
<1>1. Touches!Init => KonamiInv
  BY KonamiStarts
<1>2. KonamiInv /\ [Touches!Next]_Touches!vars => KonamiInv'
  BY KonamiNext
<1>3. KonamiInv /\ [Touches!Next]_Touches!vars =>
        [Touches!Recognize /\ switched_on' # switched_on
           => touches = Touches!Enough]_Touches!vars
  BY RecognizeStep
<1> QED
  BY <1>1, <1>2, <1>3, PTL
  DEF Touches!Spec, SequencesApart, Touches!SequencesApart

-----------------------------------------------------------------------------
(* The bars of the LEDs.                                                   *)

Bars == {"front", "rear", "headlights", "taillights"}
Drawn == {"none", "paint"}
LedsTypes ==
  /\ changing \in BOOLEAN /\ headlights_on \in BOOLEAN
  /\ direction_forward \in BOOLEAN /\ stale \in BOOLEAN
  /\ headlights_enabled \in BOOLEAN
  /\ headlights_split \in Leds!Splits /\ dir_split \in Leds!Splits
  /\ bar \in [Leds!Strips -> Bars] /\ time_target \in [Leds!Strips -> Bars]
  /\ aim \in Drawn \cup {"targets", "turn", "stay", "change"}
  /\ left \in SUBSET Leds!Strips /\ (left = {} <=> aim \in Drawn)

(* The bars, but those that are not chosen yet, are the right ones.        *)
Shown(bars, forward, on, pending) ==
  \A strip \in Leds!Strips \ pending :
    bars[strip] = Leds!TargetBar(on, forward, strip)

(* A frame chooses targets when it begins a change, and bars when the      *)
(* headlights are what they should be.                                     *)
ChoiceInv ==
  aim \notin Drawn =>
    /\ aim = "targets" <=> changing
    /\ changing \/ ~stale
    /\ should = IF aim = "targets" THEN ~headlights_on ELSE headlights_on

(* A transition goes to the other headlights in the direction it found,    *)
(* and they are on when it ends.                                           *)
TargetInv ==
  "targets" \notin torn =>
    /\ changing => Shown(time_target, direction_forward, ~headlights_on,
                         IF aim = "targets" THEN left ELSE {})
    /\ aim = "change" => Shown(time_target, direction_forward, headlights_on, {})

(* The direction is that of the split as long as headlights depend on it.  *)
Coherent(split, forward) == split # 0 => (forward <=> split = 1)
DirectionInv == headlights_on \/ changing => Coherent(dir_split, direction_forward)

(* The bars are those of the headlights and of the direction.              *)
BarsInv ==
  /\ ~changing /\ ~stale /\ "bars" \notin torn
  /\ aim \in Drawn /\ headlights_on => dir_split # 0
  => Shown(bar, direction_forward, headlights_on, left)

LedsInv == LedsTypes /\ ChoiceInv /\ TargetInv /\ DirectionInv /\ BarsInv

(* The bars by case.                                                       *)
LEMMA TargetBars ==
  ASSUME NEW forward \in BOOLEAN
  PROVE  /\ Leds!Strips = {"front", "rear"}
         /\ \A strip \in Leds!Strips :
              /\ Leds!TargetBar(FALSE, forward, strip) = strip
              /\ \A on \in BOOLEAN : Leds!TargetBar(on, forward, strip) \in Bars
         /\ Leds!TargetBar(TRUE, forward, "front")
              = IF forward THEN "headlights" ELSE "taillights"
         /\ Leds!TargetBar(TRUE, forward, "rear")
              = IF forward THEN "taillights" ELSE "headlights"
BY DEF Leds!TargetBar, Leds!Strips, Bars

(* The invariant says what the bars are when nothing changes.              *)
LEMMA LedsMatch == LedsInv => BarsMatch
<1> USE DEF BarsMatch, LedsInv, LedsTypes
<1> SUFFICES ASSUME LedsInv, aim = "none", ~changing, ~stale, "bars" \notin torn
             PROVE  BarsMatch
  BY DEF Leds!BarsMatch
<1>1. left = {} /\ aim \in Drawn
  BY DEF Drawn
<1>2. bar = [front |-> bar["front"], rear |-> bar["rear"]]
  BY DEF Leds!Strips
<1>3. CASE ~headlights_on
  <2>1. Shown(bar, direction_forward, FALSE, {})
    BY <1>1, <1>3 DEF BarsInv
  <2>2. bar["front"] = "front" /\ bar["rear"] = "rear"
    BY <2>1 DEF Shown, Leds!TargetBar, Leds!Strips
  <2> QED
    BY <1>2, <1>3, <2>2 DEF Leds!BarsMatch
<1>4. CASE headlights_on
  <2> SUFFICES ASSUME dir_split # 0
               PROVE  bar = IF dir_split = 1
                            THEN [front |-> "headlights", rear |-> "taillights"]
                            ELSE [front |-> "taillights", rear |-> "headlights"]
    BY <1>4 DEF Leds!BarsMatch
  <2>1. direction_forward <=> dir_split = 1
    BY <1>4 DEF DirectionInv, Coherent
  <2>2. Shown(bar, direction_forward, TRUE, {})
    BY <1>1, <1>4 DEF BarsInv
  <2>3. /\ bar["front"] = IF direction_forward THEN "headlights" ELSE "taillights"
        /\ bar["rear"] = IF direction_forward THEN "taillights" ELSE "headlights"
    BY <2>2, TargetBars DEF Shown
  <2> QED
    BY <1>2, <2>1, <2>3
<1> QED
  BY <1>3, <1>4

(* The direction that a frame begins with. *)
LEMMA FrameDirection ==
  ASSUME LedsInv, NEW nose_down \in BOOLEAN, NEW ahead \in BOOLEAN, NEW d,
         d = Leds!Cleared(Leds!Faced(nose_down), ahead),
         Leds!Should \in BOOLEAN
  PROVE  /\ d.split \in Leds!Splits /\ d.forward \in BOOLEAN
         /\ changing \/ (~Leds!Engages /\ ~Leds!Starts)
              => d.split = dir_split /\ d.forward = direction_forward
         /\ headlights_on \/ changing \/ Leds!Starts => Coherent(d.split, d.forward)
<1> DEFINE f == Leds!Faced(nose_down)
<1>1. /\ f.split \in Leds!Splits /\ f.forward \in BOOLEAN
      /\ ~Leds!Engages => f.split = dir_split /\ f.forward = direction_forward
      /\ Leds!Engages => Coherent(f.split, f.forward)
  <2>1. CASE Leds!Engages /\ nose_down
    <3>1. f = [split |-> -1, forward |-> FALSE]
      BY <2>1 DEF Leds!Faced
    <3> HIDE DEF f
    <3>2. f.split = -1 /\ f.forward = FALSE
      BY <3>1
    <3>3. ~f.forward /\ f.forward \in BOOLEAN
      BY <3>2, Zenon
    <3> QED
      BY <2>1, <3>2, <3>3 DEF Coherent, Leds!Splits
  <2>2. CASE Leds!Engages /\ ~nose_down
    <3>1. f = [split |-> 1, forward |-> TRUE]
      BY <2>2 DEF Leds!Faced
    <3> QED
      BY <2>2, <3>1 DEF Coherent, Leds!Splits
  <2>3. CASE ~Leds!Engages
    <3>1. f = [split |-> dir_split, forward |-> direction_forward]
      BY <2>3 DEF Leds!Faced
    <3> HIDE DEF f
    <3> QED
      BY <2>3, <3>1 DEF LedsInv, LedsTypes
  <2> QED
    BY <2>1, <2>2, <2>3
<1>2. changing => ~Leds!Engages /\ ~Leds!Starts
  BY DEF Leds!Engages, Leds!Starts
<1> HIDE DEF f
<1>3. CASE Leds!Starts /\ Leds!Should
  <2>1. /\ d.split \in {-1, 1} /\ (d.forward <=> d.split = 1)
        /\ d.forward \in BOOLEAN
    <3>1. CASE f.split = 1 \/ (f.split = 0 /\ ahead)
      <4>1. d = [split |-> 1, forward |-> TRUE]
        BY <1>3, <3>1 DEF Leds!Cleared, f
      <4> QED
        BY <4>1
    <3>2. CASE ~(f.split = 1 \/ (f.split = 0 /\ ahead))
      <4>1. d = [split |-> -1, forward |-> FALSE]
        BY <1>3, <3>2 DEF Leds!Cleared, f
      <4> QED
        BY <4>1
    <3> QED
      BY <3>1, <3>2
  <2> QED
    BY <1>2, <1>3, <2>1 DEF Leds!Splits, Coherent
<1>4. CASE ~(Leds!Starts /\ Leds!Should)
  <2>1. d = f
    BY <1>4 DEF Leds!Cleared, f
  <2>2. headlights_on \/ changing \/ Leds!Starts => headlights_on \/ changing
    <3>1. headlights_on \in BOOLEAN
      BY DEF LedsInv, LedsTypes
    <3>2. Leds!Starts => Leds!Should # headlights_on
      BY DEF Leds!Starts
    <3> QED
      BY <1>4, <3>1, <3>2
  <2>3. headlights_on \/ changing => Coherent(f.split, f.forward)
    BY <1>1 DEF LedsInv, DirectionInv
  <2> QED
    BY <1>1, <1>2, <2>1, <2>2, <2>3
<1> QED
  BY <1>3, <1>4

(* A frame keeps the invariant until it chooses bars.                      *)
LEMMA DrawStep ==
  ASSUME LedsInv, aim = "none", Leds!Should \in BOOLEAN,
         NEW d \in Leds!Directions, NEW split \in Leds!DirSplits(d.split),
         NEW headlights \in Leds!HeadlightsSplits,
         Leds!Draw(d, split, headlights),
         headlights_enabled' = headlights_enabled
  PROVE  LedsInv'
<1> DEFINE on == Leds!Should
           ends == Leds!Ends(headlights)
           turned == headlights_on /\ split # d.split /\ split # 0
           forward == IF turned THEN split = 1 ELSE d.forward
<1>1. /\ dir_split' = split /\ direction_forward' = forward
      /\ headlights_split' = headlights
      /\ changing' = ((changing \/ Leds!Starts) /\ ~ends)
      /\ headlights_on' = IF ends THEN on ELSE headlights_on
      /\ aim' = IF Leds!Starts THEN "targets" ELSE IF turned THEN "turn"
                ELSE IF ~ends THEN "paint"
                ELSE IF on = headlights_on THEN "stay" ELSE "change"
      /\ should' = (aim' # "paint" /\ on)
      /\ left' = IF aim' = "paint" THEN {} ELSE Leds!Strips
      /\ stale' = (~turned /\ ~ends /\ (stale \/ (Leds!Engages /\ headlights_on)))
      /\ UNCHANGED <<bar, time_target, torn>>
  BY DEF Leds!Draw, Leds!bars
<1>2. /\ d.split \in Leds!Splits /\ d.forward \in BOOLEAN
      /\ changing \/ (~Leds!Engages /\ ~Leds!Starts)
           => d.split = dir_split /\ d.forward = direction_forward
      /\ headlights_on \/ changing \/ Leds!Starts => Coherent(d.split, d.forward)
  <2>1. PICK nose_down, ahead \in BOOLEAN : d = Leds!Cleared(Leds!Faced(nose_down), ahead)
    BY DEF Leds!Directions
  <2> QED
    BY <2>1, FrameDirection
<1>3. headlights \in Leds!Splits /\ ends \in BOOLEAN /\ (ends => changing)
  BY DEF Leds!HeadlightsSplits, Leds!Clamped, Leds!Splits, Leds!Ends, LedsInv,
         LedsTypes
<1>4. Leds!Starts <=> on # headlights_on /\ ~changing
  BY DEF Leds!Starts
<1>5. on \in BOOLEAN
  OBVIOUS
<1>6. split \in Leds!Splits /\ (changing \/ Leds!Starts => split = d.split)
  BY <1>2 DEF Leds!DirSplits
<1> HIDE DEF ends, on
<1>7. turned => ~changing /\ ~Leds!Starts
  BY <1>6
<1>8. turned \in BOOLEAN /\ forward \in BOOLEAN
  <2>1. turned \in BOOLEAN
    BY Zenon DEF LedsInv, LedsTypes
  <2> HIDE DEF turned
  <2>2. (split = 1) \in BOOLEAN
    OBVIOUS
  <2> QED
    BY <1>2, <2>1, <2>2
<1>9. turned => headlights_on /\ split # 0 /\ (forward <=> split = 1)
  OBVIOUS
<1>10. ~turned => forward = d.forward /\ (headlights_on => split = d.split \/ split = 0)
  OBVIOUS
<1> HIDE DEF turned, forward
<1> USE DEF LedsInv, LedsTypes
<1>a. aim' # "paint" => should' = on
  <2>1. should' = (aim' # "paint" /\ on)
    BY <1>1
  <2> QED
    BY <1>5, <2>1, Zenon
<1>11. LedsTypes'
  <2>1. changing' \in BOOLEAN /\ stale' \in BOOLEAN
    BY <1>1, Zenon
  <2>2. headlights_on' \in BOOLEAN
    BY <1>1, <1>5
  <2>3. direction_forward' \in BOOLEAN /\ headlights_enabled' \in BOOLEAN
    BY <1>1, <1>8
  <2>4. headlights_split' \in Leds!Splits /\ dir_split' \in Leds!Splits
    BY <1>1, <1>3, <1>6
  <2>5. /\ aim' \in Drawn \cup {"targets", "turn", "stay", "change"}
        /\ left' \in SUBSET Leds!Strips /\ (left' = {} <=> aim' \in Drawn)
    BY <1>1 DEF Drawn, Leds!Strips
  <2> QED
    BY <1>1, <2>1, <2>2, <2>3, <2>4, <2>5
<1>12. ChoiceInv'
  <2>1. CASE Leds!Starts
    <3>1. aim' = "targets" /\ changing' /\ headlights_on' = headlights_on /\ should' = on
      BY <1>1, <1>3, <1>4, <1>a, <2>1
    <3> QED
      BY <1>4, <1>5, <2>1, <3>1 DEF ChoiceInv, Drawn
  <2>2. CASE turned
    <3>1. /\ aim' = "turn" /\ ~changing' /\ ~stale'
          /\ headlights_on' = headlights_on /\ should' = on
      BY <1>1, <1>3, <1>7, <1>a, <2>2
    <3> QED
      BY <1>4, <1>5, <1>7, <2>2, <3>1 DEF ChoiceInv, Drawn
  <2>3. CASE ends
    <3>1. /\ aim' \in {"stay", "change"} /\ ~changing' /\ ~stale'
          /\ headlights_on' = on /\ should' = on
      BY <1>1, <1>3, <1>4, <1>7, <1>a, <2>3
    <3> QED
      BY <1>5, <3>1 DEF ChoiceInv, Drawn
  <2>4. CASE ~Leds!Starts /\ ~turned /\ ~ends
    <3>1. aim' = "paint"
      BY <1>1, <2>4
    <3> QED
      BY <3>1 DEF ChoiceInv, Drawn
  <2> QED
    BY <2>1, <2>2, <2>3, <2>4
<1>13. TargetInv'
  <2> SUFFICES ASSUME "targets" \notin torn
               PROVE  /\ changing' => Shown(time_target', direction_forward', ~headlights_on',
                                            IF aim' = "targets" THEN left' ELSE {})
                      /\ aim' = "change" => Shown(time_target', direction_forward',
                                                  headlights_on', {})
    BY <1>1 DEF TargetInv
  <2>1. CASE Leds!Starts
    BY <1>1, <2>1 DEF Shown
  <2>2. CASE changing
    <3>1. /\ Shown(time_target, direction_forward, ~headlights_on, {})
          /\ direction_forward' = direction_forward /\ ~turned /\ ~Leds!Starts
      BY <1>1, <1>2, <1>4, <1>7, <1>10, <2>2 DEF TargetInv
    <3>2. changing' => ~ends /\ aim' = "paint" /\ headlights_on' = headlights_on
      BY <1>1, <3>1
    <3>3. aim' = "change" => headlights_on' = ~headlights_on
      BY <1>1, <1>5, <3>1
    <3> QED
      BY <1>1, <3>1, <3>2, <3>3
  <2>3. CASE ~Leds!Starts /\ ~changing
    BY <1>1, <1>3, <2>3
  <2> QED
    BY <2>1, <2>2, <2>3
<1>14. DirectionInv'
  <2>1. CASE turned
    BY <1>1, <1>9, <2>1 DEF DirectionInv, Coherent
  <2>2. CASE ~turned /\ headlights_on
    BY <1>1, <1>2, <1>10, <2>2 DEF DirectionInv, Coherent
  <2>3. CASE ~turned /\ ~headlights_on
    BY <1>1, <1>2, <1>3, <1>6, <1>10, <2>3 DEF DirectionInv, Coherent
  <2> QED
    BY <2>1, <2>2, <2>3
<1>15. BarsInv'
  <2>1. CASE aim' # "paint"
    BY <1>1, <2>1 DEF BarsInv, Shown
  <2>2. CASE aim' = "paint"
    <3> SUFFICES ASSUME ~changing', ~stale', "bars" \notin torn,
                        headlights_on => dir_split' # 0
                 PROVE  Shown(bar, direction_forward', headlights_on, {})
      BY <1>1, <2>2 DEF BarsInv, Drawn
    <3>1. ~turned /\ ~ends /\ ~Leds!Starts /\ ~changing /\ ~stale
          /\ (headlights_on => ~Leds!Engages)
      BY <1>1, <2>2
    <3>2. headlights_on => dir_split = split /\ direction_forward' = direction_forward
      BY <1>1, <1>2, <1>10, <3>1
    <3>3. Shown(bar, direction_forward, headlights_on, {})
      BY <1>1, <3>1, <3>2 DEF BarsInv, Drawn
    <3>4. CASE headlights_on
      BY <3>2, <3>3, <3>4
    <3>5. CASE ~headlights_on
      <4>1. direction_forward \in BOOLEAN /\ direction_forward' \in BOOLEAN
        BY <1>1, <1>8
      <4>2. headlights_on = FALSE
        BY <3>5
      <4> QED
        BY <3>3, <4>1, <4>2 DEF Shown, Leds!TargetBar
    <3> QED
      BY <3>4, <3>5
  <2> QED
    BY <2>1, <2>2
<1> QED
  BY <1>11, <1>12, <1>13, <1>14, <1>15

(* So does each choice.                                                    *)
LEMMA ChooseStep ==
  ASSUME LedsInv, NEW strip \in Leds!Strips, Leds!Choose(strip)
  PROVE  /\ LedsInv'
         /\ aim = "change" /\ aim' = "none" /\ torn' = {} => bar' = time_target
<1> USE DEF LedsInv, LedsTypes
<1> DEFINE target == Leds!TargetBar(Leds!Now, direction_forward, strip)
<1>1. /\ strip \in left /\ left' = left \ {strip} /\ aim \notin Drawn
      /\ IF aim = "targets"
         THEN time_target' = [time_target EXCEPT ![strip] = target] /\ bar' = bar
         ELSE bar' = [bar EXCEPT ![strip] = target] /\ time_target' = time_target
      /\ torn' = (IF left = Leds!Strips THEN torn \ {Leds!Kind} ELSE torn)
                   \cup (IF Leds!Now = should THEN {} ELSE {Leds!Kind})
      /\ aim' = IF left' = {} THEN "none" ELSE aim
      /\ should' = (aim' # "none" /\ should)
      /\ UNCHANGED <<headlights_enabled, headlights_on, changing, headlights_split,
                     dir_split, direction_forward, stale>>
  BY DEF Leds!Choose, Leds!status, Leds!splits, Drawn
<1>2. /\ aim = "targets" <=> changing
      /\ changing \/ ~stale
      /\ should = IF aim = "targets" THEN ~headlights_on ELSE headlights_on
  BY <1>1 DEF ChoiceInv
<1>3. Leds!Now \in BOOLEAN
  BY DEF Leds!Now
<1>4. target \in Bars
  BY <1>3, TargetBars
<1>5. Leds!Now = should =>
        target = Leds!TargetBar(IF aim = "targets" THEN ~headlights_on ELSE headlights_on,
                                direction_forward, strip)
  BY <1>2
<1> HIDE DEF target
<1>6. LedsTypes'
  <2>1. left' \in SUBSET Leds!Strips /\ (left' = {} <=> aim' \in Drawn)
    BY <1>1 DEF Drawn
  <2>2. bar' \in [Leds!Strips -> Bars] /\ time_target' \in [Leds!Strips -> Bars]
    BY <1>1, <1>4
  <2>3. aim' \in Drawn \cup {"targets", "turn", "stay", "change"}
    BY <1>1 DEF Drawn
  <2> QED
    BY <1>1, <2>1, <2>2, <2>3
<1>7. ChoiceInv'
  <2> SUFFICES ASSUME aim' \notin Drawn
               PROVE  /\ aim' = "targets" <=> changing'
                      /\ changing' \/ ~stale'
                      /\ should' = IF aim' = "targets" THEN ~headlights_on'
                                   ELSE headlights_on'
    BY DEF ChoiceInv
  <2>1. aim' = aim /\ aim' # "none"
    BY <1>1 DEF Drawn
  <2> QED
    BY <1>1, <1>2, <2>1
<1>8. DirectionInv'
  BY <1>1 DEF DirectionInv, Coherent
<1>9. CASE aim = "targets"
  <2>1. Leds!Kind = "targets" /\ changing'
    BY <1>1, <1>2, <1>9 DEF Leds!Kind
  <2>2. BarsInv' /\ aim' # "change"
    BY <1>1, <1>9, <2>1 DEF BarsInv
  <2>3. ASSUME "targets" \notin torn'
        PROVE  Shown(time_target', direction_forward, ~headlights_on, left')
    <3>1. Leds!Now = should /\ (left = Leds!Strips \/ "targets" \notin torn)
      BY <1>1, <2>1, <2>3
    <3>2. Shown(time_target, direction_forward, ~headlights_on, left)
      BY <1>2, <1>9, <3>1 DEF TargetInv, Shown
    <3>3. /\ time_target' = [time_target EXCEPT ![strip] = target]
          /\ target = Leds!TargetBar(~headlights_on, direction_forward, strip)
      BY <1>1, <1>5, <1>9, <3>1
    <3> QED
      BY <1>1, <3>2, <3>3 DEF Shown
  <2>4. aim' = "targets" \/ left' = {}
    BY <1>1, <1>9
  <2>5. TargetInv'
    <3>1. CASE aim' = "targets"
      BY <1>1, <2>3, <3>1 DEF TargetInv
    <3>2. CASE aim' # "targets" /\ left' = {}
      BY <1>1, <2>2, <2>3, <3>2 DEF TargetInv
    <3> QED
      BY <2>4, <3>1, <3>2
  <2> QED
    BY <1>6, <1>7, <1>8, <1>9, <2>2, <2>5
<1>10. CASE aim # "targets"
  <2>1. Leds!Kind = "bars" /\ ~changing'
    BY <1>1, <1>2, <1>10 DEF Leds!Kind
  <2>2. ASSUME "bars" \notin torn', ~stale
        PROVE  Shown(bar', direction_forward, headlights_on, left')
    <3>1. Leds!Now = should /\ (left = Leds!Strips \/ "bars" \notin torn)
      BY <1>1, <2>1, <2>2
    <3>2. Shown(bar, direction_forward, headlights_on, left)
      BY <1>1, <1>2, <1>10, <2>2, <3>1 DEF BarsInv, Shown
    <3>3. /\ bar' = [bar EXCEPT ![strip] = target]
          /\ target = Leds!TargetBar(headlights_on, direction_forward, strip)
      BY <1>1, <1>5, <1>10, <3>1
    <3> QED
      BY <1>1, <3>2, <3>3 DEF Shown
  <2>3. BarsInv'
    BY <1>1, <2>2 DEF BarsInv
  <2>4. "targets" \notin torn' => "targets" \notin torn
    BY <1>1, <2>1
  <2>5. TargetInv'
    BY <1>1, <1>10, <2>1, <2>4 DEF TargetInv, Drawn
  <2>6. ASSUME aim = "change", aim' = "none", torn' = {} PROVE bar' = time_target
    <3>1. left' = {} /\ "targets" \notin torn
      BY <1>6, <2>4, <2>6 DEF Drawn
    <3>2. Shown(time_target, direction_forward, headlights_on, {})
      BY <2>6, <3>1 DEF TargetInv
    <3>3. Shown(bar', direction_forward, headlights_on, {})
      BY <1>2, <1>10, <2>2, <2>6, <3>1
    <3>4. bar' \in [Leds!Strips -> Bars]
      BY <1>6
    <3> QED
      BY <3>2, <3>3, <3>4 DEF Shown
  <2> QED
    BY <1>6, <1>7, <1>8, <2>3, <2>5, <2>6
<1> QED
  BY <1>9, <1>10

(* Every step of the LEDs keeps the invariant, and ends a change in the    *)
(* bars that it went to.                                                   *)
LEMMA LedsStep ==
  ASSUME LedsInv, [Leds!Next]_Leds!vars
  PROVE  /\ LedsInv'
         /\ aim = "change" /\ aim' = "none" /\ torn' = {} => bar' = time_target
<1>1. ASSUME UNCHANGED <<headlights_on, changing, Leds!splits, direction_forward,
                         Leds!bars, should, left, torn, stale>>,
             aim' = aim \/ (aim \in Drawn /\ aim' \in Drawn),
             headlights_enabled' \in BOOLEAN
      PROVE  LedsInv'
  <2>1. /\ aim' \in Drawn <=> aim \in Drawn
        /\ aim' = "targets" <=> aim = "targets"
        /\ aim' = "change" <=> aim = "change"
    BY <1>1 DEF Drawn
  <2>2. LedsTypes'
    BY <1>1, <2>1 DEF Leds!splits, Leds!bars, LedsInv, LedsTypes
  <2>3. ChoiceInv' /\ TargetInv'
    BY <1>1, <2>1 DEF Leds!bars, LedsInv, ChoiceInv, TargetInv, Shown
  <2>4. DirectionInv' /\ BarsInv'
    BY <1>1, <2>1 DEF Leds!bars, Leds!splits, LedsInv, DirectionInv, Coherent,
                      BarsInv, Shown
  <2> QED
    BY <2>2, <2>3, <2>4 DEF LedsInv
<1>2. CASE Leds!FrameBegins
  <2>1. /\ headlights_enabled' = headlights_enabled /\ headlights_enabled \in BOOLEAN
        /\ aim = "none"
    BY <1>2 DEF Leds!FrameBegins, Leds!status, LedsInv, LedsTypes
  <2>2. Leds!Should \in BOOLEAN
    BY <1>2, <2>1 DEF Leds!FrameBegins, Leds!Should
  <2>3. CASE \E d \in Leds!Directions :
               \E split \in Leds!DirSplits(d.split), headlights \in Leds!HeadlightsSplits :
                 Leds!Draw(d, split, headlights)
    BY <2>1, <2>2, <2>3, DrawStep
  <2>4. CASE /\ aim' = "paint"
             /\ UNCHANGED <<headlights_on, changing, Leds!splits, direction_forward,
                            Leds!bars, should, left, torn, stale>>
    BY <1>1, <2>1, <2>4 DEF Drawn
  <2>5. LedsInv'
    BY <1>2, <2>3, <2>4 DEF Leds!FrameBegins
  <2> QED
    BY <2>1, <2>5
<1>3. CASE \E strip \in Leds!Strips : Leds!Choose(strip)
  BY <1>3, ChooseStep
<1>4. CASE Leds!Paint
  BY <1>1, <1>4 DEF Leds!Paint, Drawn, Leds!status, LedsInv, LedsTypes
<1>5. CASE Leds!Switch \/ UNCHANGED Leds!vars
  <2>1. UNCHANGED <<headlights_on, changing, Leds!splits, direction_forward,
                    Leds!bars, should, aim, left, torn, stale>>
    BY <1>5 DEF Leds!Switch, Leds!vars, Leds!choice
  <2>2. headlights_enabled' \in BOOLEAN
    BY <1>5 DEF Leds!Switch, Leds!vars, Leds!status, LedsInv, LedsTypes
  <2> QED
    BY <1>1, <2>1, <2>2
<1> QED
  BY <1>2, <1>3, <1>4, <1>5 DEF Leds!Next, Leds!Frames

(* leds_setup shows the bars of headlights that are off.                   *)
LEMMA LedsStart == Leds!Init => LedsInv
<1> SUFFICES ASSUME Leds!Init PROVE LedsInv
  OBVIOUS
<1>1. LedsTypes
  BY DEF Leds!Init, LedsTypes, Leds!Splits, Leds!Strips, Bars, Drawn
<1>2. ChoiceInv /\ TargetInv /\ DirectionInv
  BY DEF Leds!Init, ChoiceInv, Drawn, TargetInv, DirectionInv
<1>3. BarsInv
  BY TargetBars DEF Leds!Init, BarsInv, Shown
<1> QED
  BY <1>1, <1>2, <1>3 DEF LedsInv

(* LEDs: when nothing changes, the strips show the bars of the headlights  *)
(* and of the direction of the ride, but for bars that a frame chose with  *)
(* two readings of the switch (leds_update, target_bar, leds.c).           *)
THEOREM BarsAreRight == Leds!Spec => []BarsMatch
BY LedsStart, LedsStep, LedsMatch, PTL DEF Leds!Spec

(* LEDs: a change of the headlights ends in the bars it was started for,   *)
(* with the same exception (leds_update, leds.c).                          *)
THEOREM ChangesArrive == Leds!Spec => ChangesEndWhereTheyWent
<1>1. LedsInv /\ [Leds!Next]_Leds!vars =>
        LedsInv' /\ [aim = "change" /\ aim' = "none" /\ torn' = {}
                       => bar' = time_target]_Leds!vars
  BY LedsStep
<1> QED
  BY <1>1, LedsStart, PTL
  DEF Leds!Spec, ChangesEndWhereTheyWent, Leds!ChangesEndWhereTheyWent

-----------------------------------------------------------------------------
(* Every step of a behaviour of the parts is one of each of these or       *)
(* leaves its variables alone.                                             *)
LEMMA RideSteps ==
  [PartsNext]_all =>
    /\ [Reverse!Next]_Reverse!vars /\ [Touches!Next]_Touches!vars
    /\ [Leds!Next]_Leds!vars
<1> SUFFICES ASSUME [PartsNext]_all
             PROVE  /\ [Reverse!Next]_Reverse!vars /\ [Touches!Next]_Touches!vars
                    /\ [Leds!Next]_Leds!vars
  OBVIOUS
<1>1. UNCHANGED reverse => UNCHANGED Reverse!vars
  BY DEF reverse, Reverse!vars, Reverse!rs, Reverse!ride
<1>2. UNCHANGED konami => UNCHANGED Touches!vars
  BY DEF konami, Touches!vars
<1>3. UNCHANGED leds => UNCHANGED Leds!vars
  BY DEF leds, Leds!vars, Leds!status, Leds!splits, Leds!bars, Leds!choice
<1>4. CASE \/ OfBuffer(Next) \/ OfBeeper(Beeper!Next) \/ OfHaptic(Haptic!Next)
           \/ OfRemote(Remote!Next) \/ OfBms(Bms!Next) \/ OfSma(Sma!Next)
           \/ OfTracker(Tracker!Next)
  BY <1>1, <1>2, <1>3, <1>4
  DEF OfBuffer, OfBeeper, OfHaptic, OfRemote, OfBms, OfSma, OfTracker
<1>5. CASE \/ OfReverse(Reverse!Next) \/ OfKonami(Touches!Next)
           \/ OfLeds(Leds!Next)
  BY <1>1, <1>2, <1>3, <1>5 DEF OfReverse, OfKonami, OfLeds
<1>6. CASE UNCHANGED all
  BY <1>1, <1>2, <1>3, <1>6 DEF all
<1> QED
  BY <1>4, <1>5, <1>6 DEF PartsNext

(* The machines of these parts are the ones the run of all parts checks:   *)
(* each of its behaviours is a behaviour of reverse stop, of the konami    *)
(* sequences and of the LEDs.                                              *)
THEOREM RidePartsKeepTheirSpecs ==
  PartsSpec => Reverse!Spec /\ Touches!Spec /\ Leds!Spec
<1>1. PartsInit => Reverse!Init /\ Touches!Init /\ Leds!Init
  BY DEF PartsInit
<1> QED
  BY <1>1, RideSteps, PTL DEF PartsSpec, Reverse!Spec, Touches!Spec, Leds!Spec
=============================================================================
