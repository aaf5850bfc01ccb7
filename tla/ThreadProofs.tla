---------------------------- MODULE ThreadProofs ----------------------------
(***************************************************************************)
(* The parts in which two threads meet, proved for every value of their    *)
(* constants: the remote, the moving average, the frequency tracker and    *)
(* the BMS, whose variables have the names they have in MCParts.           *)
(***************************************************************************)
EXTENDS MCParts, TLAPS, WellFoundedInduction

RemoteTypes ==
  /\ remote_running \in BOOLEAN /\ straddles \in BOOLEAN
  /\ command_value \in Remote!Values
  /\ received \in Remote!Values \cup {Remote!NaN}
  /\ move_idle \in Nat /\ disengage \in Nat

(* A ride leaves nothing for the time after it: no speed, no move that     *)
(* idles, and the time of its end in the iteration after an engage.        *)
RideInv ==
  remote_running => /\ move_idle > Remote!IdleTimeout
                    /\ straddles \/ move_speed = Remote!NaN
                    /\ remote_todo # "time" => disengage = 0

(* Between rides a move that idles was started after the grace period,     *)
(* and so was a command that passed its test.                              *)
RestInv ==
  ~remote_running /\ move_idle <= Remote!IdleTimeout
    => disengage > Remote!LeastGrace
StraddleInv ==
  command = "speed" /\ ~straddles
    => ~remote_running /\ disengage > Remote!CommandGrace

RemoteInv ==
  /\ RemoteTypes /\ RideInv /\ RestInv /\ StraddleInv
  /\ Remote!MoveHonoursGrace

-----------------------------------------------------------------------------
(* The grace periods are in order, and an age that grows stays beyond them. *)
LEMMA Graces ==
  ASSUME Grace \in Nat
  PROVE  /\ Remote!LeastGrace \in Nat /\ Remote!LongestGrace \in Nat
         /\ Remote!LeastGrace <= Grace
         /\ Remote!LeastGrace <= Remote!CommandGrace
         /\ Grace <= Remote!LongestGrace
         /\ Remote!CommandGrace <= Remote!LongestGrace
  BY DEF Remote!LeastGrace, Remote!LongestGrace, Remote!CommandGrace

LEMMA OlderStays ==
  ASSUME NEW age \in Nat, NEW timeout \in Nat, NEW d \in {0, 1},
         NEW bound \in Nat, bound <= timeout
  PROVE  /\ Remote!Older(age, d, timeout) \in Nat
         /\ age > bound => Remote!Older(age, d, timeout) > bound
  BY DEF Remote!Older

(* When the board is set up, no move is under way.                         *)
LEMMA RemoteStarts == ASSUME Grace \in Nat, Remote!Init PROVE RemoteInv
<1>1. Remote!LongestGrace \in Nat
  BY Graces
<1>2. /\ remote_running = FALSE /\ straddles = FALSE /\ command = "none"
      /\ move_speed = Remote!NaN
  BY DEF Remote!Init
<1>3. move_idle > Remote!IdleTimeout /\ move_idle \in Nat /\ disengage \in Nat
  BY <1>1 DEF Remote!Init, Remote!IdleTimeout
<1>4. RemoteTypes
  BY <1>2, <1>3 DEF Remote!Init, RemoteTypes, Remote!Values, Remote!NaN
<1>5. RestInv
  BY <1>3 DEF RestInv, Remote!IdleTimeout
<1> QED
  BY <1>2, <1>4, <1>5
  DEF RemoteInv, RideInv, StraddleInv, Remote!MoveHonoursGrace

(* Time only makes the disengage older, or holds it on a ride.             *)
LEMMA RemoteTimeStep ==
  ASSUME Grace \in Nat, RemoteInv, Remote!TimeUpdate
  PROVE  RemoteInv'
<1>1. PICK d \in {0, 1} :
        /\ move_idle' = Remote!Older(move_idle, d, Remote!IdleTimeout)
        /\ disengage' = IF remote_running THEN 0
                        ELSE Remote!Older(disengage, d, Remote!LongestGrace)
  BY DEF Remote!TimeUpdate
<1>2. /\ remote_todo' = "input"
      /\ UNCHANGED <<remote_running, input, move_speed, received, command,
                     command_value, straddles>>
  BY DEF Remote!TimeUpdate, Remote!commands
<1>3. Remote!IdleTimeout \in Nat /\ Remote!CommandGrace \in Nat
  BY DEF Remote!IdleTimeout, Remote!CommandGrace
<1>4. /\ move_idle' \in Nat
      /\ move_idle > Remote!IdleTimeout => move_idle' > Remote!IdleTimeout
  <2>1. move_idle \in Nat /\ Remote!IdleTimeout <= Remote!IdleTimeout
    BY <1>3 DEF RemoteInv, RemoteTypes
  <2> QED BY <1>1, <1>3, <2>1, OlderStays
<1>5. ASSUME ~remote_running
      PROVE  /\ disengage' \in Nat
             /\ disengage > Remote!LeastGrace => disengage' > Remote!LeastGrace
             /\ disengage > Remote!CommandGrace => disengage' > Remote!CommandGrace
  <2>1. Remote!LeastGrace \in Nat /\ Remote!LongestGrace \in Nat
        /\ Remote!LeastGrace <= Remote!LongestGrace
        /\ Remote!CommandGrace <= Remote!LongestGrace
    BY Graces, <1>3
  <2>2. disengage' = Remote!Older(disengage, d, Remote!LongestGrace) /\ disengage \in Nat
    BY <1>1, <1>5 DEF RemoteInv, RemoteTypes
  <2> QED BY <2>1, <2>2, <1>3, OlderStays
<1>6. remote_running => disengage' = 0
  BY <1>1
<1>7. RemoteTypes'
  BY <1>2, <1>4, <1>5, <1>6 DEF RemoteInv, RemoteTypes
<1>8. RideInv'
  BY <1>2, <1>4, <1>6 DEF RemoteInv, RideInv
<1>9. RestInv'
  BY <1>2, <1>3, <1>4, <1>5
  DEF RemoteInv, RemoteTypes, RestInv, Remote!LeastGrace
<1>10. StraddleInv'
  BY <1>2, <1>5 DEF RemoteInv, RemoteTypes, StraddleInv
<1>11. Remote!MoveHonoursGrace'
  BY <1>2, <1>5
  DEF RemoteInv, RemoteTypes, Remote!MoveHonoursGrace, Remote!LeastGrace
<1> QED BY <1>7, <1>8, <1>9, <1>10, <1>11 DEF RemoteInv

(* The receiver sets a speed after the grace period of the ride only, and  *)
(* a stick at rest only holds a move that has not idled.                   *)
LEMMA MoveSpeedStep ==
  ASSUME Grace \in Nat, RemoteInv, Remote!MoveSpeed
  PROVE  RemoteInv'
<1> USE DEF RemoteInv, RemoteTypes
<1>1. Remote!LeastGrace \in Nat /\ Remote!LeastGrace <= Grace
  BY Graces
<1>2. /\ remote_todo = "speed" /\ remote_todo' = "value"
      /\ UNCHANGED <<remote_running, disengage, received, command,
                     command_value, straddles>>
  BY DEF Remote!MoveSpeed, Remote!commands
<1>3. move_idle' = IF Remote!Moves THEN 0 ELSE move_idle
  BY DEF Remote!MoveSpeed
<1>4. Remote!Moves => ~remote_running /\ disengage > Remote!LeastGrace
  BY <1>1, <1>2 DEF Remote!Moves, RideInv
<1>5. move_speed' \notin {Remote!NaN, move_speed}
        => Remote!Moves \/ (~Remote!Moves /\ move_idle <= Remote!IdleTimeout)
  BY DEF Remote!MoveSpeed, Remote!IdleTimeout
<1>6. RemoteTypes'
  BY <1>2, <1>3
<1>7. RideInv'
  BY <1>2, <1>3, <1>4, <1>5 DEF RideInv, Remote!IdleTimeout
<1>8. RestInv'
  BY <1>2, <1>3, <1>4 DEF RestInv, Remote!LeastGrace
<1>9. StraddleInv'
  BY <1>2 DEF StraddleInv
<1>10. Remote!MoveHonoursGrace'
  BY <1>2, <1>4, <1>5 DEF Remote!MoveHonoursGrace, RestInv, Remote!LeastGrace
<1> QED BY <1>6, <1>7, <1>8, <1>9, <1>10

(* An engage clears the move, and marks a command that is about to set it. *)
LEMMA RemoteStateStep ==
  ASSUME Grace \in Nat, RemoteInv, Remote!State
  PROVE  RemoteInv'
<1> USE DEF RemoteInv, RemoteTypes
<1>1. /\ remote_todo' = "time"
      /\ UNCHANGED <<disengage, received, command, command_value>>
  BY DEF Remote!State, Remote!commands
<1>2. CASE Remote!Engage
  <2>1. /\ remote_running' = TRUE /\ move_speed' = Remote!NaN
        /\ move_idle' = Remote!IdleTimeout + 1
        /\ straddles' \in BOOLEAN
        /\ command = "speed" => straddles'
    BY <1>2, Zenon DEF Remote!Engage
  <2>2. RemoteTypes'
    BY <1>1, <2>1 DEF Remote!IdleTimeout
  <2>3. RideInv'
    BY <1>1, <2>1 DEF RideInv, Remote!IdleTimeout
  <2>4. RestInv' /\ StraddleInv' /\ Remote!MoveHonoursGrace'
    BY <1>1, <2>1 DEF RestInv, StraddleInv, Remote!MoveHonoursGrace
  <2> QED BY <2>2, <2>3, <2>4
<1>3. CASE /\ remote_running' \in {remote_running, FALSE}
           /\ UNCHANGED <<move_speed, move_idle, straddles>>
  <2>1. remote_running' = remote_running \/ remote_running' = FALSE
    BY <1>3
  <2>2. (remote_running' => remote_running) /\ remote_running' \in BOOLEAN
    <3>1. CASE remote_running' = remote_running
      BY <3>1
    <3>2. CASE remote_running' = FALSE
      BY <3>2
    <3> QED BY <2>1, <3>1, <3>2
  <2>3. RemoteTypes'
    BY <1>1, <1>3, <2>2
  <2>4. RideInv'
    BY <1>1, <1>3, <2>2 DEF RideInv
  <2>5. RestInv'
    BY <1>1, <1>3, <2>2
    DEF RideInv, RestInv, Remote!IdleTimeout, Remote!LeastGrace
  <2>6. StraddleInv'
    BY <1>1, <1>3, <2>2 DEF StraddleInv
  <2>7. Remote!MoveHonoursGrace'
    BY <1>1, <1>3, <2>2 DEF RideInv, Remote!MoveHonoursGrace, Remote!LeastGrace
  <2> QED BY <2>3, <2>4, <2>5, <2>6, <2>7
<1> QED BY <1>2, <1>3 DEF Remote!State

(* A command that passed its test sets the speed, on a ride or after it.   *)
LEMMA RemoteCommandStep ==
  ASSUME Grace \in Nat, RemoteInv, Remote!Command
  PROVE  RemoteInv'
<1> USE DEF RemoteInv, RemoteTypes
<1>1. Remote!LeastGrace \in Nat /\ Remote!LeastGrace <= Remote!CommandGrace
  BY Graces
<1>2. Remote!CommandGrace \in Nat
  BY DEF Remote!CommandGrace
<1>3. UNCHANGED <<remote_running, remote_todo, received, move_idle, disengage>>
  BY DEF Remote!Command, Remote!CommandInput, Remote!CommandTest,
         Remote!CommandSpeed, Remote!CommandTimer, Remote!main, Remote!ages
<1>4. CASE Remote!CommandInput
  BY <1>3, <1>4
  DEF Remote!CommandInput, RideInv, RestInv, StraddleInv,
      Remote!MoveHonoursGrace, Remote!ages, Remote!main, Remote!LeastGrace
<1>5. CASE Remote!CommandTest
  BY <1>1, <1>2, <1>3, <1>5
  DEF Remote!CommandTest, RideInv, RestInv, StraddleInv,
      Remote!MoveHonoursGrace, Remote!LeastGrace
<1>6. CASE Remote!CommandSpeed
  BY <1>1, <1>2, <1>3, <1>6
  DEF Remote!CommandSpeed, RideInv, RestInv, StraddleInv,
      Remote!MoveHonoursGrace, Remote!LeastGrace
<1>7. CASE Remote!CommandTimer
  BY <1>3, <1>7
  DEF Remote!CommandTimer, RideInv, RestInv, StraddleInv,
      Remote!MoveHonoursGrace, Remote!LeastGrace
<1> QED BY <1>4, <1>5, <1>6, <1>7 DEF Remote!Command

(* Every step keeps the invariant.                                         *)
LEMMA RemoteNext ==
  ASSUME Grace \in Nat, RemoteInv, [Remote!Next]_Remote!vars
  PROVE  RemoteInv'
<1> USE DEF RemoteInv, RemoteTypes
<1>1. CASE Remote!RemoteInput
  BY <1>1
  DEF Remote!RemoteInput, RideInv, RestInv, StraddleInv,
      Remote!MoveHonoursGrace, Remote!ages, Remote!commands, Remote!LeastGrace
<1>2. CASE Remote!Input
  BY <1>2
  DEF Remote!Input, RideInv, RestInv, StraddleInv, Remote!MoveHonoursGrace,
      Remote!ages, Remote!commands, Remote!LeastGrace
<1>3. CASE UNCHANGED Remote!vars
  BY <1>3
  DEF Remote!vars, Remote!main, Remote!ages, Remote!commands, RideInv, RestInv,
      StraddleInv, Remote!MoveHonoursGrace, Remote!LeastGrace
<1> QED
  BY <1>1, <1>2, <1>3, RemoteTimeStep, MoveSpeedStep, RemoteStateStep,
     RemoteCommandStep
  DEF Remote!Next, Remote!Main

(* remote.c:98-112, 125-129: between rides the IMU callback finds no speed *)
(* that was set before the shorter of the two grace periods was over.      *)
THEOREM GraceIsHonoured ==
  ASSUME Grace \in Nat
  PROVE  Remote!Spec => []MoveHonoursGrace
<1>1. Remote!Init => RemoteInv
  BY RemoteStarts
<1>2. RemoteInv /\ [Remote!Next]_Remote!vars => RemoteInv'
  BY RemoteNext
<1>3. RemoteInv => MoveHonoursGrace
  BY DEF RemoteInv, MoveHonoursGrace
<1> QED BY <1>1, <1>2, <1>3, PTL DEF Remote!Spec

-----------------------------------------------------------------------------
(* What was asked for is a size, and there is one as long as the update    *)
(* takes it over: only the update itself withdraws it.                     *)
AskInv ==
  /\ asks \in [Configurers -> 0..Allocated]
  /\ sma_todo \in {"resize", "scale", "adopt"} => new_n # 0

WindowInv == AskInv /\ Sma!WindowInBounds

-----------------------------------------------------------------------------
(* After the first configuration the window is in the memory and empty.    *)
LEMMA WindowStarts == ASSUME Allocated \in Nat \ {0}, Sma!Init PROVE WindowInv
  BY DEF Sma!Init, WindowInv, AskInv, Sma!WindowInBounds, Sma!Sizes

(* A thread asks for a size of at least one, and withdraws none.           *)
LEMMA ConfigureStep ==
  ASSUME Allocated \in Nat \ {0}, WindowInv, Sma!Configure
  PROVE  WindowInv'
<1> USE DEF WindowInv, AskInv, Sma!WindowInBounds
<1>1. ASSUME NEW who \in Configurers, Sma!Ask(who)
      PROVE  WindowInv'
  BY <1>1 DEF Sma!Ask
<1>2. ASSUME NEW who \in Configurers, NEW size \in Sma!Sizes, Sma!Test(who, size)
      PROVE  WindowInv'
  BY <1>2 DEF Sma!Test, Sma!sma, Sma!Sizes
<1> QED BY <1>1, <1>2 DEF Sma!Configure

(* The update: the index is only advanced below the size it has by then.   *)
LEMMA UpdateStep ==
  ASSUME Allocated \in Nat \ {0}, WindowInv, Sma!Main
  PROVE  WindowInv'
<1> USE DEF WindowInv, AskInv, Sma!WindowInBounds
<1>1. ASSUME NEW target \in Targets, Sma!Update(target)
      PROVE  WindowInv'
  BY <1>1 DEF Sma!Update
<1>2. CASE Sma!Shrink
  BY <1>2 DEF Sma!Shrink
<1>3. CASE Sma!Scale
  BY <1>3 DEF Sma!Scale
<1>4. CASE Sma!Grow
  BY <1>4 DEF Sma!Grow
<1>5. CASE Sma!Adopt
  BY <1>5 DEF Sma!Adopt, Sma!Sizes
<1>6. CASE Sma!Clear
  BY <1>6 DEF Sma!Clear
<1>7. CASE Sma!Advance
  BY <1>7 DEF Sma!Advance, Sma!Sizes
<1>8. CASE Sma!Reset
  BY <1>8 DEF Sma!Reset, Sma!Sizes
<1> QED BY <1>1, <1>2, <1>3, <1>4, <1>5, <1>6, <1>7, <1>8 DEF Sma!Main

(* Every step keeps the invariant.                                         *)
LEMMA WindowNext ==
  ASSUME Allocated \in Nat \ {0}, WindowInv, [Sma!Next]_Sma!vars
  PROVE  WindowInv'
<1>1. CASE UNCHANGED Sma!vars
  BY <1>1 DEF Sma!vars, Sma!sma, WindowInv, AskInv, Sma!WindowInBounds
<1> QED BY <1>1, ConfigureStep, UpdateStep DEF Sma!Next

(* sma.c:75-96: no access of the update is outside of the allocated array, *)
(* although the size changes under it while two threads race to change it. *)
THEOREM StaysInBounds ==
  ASSUME Allocated \in Nat \ {0}
  PROVE  Sma!Spec => []Sma!WindowInBounds
<1>1. Sma!Init => WindowInv
  BY WindowStarts
<1>2. WindowInv /\ [Sma!Next]_Sma!vars => WindowInv'
  BY WindowNext
<1>3. WindowInv => Sma!WindowInBounds
  BY DEF WindowInv
<1> QED BY <1>1, <1>2, <1>3, PTL DEF Sma!Spec

-----------------------------------------------------------------------------
(* Induction over the naturals, for a set: a member that were missing      *)
(* would have a least one, and that one would be the successor of a        *)
(* member.                                                                 *)
LEMMA Induction ==
  ASSUME NEW S, 0 \in S, \A i \in Nat : i \in S => i + 1 \in S
  PROVE  \A i \in Nat : i \in S
<1> SUFFICES ASSUME NEW k \in Nat, k \notin S PROVE FALSE
  OBVIOUS
<1> DEFINE less == OpToRel(<, Nat)
           T == {i \in Nat : i \notin S}
<1>1. IsWellFoundedOn(less, Nat)
  BY NatLessThanWellFounded
<1>2. T \subseteq Nat /\ T # {}
  OBVIOUS
<1>3. PICK x \in T : \A y \in T : <<y, x>> \notin less
  <2> HIDE DEF less, T
  <2> QED
    BY <1>1, <1>2, WFMin
<1>4. \A y \in T : ~(y < x)
  BY <1>2, <1>3 DEF OpToRel
<1>5. x \in Nat /\ x # 0 /\ x \notin S
  OBVIOUS
<1>6. x - 1 \in Nat /\ x - 1 < x /\ x - 1 \notin T
  BY <1>4, <1>5
<1> QED
  BY <1>5, <1>6

(* The floats are the residues modulo Prime, an equation between them is a *)
(* congruence.                                                             *)
Same(x, y) == \E k \in Int : x = y + Prime * k
FloatsHypothesis == Prime \in Nat \ {0}
Floats == Sma!Floats

(* A remainder is a float, and the same as what it is the remainder of.    *)
LEMMA Remainder ==
  ASSUME FloatsHypothesis, NEW x \in Int
  PROVE  x % Prime \in Floats /\ Same(x % Prime, x) /\ Same(x, x % Prime)
<1> USE DEF FloatsHypothesis, Floats, Sma!Floats, Same
<1>1. x % Prime \in 0..Prime - 1
  OBVIOUS
<1>2. x % Prime = x - Prime * (x \div Prime) /\ x \div Prime \in Int
  OBVIOUS
<1> DEFINE k == x \div Prime
           r == x % Prime
<1>3. r \in Int /\ k \in Int /\ r = x - Prime * k
  BY <1>1, <1>2
<1> HIDE DEF k, r
<1>4. r = x + Prime * (-k) /\ -k \in Int
  BY <1>3
<1>5. x = r + Prime * k
  BY <1>3
<1>6. Same(r, x) /\ Same(x, r)
  BY <1>3, <1>4, <1>5
<1> QED
  BY <1>1, <1>6 DEF r

(* Congruent numbers may be put for each other.                            *)
LEMMA SameIsCongruence ==
  ASSUME FloatsHypothesis
  PROVE  /\ \A x \in Int : Same(x, x)
         /\ \A x, y \in Int : Same(x, y) => Same(y, x)
         /\ \A x, y, z \in Int : Same(x, y) /\ Same(y, z) => Same(x, z)
         /\ \A x, y, v, w \in Int :
              Same(x, y) /\ Same(v, w) => Same(x + v, y + w) /\ Same(x - v, y - w)
         /\ \A x, y, z \in Int : Same(x, y) => Same(x * z, y * z)
<1> USE DEF FloatsHypothesis
<1>1. ASSUME NEW x \in Int PROVE Same(x, x)
  <2>1. x = x + Prime * 0
    OBVIOUS
  <2> QED
    BY <2>1 DEF Same
<1>2. ASSUME NEW x \in Int, NEW y \in Int, Same(x, y) PROVE Same(y, x)
  <2>1. PICK k \in Int : x = y + Prime * k
    BY <1>2 DEF Same
  <2>2. y = x + Prime * (-k) /\ -k \in Int
    BY <2>1
  <2> QED
    BY <2>2 DEF Same
<1>3. ASSUME NEW x \in Int, NEW y \in Int, NEW z \in Int, Same(x, y), Same(y, z)
      PROVE  Same(x, z)
  <2>1. PICK k \in Int : x = y + Prime * k
    BY <1>3 DEF Same
  <2>2. PICK m \in Int : y = z + Prime * m
    BY <1>3 DEF Same
  <2>3. x = z + Prime * (m + k) /\ m + k \in Int
    BY <2>1, <2>2
  <2> QED
    BY <2>3 DEF Same
<1>4. ASSUME NEW x \in Int, NEW y \in Int, NEW v \in Int, NEW w \in Int,
             Same(x, y), Same(v, w)
      PROVE  Same(x + v, y + w) /\ Same(x - v, y - w)
  <2>1. PICK k \in Int : x = y + Prime * k
    BY <1>4 DEF Same
  <2>2. PICK m \in Int : v = w + Prime * m
    BY <1>4 DEF Same
  <2>3. x + v = (y + w) + Prime * (k + m) /\ k + m \in Int
    BY <2>1, <2>2
  <2>4. x - v = (y - w) + Prime * (k - m) /\ k - m \in Int
    BY <2>1, <2>2
  <2> QED
    BY <2>3, <2>4 DEF Same
<1>5. ASSUME NEW x \in Int, NEW y \in Int, NEW z \in Int, Same(x, y)
      PROVE  Same(x * z, y * z)
  <2>1. PICK k \in Int : x = y + Prime * k
    BY <1>5 DEF Same
  <2>2. x * z = (y * z) + Prime * (k * z) /\ k * z \in Int
    BY <2>1
  <2> QED
    BY <2>2 DEF Same
<1> QED
  BY <1>1, <1>2, <1>3, <1>4, <1>5

(* The same, for the numbers at hand.                                      *)
LEMMA SameIsTransitive ==
  ASSUME FloatsHypothesis, NEW x \in Int, NEW y \in Int, NEW z \in Int,
         Same(x, y), Same(y, z)
  PROVE  Same(x, z)
<1>1. \A i, j, k \in Int : Same(i, j) /\ Same(j, k) => Same(i, k)
  BY SameIsCongruence
<1> QED
  BY <1>1

(* Floats that are congruent are equal.                                    *)
LEMMA SameFloats ==
  ASSUME FloatsHypothesis, NEW x \in Floats, NEW y \in Floats, Same(x, y)
  PROVE  x = y
<1> USE DEF FloatsHypothesis, Floats, Sma!Floats
<1>1. PICK k \in Int : x = y + Prime * k
  BY DEF Same
<1>2. CASE k > 0
  <2>1. Prime * k >= Prime
    BY <1>2
  <2> QED
    BY <1>1, <2>1
<1>3. CASE k < 0
  <2>1. Prime * k <= -Prime
    BY <1>3
  <2> QED
    BY <1>1, <2>1
<1>4. CASE k = 0
  BY <1>1, <1>4
<1> QED
  BY <1>2, <1>3, <1>4

(* The floats can be divided by the sizes of the window, as numbers can.   *)
Arrays == [0..Allocated - 1 -> Floats]
DivisionHypothesis ==
  /\ FloatsHypothesis /\ Allocated \in Nat \ {0} /\ Targets \subseteq Floats
  /\ \A size \in Sma!Sizes, x \in Floats : \E q \in Floats : Sma!Times(q, size) = x

(* What the operations on floats yield.                                    *)
LEMMA Operations ==
  ASSUME FloatsHypothesis, NEW x \in Int, NEW y \in Int
  PROVE  /\ Sma!Add(x, y) \in Floats /\ Same(Sma!Add(x, y), x + y)
         /\ Sma!Minus(x, y) \in Floats /\ Same(Sma!Minus(x, y), x - y)
         /\ Sma!Times(x, y) \in Floats /\ Same(Sma!Times(x, y), x * y)
<1>1. x + y \in Int /\ x - y \in Int /\ x * y \in Int
  OBVIOUS
<1> QED
  BY <1>1, Remainder DEF Sma!Add, Sma!Minus, Sma!Times

(* The loop over the slots has an outcome: the function the recursion      *)
(* defines exists, by induction on how far it gets.                        *)
LEMMA SumsExist ==
  ASSUME DivisionHypothesis, NEW slots \in Arrays, NEW from \in 0..Allocated
  PROVE  \E g \in [from..Allocated -> Floats] :
           g = [i \in from..Allocated |->
                  IF i = from THEN 0 ELSE Sma!Add(g[i - 1], slots[i - 1])]
<1> USE DEF DivisionHypothesis, FloatsHypothesis
<1> DEFINE Sums(g, to) ==
             /\ g \in [from..to -> Floats] /\ g[from] = 0
             /\ \A i \in from + 1..to : g[i] = Sma!Add(g[i - 1], slots[i - 1])
           Has(k) == from + k <= Allocated => \E g : Sums(g, from + k)
           S == {k \in Nat : Has(k)}
<1>1. 0 \in S
  <2>1. Sums([i \in from..from + 0 |-> 0], from + 0)
    BY DEF Floats, Sma!Floats
  <2>2. Has(0)
    BY <2>1
  <2> HIDE DEF Has
  <2> QED
    BY <2>2
<1>2. ASSUME NEW k \in Nat, k \in S PROVE k + 1 \in S
  <2>6. Has(k)
    <3> HIDE DEF Has
    <3> QED
      BY <1>2
  <2>7. SUFFICES Has(k + 1)
    <3> HIDE DEF Has
    <3> QED
      OBVIOUS
  <2>8. SUFFICES ASSUME from + (k + 1) <= Allocated
                 PROVE  \E g : Sums(g, from + (k + 1))
    <3> HIDE DEF Sums
    <3> QED
      OBVIOUS
  <2>1. PICK g : Sums(g, from + k)
    <3> HIDE DEF Sums
    <3> QED
      BY <2>6, <2>8
  <2> DEFINE more == [i \in from..from + (k + 1) |->
                       IF i <= from + k THEN g[i]
                       ELSE Sma!Add(g[from + k], slots[from + k])]
  <2>2. /\ from + k \in 0..Allocated - 1 /\ g[from + k] \in Int
        /\ slots[from + k] \in Int
    BY <2>1, <2>8 DEF Arrays, Floats, Sma!Floats
  <2>3. Sma!Add(g[from + k], slots[from + k]) \in Floats
    BY <2>2, Operations
  <2>4. more \in [from..from + (k + 1) -> Floats] /\ more[from] = 0
    BY <2>1, <2>3
  <2>5. ASSUME NEW i \in from + 1..from + (k + 1)
        PROVE  more[i] = Sma!Add(more[i - 1], slots[i - 1])
    <3>1. more[i - 1] = g[i - 1]
      BY <2>5
    <3>2. CASE i <= from + k
      <4>1. more[i] = g[i] /\ i \in from + 1..from + k
        BY <3>2
      <4> QED
        BY <2>1, <3>1, <4>1
    <3>3. CASE i = from + (k + 1)
      <4>1. i - 1 = from + k /\ more[i] = Sma!Add(g[from + k], slots[from + k])
        BY <3>3
      <4> QED
        BY <3>1, <4>1
    <3> QED
      BY <3>2, <3>3
  <2> HIDE DEF more
  <2> QED
    BY <2>4, <2>5
<1>3. Has(Allocated - from)
  <2> HIDE DEF Has
  <2>1. \A k \in Nat : k \in S
    <3> HIDE DEF S
    <3> QED
      BY <1>1, <1>2, Induction
  <2> QED
    BY <2>1
<1>4. PICK g : Sums(g, Allocated)
  <2>1. from + (Allocated - from) = Allocated
    OBVIOUS
  <2> HIDE DEF Sums
  <2> QED
    BY <1>3, <2>1
<1>5. g = [i \in from..Allocated |->
            IF i = from THEN 0 ELSE Sma!Add(g[i - 1], slots[i - 1])]
  BY <1>4
<1> QED
  BY <1>4, <1>5

(* Hence the sum of no slots is zero, and a slot is added to the sum of    *)
(* those before it.                                                        *)
LEMMA SumIs ==
  ASSUME DivisionHypothesis, NEW slots \in Arrays, NEW from \in 0..Allocated
  PROVE  /\ Sma!Sum(slots, from, from) = 0
         /\ \A to \in from..Allocated : Sma!Sum(slots, from, to) \in Floats
         /\ \A to \in from..Allocated - 1 :
              Sma!Sum(slots, from, to + 1)
                = Sma!Add(Sma!Sum(slots, from, to), slots[to])
<1> USE DEF DivisionHypothesis
<1> DEFINE Is(g) == g = [i \in from..Allocated |->
                         IF i = from THEN 0 ELSE Sma!Add(g[i - 1], slots[i - 1])]
           subt == CHOOSE g : Is(g)
<1>1. \A to : Sma!Sum(slots, from, to) = subt[to]
  BY DEF Sma!Sum
<1>2. PICK g \in [from..Allocated -> Floats] : Is(g)
  BY SumsExist
<1>3. Is(subt)
  BY <1>2
<1> HIDE DEF subt
<1>4. /\ subt[from] = 0
      /\ \A to \in from..Allocated - 1 : subt[to + 1] = Sma!Add(subt[to], slots[to])
  <2>1. \A to \in from..Allocated - 1 : to + 1 \in from..Allocated /\ to + 1 # from
                                         /\ to + 1 - 1 = to
    OBVIOUS
  <2> QED
    BY <1>3, <2>1
<1> HIDE DEF Is
<1>5. \A to \in from..Allocated : subt[to] \in Floats
  <2> DEFINE S == {k \in Nat : from + k <= Allocated => subt[from + k] \in Floats}
  <2>1. 0 \in S
    BY <1>4 DEF Floats, Sma!Floats, FloatsHypothesis
  <2>2. ASSUME NEW k \in Nat, k \in S PROVE k + 1 \in S
    <3> SUFFICES ASSUME from + (k + 1) <= Allocated PROVE subt[from + (k + 1)] \in Floats
      OBVIOUS
    <3>1. /\ subt[from + k] \in Int /\ slots[from + k] \in Int
          /\ from + k \in from..Allocated - 1
      BY <2>2 DEF Arrays, Floats, Sma!Floats, FloatsHypothesis
    <3>2. subt[from + k + 1] = Sma!Add(subt[from + k], slots[from + k])
      BY <1>4, <3>1
    <3>3. Sma!Add(subt[from + k], slots[from + k]) \in Floats
      BY <3>1, Operations
    <3>4. from + (k + 1) = from + k + 1
      OBVIOUS
    <3> QED
      BY <3>2, <3>3, <3>4
  <2> HIDE DEF S
  <2>3. \A k \in Nat : k \in S
    BY <2>1, <2>2, Induction
  <2>4. ASSUME NEW to \in from..Allocated PROVE subt[to] \in Floats
    <3>1. to - from \in Nat /\ from + (to - from) = to
      OBVIOUS
    <3> QED
      BY <2>3, <3>1 DEF S
  <2> QED
    BY <2>4
<1> QED
  BY <1>1, <1>4, <1>5

(* Floats are numbers.                                                     *)
LEMMA FloatsAreInt ==
  ASSUME FloatsHypothesis
  PROVE  \A x \in Floats : x \in Int /\ Same(x, x)
<1>1. \A x \in Floats : x \in Int
  BY DEF FloatsHypothesis, Floats, Sma!Floats
<1> QED
  BY <1>1, SameIsCongruence

(* An operation on numbers may be done before or after their reduction.    *)
LEMMA Reduced ==
  ASSUME FloatsHypothesis, NEW x \in Int, NEW y \in Int, NEW i \in Int, NEW j \in Int,
         Same(x, i), Same(y, j)
  PROVE  /\ Sma!Add(x, y) \in Floats /\ Same(Sma!Add(x, y), i + j)
         /\ Sma!Minus(x, y) \in Floats /\ Same(Sma!Minus(x, y), i - j)
         /\ \A k \in Int : Sma!Times(x, k) \in Floats /\ Same(Sma!Times(x, k), i * k)
<1>1. x + y \in Int /\ i + j \in Int /\ x - y \in Int /\ i - j \in Int
  OBVIOUS
<1>2. /\ Sma!Add(x, y) \in Floats /\ Same(Sma!Add(x, y), x + y)
      /\ Sma!Minus(x, y) \in Floats /\ Same(Sma!Minus(x, y), x - y)
  BY Operations
<1>3. Same(x + y, i + j) /\ Same(x - y, i - j)
  BY SameIsCongruence
<1>4. Sma!Add(x, y) \in Int /\ Sma!Minus(x, y) \in Int
  BY <1>2, FloatsAreInt
<1>5. Same(Sma!Add(x, y), i + j)
  BY <1>1, <1>2, <1>3, <1>4, SameIsTransitive
<1>6. Same(Sma!Minus(x, y), i - j)
  BY <1>1, <1>2, <1>3, <1>4, SameIsTransitive
<1>7. ASSUME NEW k \in Int
      PROVE  Sma!Times(x, k) \in Floats /\ Same(Sma!Times(x, k), i * k)
  <2>1. Sma!Times(x, k) \in Floats /\ Same(Sma!Times(x, k), x * k)
    BY Operations
  <2>2. Sma!Times(x, k) \in Int /\ x * k \in Int /\ i * k \in Int
    BY <2>1, FloatsAreInt
  <2>3. Same(x * k, i * k)
    BY SameIsCongruence
  <2> QED
    BY <2>1, <2>2, <2>3, SameIsTransitive
<1> QED
  BY <1>2, <1>5, <1>6, <1>7

(* Two floats are equal that reduce the same number.                       *)
LEMMA SameValues ==
  ASSUME FloatsHypothesis,
         NEW x \in Floats, NEW y \in Floats, NEW i \in Int, NEW j \in Int,
         Same(x, i), Same(y, j), i = j
  PROVE  x = y
<1>1. x \in Int /\ y \in Int
  BY FloatsAreInt
<1>2. Same(j, y)
  BY <1>1, SameIsCongruence
<1>3. Same(x, y)
  BY <1>1, <1>2, SameIsTransitive
<1> QED
  BY <1>3, SameFloats

(* The laws of addition the sums need.                                     *)
LEMMA AddsUp ==
  ASSUME FloatsHypothesis, NEW x \in Floats, NEW y \in Floats, NEW z \in Floats
  PROVE  /\ Sma!Add(x, 0) = x
         /\ Sma!Add(Sma!Add(x, y), z) = Sma!Add(Sma!Add(x, z), y)
         /\ Sma!Add(Sma!Add(x, y), z) = Sma!Add(x, Sma!Add(y, z))
         /\ Sma!Add(Sma!Add(x, y), Sma!Minus(z, y)) = Sma!Add(x, z)
         /\ Sma!Minus(Sma!Add(x, y), y) = x
<1>1. /\ x \in Int /\ y \in Int /\ z \in Int
      /\ Same(x, x) /\ Same(y, y) /\ Same(z, z)
  BY FloatsAreInt
<1> DEFINE xy == Sma!Add(x, y)
           xz == Sma!Add(x, z)
           yz == Sma!Add(y, z)
           zy == Sma!Minus(z, y)
<1>2. /\ xy \in Floats /\ Same(xy, x + y) /\ xz \in Floats /\ Same(xz, x + z)
      /\ yz \in Floats /\ Same(yz, y + z) /\ zy \in Floats /\ Same(zy, z - y)
  BY <1>1, Reduced
<1> HIDE DEF xy, xz, yz, zy
<1>3. /\ xy \in Int /\ xz \in Int /\ yz \in Int /\ zy \in Int
      /\ x + y \in Int /\ x + z \in Int /\ y + z \in Int /\ z - y \in Int
  BY <1>1, <1>2, FloatsAreInt
<1>4. Sma!Add(xy, z) \in Floats /\ Same(Sma!Add(xy, z), (x + y) + z)
  BY <1>1, <1>2, <1>3, Reduced
<1>5. Sma!Add(xz, y) \in Floats /\ Same(Sma!Add(xz, y), (x + z) + y)
  BY <1>1, <1>2, <1>3, Reduced
<1>6. Sma!Add(x, yz) \in Floats /\ Same(Sma!Add(x, yz), x + (y + z))
  BY <1>1, <1>2, <1>3, Reduced
<1>7. Sma!Add(xy, zy) \in Floats /\ Same(Sma!Add(xy, zy), (x + y) + (z - y))
  BY <1>1, <1>2, <1>3, Reduced
<1>8. Sma!Minus(xy, y) \in Floats /\ Same(Sma!Minus(xy, y), (x + y) - y)
  BY <1>1, <1>2, <1>3, Reduced
<1>9. /\ (x + y) + z = (x + z) + y /\ (x + y) + z = x + (y + z)
      /\ (x + y) + (z - y) = x + z /\ (x + y) - y = x /\ x + 0 = x
      /\ (x + y) + z \in Int
  BY <1>1
<1>10. Sma!Add(xy, z) = Sma!Add(xz, y)
  BY <1>4, <1>5, <1>9, SameValues
<1>11. Sma!Add(xy, z) = Sma!Add(x, yz)
  BY <1>4, <1>6, <1>9, SameValues
<1>12. Sma!Add(xy, zy) = xz
  BY <1>2, <1>3, <1>7, <1>9, SameValues
<1>13. Sma!Minus(xy, y) = x
  BY <1>1, <1>8, <1>9, SameFloats
<1>14. Sma!Add(x, 0) = x
  <2>1. 0 \in Int /\ Same(0, 0)
    BY SameIsCongruence
  <2>2. Sma!Add(x, 0) \in Floats /\ Same(Sma!Add(x, 0), x + 0)
    BY <1>1, <2>1, Reduced
  <2> QED
    BY <1>9, <2>2, SameFloats
<1> QED
  BY <1>10, <1>11, <1>12, <1>13, <1>14 DEF xy, xz, yz, zy

(* The laws of multiplication by a size.                                   *)
LEMMA Distributes ==
  ASSUME FloatsHypothesis,
         NEW x \in Floats, NEW y \in Floats, NEW i \in Int, NEW j \in Int
  PROVE  /\ Sma!Times(x, 0) = 0 /\ Sma!Times(x, 1) = x
         /\ Sma!Add(Sma!Times(x, i), Sma!Times(x, j)) = Sma!Times(x, i + j)
         /\ Sma!Times(Sma!Add(x, y), i) = Sma!Add(Sma!Times(x, i), Sma!Times(y, i))
         /\ Sma!Times(Sma!Minus(x, y), i) = Sma!Minus(Sma!Times(x, i), Sma!Times(y, i))
<1>1. x \in Int /\ y \in Int /\ Same(x, x) /\ Same(y, y)
  BY FloatsAreInt
<1> DEFINE xi == Sma!Times(x, i)
           xj == Sma!Times(x, j)
           yi == Sma!Times(y, i)
           sum == Sma!Add(x, y)
           less == Sma!Minus(x, y)
           more == Sma!Times(x, i + j)
<1>2. /\ xi \in Floats /\ Same(xi, x * i) /\ xj \in Floats /\ Same(xj, x * j)
      /\ yi \in Floats /\ Same(yi, y * i)
      /\ sum \in Floats /\ Same(sum, x + y) /\ less \in Floats /\ Same(less, x - y)
      /\ more \in Floats /\ Same(more, x * (i + j))
  BY <1>1, Reduced
<1>3. /\ Sma!Times(x, 0) \in Floats /\ Same(Sma!Times(x, 0), x * 0)
      /\ Sma!Times(x, 1) \in Floats /\ Same(Sma!Times(x, 1), x * 1)
  BY <1>1, Reduced
<1> HIDE DEF xi, xj, yi, sum, less, more
<1>4. /\ xi \in Int /\ xj \in Int /\ yi \in Int /\ sum \in Int /\ less \in Int
      /\ x * i \in Int /\ x * j \in Int /\ y * i \in Int
      /\ x + y \in Int /\ x - y \in Int
  BY <1>1, <1>2, FloatsAreInt
<1>5. Sma!Add(xi, xj) \in Floats /\ Same(Sma!Add(xi, xj), x * i + x * j)
  BY <1>2, <1>4, Reduced
<1>6. Sma!Add(xi, yi) \in Floats /\ Same(Sma!Add(xi, yi), x * i + y * i)
  BY <1>2, <1>4, Reduced
<1>7. Sma!Minus(xi, yi) \in Floats /\ Same(Sma!Minus(xi, yi), x * i - y * i)
  BY <1>2, <1>4, Reduced
<1>8. Sma!Times(sum, i) \in Floats /\ Same(Sma!Times(sum, i), (x + y) * i)
  BY <1>1, <1>2, <1>4, Reduced
<1>9. Sma!Times(less, i) \in Floats /\ Same(Sma!Times(less, i), (x - y) * i)
  BY <1>1, <1>2, <1>4, Reduced
<1>10. /\ x * i + x * j = x * (i + j) /\ x * i + x * j \in Int /\ x * (i + j) \in Int
       /\ (x + y) * i = x * i + y * i /\ (x + y) * i \in Int
       /\ (x - y) * i = x * i - y * i /\ (x - y) * i \in Int
       /\ x * 0 = 0 /\ x * 1 = x
  BY <1>1
<1>11. Sma!Add(xi, xj) = more
  BY <1>2, <1>5, <1>10, SameValues
<1>12. Sma!Times(sum, i) = Sma!Add(xi, yi)
  BY <1>6, <1>8, <1>10, SameValues
<1>13. Sma!Times(less, i) = Sma!Minus(xi, yi)
  BY <1>7, <1>9, <1>10, SameValues
<1>14. Sma!Times(x, 0) = 0 /\ Sma!Times(x, 1) = x
  <2>1. 0 \in Floats
    BY DEF FloatsHypothesis, Floats, Sma!Floats
  <2> QED
    BY <1>3, <1>10, <2>1, SameFloats
<1> QED
  BY <1>11, <1>12, <1>13, <1>14 DEF xi, xj, yi, sum, less, more

(* Induction over the slots of a window.                                   *)
LEMMA InductionUpTo ==
  ASSUME NEW from \in Nat, NEW to \in Nat, NEW S, from \in S,
         \A i \in from..to - 1 : i \in S => i + 1 \in S
  PROVE  \A i \in from..to : i \in S
<1> DEFINE T == {k \in Nat : from + k <= to => from + k \in S}
<1>1. 0 \in T
  OBVIOUS
<1>2. ASSUME NEW k \in Nat, k \in T PROVE k + 1 \in T
  <2> SUFFICES ASSUME from + (k + 1) <= to PROVE from + (k + 1) \in S
    OBVIOUS
  <2>1. from + k \in from..to - 1 /\ from + k \in S
    BY <1>2
  <2>2. from + (k + 1) = (from + k) + 1
    OBVIOUS
  <2> QED
    BY <2>1, <2>2
<1> HIDE DEF T
<1>3. \A k \in Nat : k \in T
  BY <1>1, <1>2, Induction
<1> SUFFICES ASSUME NEW i \in from..to PROVE i \in S
  OBVIOUS
<1>4. i - from \in Nat /\ from + (i - from) = i /\ i <= to
  OBVIOUS
<1> QED
  BY <1>3, <1>4 DEF T

(* SumIs for one window.                                                   *)
LEMMA SumsOfFloats ==
  ASSUME DivisionHypothesis, NEW slots \in Arrays,
         NEW from \in 0..Allocated, NEW to \in from..Allocated
  PROVE  /\ Sma!Sum(slots, from, from) = 0
         /\ Sma!Sum(slots, from, to) \in Floats
         /\ to < Allocated =>
              /\ slots[to] \in Floats
              /\ Sma!Sum(slots, from, to + 1)
                   = Sma!Add(Sma!Sum(slots, from, to), slots[to])
BY SumIs DEF Arrays, DivisionHypothesis

(* Equal slots have equal sums.                                            *)
LEMMA SumOfEqual ==
  ASSUME DivisionHypothesis, NEW slots \in Arrays, NEW others \in Arrays,
         NEW from \in 0..Allocated, NEW to \in from..Allocated,
         \A i \in from..to - 1 : slots[i] = others[i]
  PROVE  Sma!Sum(slots, from, to) = Sma!Sum(others, from, to)
<1> DEFINE S == {i \in from..to : Sma!Sum(slots, from, i) = Sma!Sum(others, from, i)}
<1>1. from \in S
  BY SumsOfFloats DEF DivisionHypothesis
<1>2. ASSUME NEW i \in from..to - 1, i \in S PROVE i + 1 \in S
  <2>1. i \in from..Allocated /\ i < Allocated /\ i + 1 \in from..to
    BY DEF DivisionHypothesis
  <2>2. /\ Sma!Sum(slots, from, i + 1) = Sma!Add(Sma!Sum(slots, from, i), slots[i])
        /\ Sma!Sum(others, from, i + 1) = Sma!Add(Sma!Sum(others, from, i), others[i])
    BY <2>1, SumsOfFloats
  <2> QED
    BY <1>2, <2>1, <2>2
<1> HIDE DEF S
<1>3. from \in Nat /\ to \in Nat /\ to \in from..to
  BY DEF DivisionHypothesis
<1>4. to \in S
  BY <1>1, <1>2, <1>3, InductionUpTo
<1> QED
  BY <1>4 DEF S

(* Changing a slot changes the sum of a window it is in by the difference. *)
LEMMA SumChanges ==
  ASSUME DivisionHypothesis, NEW slots \in Arrays, NEW new \in Floats,
         NEW to \in 0..Allocated, NEW slot \in 0..to - 1
  PROVE  Sma!Sum([slots EXCEPT ![slot] = new], 0, to)
           = Sma!Add(Sma!Sum(slots, 0, to), Sma!Minus(new, slots[slot]))
<1> DEFINE others == [slots EXCEPT ![slot] = new]
           diff == Sma!Minus(new, slots[slot])
           S == {i \in slot + 1..to :
                   Sma!Sum(others, 0, i) = Sma!Add(Sma!Sum(slots, 0, i), diff)}
<1>1. /\ slot \in Nat /\ slot + 1 \in Nat /\ to \in Nat /\ to \in slot + 1..to
      /\ slot \in 0..Allocated - 1 /\ slot \in 0..Allocated /\ 0 \in 0..Allocated
      /\ slot < Allocated
      /\ slots[slot] \in Floats /\ others \in Arrays /\ others[slot] = new
      /\ \A i \in 0..Allocated - 1 : i # slot => others[i] = slots[i]
  BY DEF DivisionHypothesis, Arrays
<1>2. diff \in Floats
  BY <1>1, FloatsAreInt, Operations DEF DivisionHypothesis
<1> HIDE DEF others, diff
<1>3. slot + 1 \in S
  <2>1. Sma!Sum(others, 0, slot) = Sma!Sum(slots, 0, slot)
    <3>1. \A i \in 0..slot - 1 : others[i] = slots[i]
      BY <1>1 DEF DivisionHypothesis
    <3> QED
      BY <1>1, <3>1, SumOfEqual
  <2>2. /\ Sma!Sum(slots, 0, slot) \in Floats
        /\ Sma!Sum(slots, 0, slot + 1) = Sma!Add(Sma!Sum(slots, 0, slot), slots[slot])
        /\ Sma!Sum(others, 0, slot + 1) = Sma!Add(Sma!Sum(others, 0, slot), new)
    BY <1>1, SumsOfFloats
  <2>3. Sma!Add(Sma!Add(Sma!Sum(slots, 0, slot), slots[slot]), diff)
          = Sma!Add(Sma!Sum(slots, 0, slot), new)
    BY <1>1, <2>2, AddsUp DEF DivisionHypothesis, diff
  <2> QED
    BY <1>1, <2>1, <2>2, <2>3
<1>4. ASSUME NEW i \in slot + 1..to - 1, i \in S PROVE i + 1 \in S
  <2>1. /\ i \in 0..Allocated /\ i \in 0..Allocated - 1 /\ i < Allocated
        /\ i # slot /\ i + 1 \in slot + 1..to
    BY <1>1 DEF DivisionHypothesis
  <2>2. /\ Sma!Sum(slots, 0, i) \in Floats /\ slots[i] \in Floats
        /\ Sma!Sum(slots, 0, i + 1) = Sma!Add(Sma!Sum(slots, 0, i), slots[i])
        /\ Sma!Sum(others, 0, i + 1) = Sma!Add(Sma!Sum(others, 0, i), slots[i])
    BY <1>1, <2>1, SumsOfFloats
  <2>3. Sma!Add(Sma!Add(Sma!Sum(slots, 0, i), diff), slots[i])
          = Sma!Add(Sma!Add(Sma!Sum(slots, 0, i), slots[i]), diff)
    BY <1>2, <2>2, AddsUp DEF DivisionHypothesis
  <2> QED
    BY <1>4, <2>1, <2>2, <2>3
<1> HIDE DEF S
<1>5. to \in S
  BY <1>1, <1>3, <1>4, InductionUpTo
<1> QED
  BY <1>5 DEF S, others, diff

(* The sum of a window is that of its first slots and that of the others.  *)
LEMMA SumSplits ==
  ASSUME DivisionHypothesis, NEW slots \in Arrays,
         NEW to \in 0..Allocated, NEW middle \in 0..to
  PROVE  Sma!Sum(slots, 0, to)
           = Sma!Add(Sma!Sum(slots, 0, middle), Sma!Sum(slots, middle, to))
<1> DEFINE head_sum == Sma!Sum(slots, 0, middle)
           S == {i \in middle..to :
                   Sma!Sum(slots, 0, i) = Sma!Add(head_sum, Sma!Sum(slots, middle, i))}
<1>1. /\ middle \in Nat /\ to \in Nat /\ to \in middle..to /\ middle \in middle..to
      /\ middle \in 0..Allocated /\ 0 \in 0..Allocated
  BY DEF DivisionHypothesis
<1>2. head_sum \in Floats
  BY <1>1, SumsOfFloats
<1>3. middle \in S
  <2>1. Sma!Sum(slots, middle, middle) = 0
    BY <1>1, SumsOfFloats
  <2> QED
    BY <1>1, <1>2, <2>1, AddsUp DEF DivisionHypothesis
<1>4. ASSUME NEW i \in middle..to - 1, i \in S PROVE i + 1 \in S
  <2>1. /\ i \in 0..Allocated /\ i \in middle..Allocated /\ i < Allocated
        /\ i + 1 \in middle..to
    BY <1>1 DEF DivisionHypothesis
  <2>2. /\ Sma!Sum(slots, middle, i) \in Floats /\ slots[i] \in Floats
        /\ Sma!Sum(slots, 0, i + 1) = Sma!Add(Sma!Sum(slots, 0, i), slots[i])
        /\ Sma!Sum(slots, middle, i + 1) = Sma!Add(Sma!Sum(slots, middle, i), slots[i])
    BY <1>1, <2>1, SumsOfFloats
  <2>3. Sma!Add(Sma!Add(head_sum, Sma!Sum(slots, middle, i)), slots[i])
          = Sma!Add(head_sum, Sma!Add(Sma!Sum(slots, middle, i), slots[i]))
    BY <1>2, <2>2, AddsUp DEF DivisionHypothesis
  <2> QED
    BY <1>4, <2>1, <2>2, <2>3
<1> HIDE DEF S
<1>5. to \in S
  BY <1>1, <1>3, <1>4, InductionUpTo
<1> QED
  BY <1>5 DEF S

(* The sum of slots that are all x is x times their number.                *)
LEMMA SumOfEqualSlots ==
  ASSUME DivisionHypothesis, NEW slots \in Arrays, NEW x \in Floats,
         NEW from \in 0..Allocated, NEW to \in from..Allocated,
         \A i \in from..to - 1 : slots[i] = x
  PROVE  Sma!Sum(slots, from, to) = Sma!Times(x, to - from)
<1> DEFINE S == {i \in from..to : Sma!Sum(slots, from, i) = Sma!Times(x, i - from)}
<1>1. from \in Nat /\ to \in Nat /\ to \in from..to /\ from \in from..to
  BY DEF DivisionHypothesis
<1>2. from \in S
  <2>1. Sma!Sum(slots, from, from) = 0 /\ from - from = 0
    BY <1>1, SumsOfFloats
  <2>2. Sma!Times(x, 0) = 0
    BY Distributes DEF DivisionHypothesis
  <2> QED
    BY <1>1, <2>1, <2>2
<1>3. ASSUME NEW i \in from..to - 1, i \in S PROVE i + 1 \in S
  <2>1. /\ i \in from..Allocated /\ i < Allocated /\ i + 1 \in from..to
        /\ i - from \in Int /\ 1 \in Int /\ (i - from) + 1 = (i + 1) - from
    BY <1>1 DEF DivisionHypothesis
  <2>2. Sma!Sum(slots, from, i + 1) = Sma!Add(Sma!Sum(slots, from, i), x)
    BY <2>1, SumsOfFloats
  <2>3. /\ Sma!Times(x, 1) = x
        /\ Sma!Add(Sma!Times(x, i - from), Sma!Times(x, 1)) = Sma!Times(x, (i - from) + 1)
    BY <2>1, Distributes DEF DivisionHypothesis
  <2> QED
    BY <1>3, <2>1, <2>2, <2>3
<1> HIDE DEF S
<1>4. to \in S
  BY <1>1, <1>2, <1>3, InductionUpTo
<1> QED
  BY <1>4 DEF S

(* A float is divided by a size.                                           *)
LEMMA Quotients ==
  ASSUME DivisionHypothesis, NEW x \in Floats, NEW size \in Sma!Sizes
  PROVE  Sma!Over(x, size) \in Floats /\ Sma!Times(Sma!Over(x, size), size) = x
<1>1. \E q \in Floats : Sma!Times(q, size) = x
  BY DEF DivisionHypothesis
<1> QED
  BY <1>1 DEF Sma!Over, Floats

(* The value is the mean of the window: of the one there is, or in the     *)
(* middle of a change of size, of the one there will be.  When the items   *)
(* that go are subtracted, it is already that of the old size over the new *)
(* window (scale), and then that of the new one (adopt).                   *)
MeanInv ==
  /\ mean \in Floats /\ window \in Arrays
  /\ ~raced =>
       /\ sma_todo \in {"update", "resize", "clear", "advance"}
            => Sma!Times(mean, n) = Sma!Sum(window, 0, n)
       /\ sma_todo = "scale"
            => new_n <= n /\ Sma!Times(mean, n) = Sma!Sum(window, 0, new_n)
       /\ sma_todo = "adopt" => Sma!Times(mean, new_n) = Sma!Sum(window, 0, new_n)

(* The window is empty at first.                                           *)
LEMMA MeanStarts == ASSUME DivisionHypothesis, Sma!Init PROVE MeanInv
<1>1. 0 \in Floats /\ 0 \in 0..Allocated /\ n \in 0..Allocated /\ n \in Int /\ n - 0 = n
  BY DEF DivisionHypothesis, FloatsHypothesis, Floats, Sma!Floats, Sma!Init, Sma!Sizes
<1>2. window \in Arrays /\ \A i \in 0..n - 1 : window[i] = 0
  BY <1>1 DEF Sma!Init, Arrays, DivisionHypothesis
<1>3. Sma!Sum(window, 0, n) = Sma!Times(0, n)
  BY <1>1, <1>2, SumOfEqualSlots
<1> QED
  BY <1>1, <1>2, <1>3 DEF Sma!Init, MeanInv

(* sma.c:75: the mean changes by a share of what the oldest slot does.     *)
LEMMA MeanUpdates ==
  ASSUME DivisionHypothesis, WindowInv, MeanInv,
         NEW target \in Targets, Sma!Update(target)
  PROVE  MeanInv'
<1> DEFINE diff == Sma!Minus(target, window[idx])
           part_of == Sma!Over(diff, n)
<1>1. /\ n \in Sma!Sizes /\ n \in 0..Allocated /\ n \in Int /\ idx \in 0..n - 1
      /\ idx \in 0..Allocated - 1
  BY DEF WindowInv, Sma!WindowInBounds, Sma!Update, Sma!Sizes, DivisionHypothesis
<1>2. target \in Floats /\ window[idx] \in Floats /\ mean \in Floats /\ window \in Arrays
  BY <1>1 DEF MeanInv, Arrays, DivisionHypothesis
<1>3. diff \in Floats
  BY <1>2, FloatsAreInt, Operations DEF DivisionHypothesis
<1>4. part_of \in Floats /\ Sma!Times(part_of, n) = diff
  BY <1>1, <1>3, Quotients
<1> HIDE DEF diff, part_of
<1>5. mean' = Sma!Add(mean, part_of) /\ window' = [window EXCEPT ![idx] = target]
  BY DEF Sma!Update, diff, part_of
<1>6. mean' \in Floats /\ window' \in Arrays
  BY <1>2, <1>4, <1>5, FloatsAreInt, Operations DEF DivisionHypothesis, Arrays
<1>7. Sma!Times(mean', n) = Sma!Add(Sma!Times(mean, n), diff)
  BY <1>1, <1>2, <1>4, <1>5, Distributes DEF DivisionHypothesis
<1>8. Sma!Sum(window', 0, n) = Sma!Add(Sma!Sum(window, 0, n), diff)
  BY <1>1, <1>2, <1>5, SumChanges DEF diff
<1>9. /\ sma_todo = "update" /\ sma_todo' \in {"resize", "advance"}
      /\ UNCHANGED <<n, raced>>
  BY DEF Sma!Update
<1> QED
  BY <1>6, <1>7, <1>8, <1>9 DEF MeanInv

(* sma.c:83-87: the slots that go are subtracted.                          *)
LEMMA MeanShrinks ==
  ASSUME DivisionHypothesis, WindowInv, MeanInv, Sma!Shrink
  PROVE  MeanInv'
<1> DEFINE kept == Sma!Sum(window, 0, new_n)
           subt == Sma!Sum(window, new_n, n)
           part_of == Sma!Over(subt, n)
<1>1. /\ n \in Sma!Sizes /\ n \in 0..Allocated /\ n \in Int /\ 0 \in 0..Allocated
      /\ new_n \in 0..n /\ new_n \in 0..Allocated /\ n \in new_n..Allocated
      /\ new_n <= n /\ new_n \in 0..Allocated
  BY DEF WindowInv, Sma!WindowInBounds, Sma!Shrink, Sma!Sizes, DivisionHypothesis
<1>2. mean \in Floats /\ window \in Arrays
  BY DEF MeanInv
<1>3. kept \in Floats /\ subt \in Floats /\ Sma!Sum(window, 0, n) = Sma!Add(kept, subt)
  BY <1>1, <1>2, SumsOfFloats, SumSplits
<1>4. part_of \in Floats /\ Sma!Times(part_of, n) = subt
  BY <1>1, <1>3, Quotients
<1> HIDE DEF subt, part_of, kept
<1>5. mean' = Sma!Minus(mean, part_of) /\ UNCHANGED <<n, new_n, window, raced>>
  BY DEF Sma!Shrink, subt, part_of
<1>6. mean' \in Floats
  BY <1>2, <1>4, <1>5, FloatsAreInt, Operations DEF DivisionHypothesis
<1>7. Sma!Times(mean', n) = Sma!Minus(Sma!Times(mean, n), subt)
  BY <1>1, <1>2, <1>4, <1>5, Distributes DEF DivisionHypothesis
<1>8. Sma!Minus(Sma!Add(kept, subt), subt) = kept
  BY <1>3, AddsUp DEF DivisionHypothesis
<1>9. sma_todo = "resize" /\ sma_todo' = "scale"
  BY DEF Sma!Shrink
<1> QED
  BY <1>1, <1>2, <1>3, <1>5, <1>6, <1>7, <1>8, <1>9 DEF MeanInv, kept

(* sma.c:88: the rest is scaled to the new size.                           *)
LEMMA MeanScales ==
  ASSUME DivisionHypothesis, WindowInv, MeanInv, Sma!Scale
  PROVE  MeanInv'
<1>1. n \in Int /\ new_n \in Sma!Sizes
  BY DEF WindowInv, AskInv, Sma!WindowInBounds, Sma!Scale, Sma!Sizes, DivisionHypothesis
<1>2. mean \in Floats /\ window \in Arrays
  BY DEF MeanInv
<1>3. Sma!Times(mean, n) \in Floats
  BY <1>1, <1>2, FloatsAreInt, Operations DEF DivisionHypothesis
<1>4. mean' \in Floats /\ Sma!Times(mean', new_n) = Sma!Times(mean, n)
  BY <1>1, <1>3, Quotients DEF Sma!Scale
<1> QED
  BY <1>2, <1>4 DEF Sma!Scale, MeanInv

(* sma.c:90-92: slots that hold the mean leave it the mean.                *)
LEMMA MeanGrows ==
  ASSUME DivisionHypothesis, WindowInv, MeanInv, Sma!Grow
  PROVE  MeanInv'
<1>1. /\ n \in 0..Allocated /\ n \in Int /\ 0 \in 0..Allocated
      /\ new_n \in 0..Allocated /\ n \in 0..new_n /\ new_n \in n..Allocated
      /\ new_n - n \in Int /\ n + (new_n - n) = new_n
  BY DEF WindowInv, Sma!WindowInBounds, Sma!Grow, Sma!Sizes, DivisionHypothesis
<1>2. mean \in Floats /\ window \in Arrays
  BY DEF MeanInv
<1>3. /\ window' \in Arrays
      /\ \A i \in 0..n - 1 : window'[i] = window[i]
      /\ \A i \in n..new_n - 1 : window'[i] = mean
  BY <1>1, <1>2 DEF Sma!Grow, Sma!Filled, Arrays, DivisionHypothesis
<1>4. Sma!Sum(window', 0, n) = Sma!Sum(window, 0, n)
  BY <1>1, <1>2, <1>3, SumOfEqual
<1>5. Sma!Sum(window', n, new_n) = Sma!Times(mean, new_n - n)
  BY <1>1, <1>2, <1>3, SumOfEqualSlots
<1>6. Sma!Sum(window', 0, new_n)
        = Sma!Add(Sma!Sum(window, 0, n), Sma!Times(mean, new_n - n))
  BY <1>1, <1>3, <1>4, <1>5, SumSplits
<1>7. Sma!Add(Sma!Times(mean, n), Sma!Times(mean, new_n - n)) = Sma!Times(mean, new_n)
  BY <1>1, <1>2, Distributes DEF DivisionHypothesis
<1>8. /\ sma_todo = "resize" /\ sma_todo' = "adopt"
      /\ UNCHANGED <<new_n, mean, raced>>
  BY DEF Sma!Grow
<1> QED
  BY <1>2, <1>3, <1>6, <1>7, <1>8 DEF MeanInv

(* sma.c:65-72                                                             *)
LEMMA MeanResets ==
  ASSUME DivisionHypothesis, WindowInv, MeanInv, Sma!Reset
  PROVE  MeanInv'
<1>1. 0 \in Floats /\ 0 \in 0..Allocated /\ n \in 0..Allocated /\ n \in Int /\ n - 0 = n
  BY DEF WindowInv, Sma!WindowInBounds, DivisionHypothesis, FloatsHypothesis, Floats,
         Sma!Floats, Sma!Sizes
<1>2. window' \in Arrays /\ \A i \in 0..n - 1 : window'[i] = 0
  BY <1>1 DEF Sma!Reset, MeanInv, Arrays, DivisionHypothesis
<1>3. Sma!Sum(window', 0, n) = Sma!Times(0, n)
  BY <1>1, <1>2, SumOfEqualSlots
<1> QED
  BY <1>1, <1>2, <1>3 DEF Sma!Reset, MeanInv

(* Every step keeps the invariant; a size that is asked for while one is   *)
(* pending races.                                                          *)
LEMMA MeanNext ==
  ASSUME DivisionHypothesis, WindowInv, MeanInv, [Sma!Next]_Sma!vars
  PROVE  MeanInv'
<1>1. ASSUME NEW who \in Configurers, Sma!Ask(who)
      PROVE  MeanInv'
  <2>1. UNCHANGED <<n, window, mean, sma_todo>> /\ raced' = (raced \/ new_n # 0)
    BY <1>1 DEF Sma!Ask
  <2>2. ~raced' => ~raced /\ new_n = 0
    BY <2>1, Zenon
  <2>3. ~raced' => sma_todo \notin {"resize", "scale", "adopt"}
    BY <2>2 DEF WindowInv, AskInv
  <2> QED
    BY <2>1, <2>2, <2>3 DEF MeanInv
<1>2. ASSUME NEW who \in Configurers, NEW size \in Sma!Sizes, Sma!Test(who, size)
      PROVE  MeanInv'
  BY <1>2 DEF Sma!Test, Sma!sma, MeanInv
<1>3. CASE Sma!Adopt
  BY <1>3 DEF Sma!Adopt, MeanInv
<1>4. CASE Sma!Clear
  BY <1>4 DEF Sma!Clear, MeanInv
<1>5. CASE Sma!Advance
  BY <1>5 DEF Sma!Advance, MeanInv
<1>6. CASE UNCHANGED Sma!vars
  BY <1>6 DEF Sma!vars, Sma!sma, MeanInv
<1> QED
  BY <1>1, <1>2, <1>3, <1>4, <1>5, <1>6, MeanUpdates, MeanShrinks, MeanScales,
     MeanGrows, MeanResets DEF Sma!Next, Sma!Configure, Sma!Main

(* sma.c:75-96: the value, which is never computed anew, is the mean of    *)
(* the window through any number of updates, resets and changes of its     *)
(* size, for every size and number of threads that ask for one, unless two *)
(* of them raced.                                                          *)
THEOREM MeanIsOfTheWindow ==
  ASSUME DivisionHypothesis
  PROVE  Sma!Spec => []ValueIsMean
<1>1. Sma!Init => WindowInv /\ MeanInv
  BY WindowStarts, MeanStarts DEF DivisionHypothesis
<1>2. WindowInv /\ MeanInv /\ [Sma!Next]_Sma!vars => (WindowInv /\ MeanInv)'
  BY WindowNext, MeanNext DEF DivisionHypothesis
<1>3. WindowInv /\ MeanInv => ValueIsMean
  BY DEF MeanInv, ValueIsMean, Sma!ValueIsMean
<1> QED
  BY <1>1, <1>2, <1>3, PTL DEF Sma!Spec

-----------------------------------------------------------------------------
TrackerTypes ==
  /\ frequency \in Int /\ filter_frequency \in Int
  /\ overlapped \in BOOLEAN
  /\ configured \in [Tracker!Indices -> Int]
  /\ ft_todo \in [Tracker!Threads -> 0..Components + 1]
  /\ arg \in [Tracker!Threads -> Int]

(* The components before the one that a thread is at have its frequency.   *)
Progress(t) == \A i \in Tracker!Indices : i < ft_todo[t] => configured[i] = arg[t]

(* Without an overlap one thread at most is configuring.                   *)
AloneInv ==
  ~overlapped => /\ ft_todo["aux"] = 0 \/ ft_todo["command"] = 0
                 /\ ft_todo["aux"] # 0 => Progress("aux")
                 /\ ft_todo["command"] # 0 => Progress("command")

(* A command that does not overlap is still of the frequency that is kept; *)
(* the measured one has hardly left what the tracker configures.           *)
CommandInv ==
  /\ ft_todo["command"] \in 0..Components
  /\ ~overlapped /\ ft_todo["command"] # 0 => arg["command"] = filter_frequency
DriftInv == ft_todo["aux"] # 0 => Tracker!Distance(frequency, arg["aux"]) <= 1

TrackerInv ==
  /\ TrackerTypes /\ AloneInv /\ CommandInv /\ DriftInv
  /\ Tracker!FrequencyApplied

-----------------------------------------------------------------------------
(* Both threads, one by one.                                               *)
LEMMA TheThreads ==
  /\ "aux" \in Tracker!Threads /\ "command" \in Tracker!Threads
  /\ \A t \in Tracker!Threads : t = "aux" \/ t = "command"
  /\ "aux" # "command"
  BY DEF Tracker!Threads

(* At the start every component is configured for the frequency.           *)
LEMMA TrackerStarts ==
  ASSUME Components \in Nat \ {0}, Frequencies \subseteq Int, Tracker!Init
  PROVE  TrackerInv
<1>1. frequency \in Int /\ filter_frequency = frequency
  BY DEF Tracker!Init
<1>2. \A t \in Tracker!Threads : ft_todo[t] = 0 /\ arg[t] = frequency
  BY DEF Tracker!Init
<1>3. TrackerTypes
  <2>1. overlapped \in BOOLEAN
    BY Zenon DEF Tracker!Init
  <2>2. configured \in [Tracker!Indices -> Int] /\ arg \in [Tracker!Threads -> Int]
    BY <1>1 DEF Tracker!Init
  <2>3. ft_todo \in [Tracker!Threads -> 0..Components + 1]
    BY DEF Tracker!Init
  <2> QED BY <1>1, <2>1, <2>2, <2>3 DEF TrackerTypes
<1>4. AloneInv /\ CommandInv /\ DriftInv
  BY <1>2, TheThreads DEF Tracker!Init, AloneInv, CommandInv, DriftInv
<1>5. Tracker!FrequencyApplied
  BY <1>1 DEF Tracker!Init, Tracker!FrequencyApplied, Tracker!Distance
<1> QED BY <1>3, <1>4, <1>5 DEF TrackerInv

(* A thread that begins is alone, or the overlap is marked.                *)
LEMMA BeginStep ==
  ASSUME Components \in Nat \ {0}, TrackerInv,
         NEW t \in Tracker!Threads, NEW f \in Int,
         ft_todo[t] = 0, Tracker!Begin(t, f),
         t = "aux" => f = frequency,
         t = "command" => f = filter_frequency,
         UNCHANGED <<frequency, filter_frequency, configured>>
  PROVE  TrackerInv'
<1>1. ft_todo' = [ft_todo EXCEPT ![t] = 1] /\ arg' = [arg EXCEPT ![t] = f]
  BY DEF Tracker!Begin
<1>2. /\ overlapped' \in BOOLEAN
      /\ ~overlapped' => \A other \in Tracker!Threads \ {t} : ft_todo[other] = 0
  BY Zenon DEF Tracker!Begin
<1>3. TrackerTypes'
  BY <1>1, <1>2 DEF TrackerInv, TrackerTypes
<1>4. ft_todo'[t] = 1 /\ arg'[t] = f
  BY <1>1 DEF TrackerInv, TrackerTypes
<1>5. \A other \in Tracker!Threads \ {t} :
        ft_todo'[other] = ft_todo[other] /\ arg'[other] = arg[other]
  BY <1>1 DEF TrackerInv, TrackerTypes
<1>6. AloneInv'
  BY <1>2, <1>4, <1>5, TheThreads DEF AloneInv, Progress, Tracker!Indices
<1>7. CommandInv'
  <2>1. CASE t = "command"
    BY <2>1, <1>4 DEF CommandInv
  <2>2. CASE t = "aux"
    <3>1. ft_todo'["command"] = ft_todo["command"]
      BY <2>2, <1>5, TheThreads
    <3>2. ~overlapped' => ft_todo["command"] = 0
      BY <2>2, <1>2, TheThreads
    <3> QED BY <3>1, <3>2 DEF TrackerInv, CommandInv
  <2> QED BY <2>1, <2>2, TheThreads
<1>8. DriftInv'
  <2>1. CASE t = "aux"
    BY <2>1, <1>4 DEF DriftInv, Tracker!Distance, TrackerInv, TrackerTypes
  <2>2. CASE t = "command"
    BY <2>2, <1>5, TheThreads DEF DriftInv, Tracker!Distance, TrackerInv
  <2> QED BY <2>1, <2>2, TheThreads
<1>9. Tracker!FrequencyApplied'
  BY <1>4 DEF Tracker!FrequencyApplied
<1> QED BY <1>3, <1>6, <1>7, <1>8, <1>9 DEF TrackerInv

(* One component more; the last one of a command ends it.                  *)
LEMMA ReconfigureStep ==
  ASSUME Components \in Nat \ {0}, TrackerInv,
         NEW t \in Tracker!Threads, Tracker!Reconfigure(t)
  PROVE  TrackerInv'
<1> DEFINE last == t = "command" /\ ft_todo[t] = Components
<1> USE DEF TrackerInv, TrackerTypes
<1>1. /\ ft_todo[t] \in Tracker!Indices
      /\ configured' = [configured EXCEPT ![ft_todo[t]] = arg[t]]
      /\ UNCHANGED <<frequency, filter_frequency, arg, overlapped>>
  BY DEF Tracker!Reconfigure, Tracker!ft
<1>2. /\ ft_todo'[t] = IF last THEN 0 ELSE ft_todo[t] + 1
      /\ \A other \in Tracker!Threads \ {t} : ft_todo'[other] = ft_todo[other]
      /\ ft_todo' \in [Tracker!Threads -> 0..Components + 1]
  BY DEF Tracker!Reconfigure, Tracker!Indices
<1>3. TrackerTypes'
  BY <1>1, <1>2 DEF Tracker!Indices
<1>4. ft_todo[t] # 0
  BY <1>1 DEF Tracker!Indices
<1>5. ASSUME ~overlapped
      PROVE  /\ \A i \in Tracker!Indices : i <= ft_todo[t] => configured'[i] = arg[t]
             /\ \A other \in Tracker!Threads \ {t} : ft_todo[other] = 0
  BY <1>1, <1>4, <1>5, TheThreads DEF AloneInv, Progress, Tracker!Indices
<1>6. AloneInv'
  <2> SUFFICES ASSUME ~overlapped' PROVE AloneInv'
    BY DEF AloneInv
  <2>1. ~overlapped
    BY <1>1
  <2>2. \A other \in Tracker!Threads \ {t} : ft_todo'[other] = 0
    BY <2>1, <1>2, <1>5
  <2>3. ft_todo'[t] # 0 => Progress(t)'
    BY <2>1, <1>1, <1>2, <1>5 DEF Progress, Tracker!Indices
  <2> QED BY <2>2, <2>3, TheThreads DEF AloneInv
<1>7. CommandInv'
  <2>1. CASE t = "command"
    BY <2>1, <1>1, <1>2, <1>4 DEF CommandInv, Tracker!Indices
  <2>2. CASE t = "aux"
    BY <2>2, <1>1, <1>2, TheThreads DEF CommandInv
  <2> QED BY <2>1, <2>2, TheThreads
<1>8. DriftInv'
  <2>1. ft_todo'["aux"] # 0 => ft_todo["aux"] # 0
    BY <1>2, <1>4, TheThreads
  <2> QED BY <1>1, <2>1 DEF DriftInv, Tracker!Distance
<1>9. Tracker!FrequencyApplied'
  <2> SUFFICES ASSUME \A u \in Tracker!Threads : ft_todo'[u] = 0,
                      ~overlapped', NEW i \in Tracker!Indices
               PROVE  Tracker!Distance(configured'[i], filter_frequency') <= 1
    BY DEF Tracker!FrequencyApplied, Tracker!Distance
  <2>1. last
    BY <1>2, <1>4
  <2>2. configured'[i] = arg["command"]
    BY <2>1, <1>1, <1>5 DEF Tracker!Indices
  <2>3. arg["command"] = filter_frequency
    BY <2>1, <1>1, <1>4 DEF CommandInv
  <2> QED BY <2>2, <2>3, <1>1 DEF Tracker!Distance
<1> QED BY <1>3, <1>6, <1>7, <1>8, <1>9

(* The tracker keeps the frequency that it measures by then.               *)
LEMMA CheckEndsStep ==
  ASSUME Components \in Nat \ {0}, TrackerInv, Tracker!CheckEnds
  PROVE  TrackerInv'
<1> USE DEF TrackerInv, TrackerTypes
<1>1. /\ ft_todo["aux"] = Components + 1 /\ filter_frequency' = frequency
      /\ UNCHANGED <<frequency, configured, arg, overlapped>>
  BY DEF Tracker!CheckEnds, Tracker!Keep
<1>2. /\ ft_todo'["aux"] = 0 /\ ft_todo'["command"] = ft_todo["command"]
      /\ ft_todo' \in [Tracker!Threads -> 0..Components + 1]
  BY TheThreads DEF Tracker!CheckEnds
<1>3. TrackerTypes'
  BY <1>1, <1>2
<1>4. ~overlapped => ft_todo["command"] = 0
  BY <1>1 DEF AloneInv
<1>5. AloneInv' /\ CommandInv'
  BY <1>1, <1>2, <1>4 DEF AloneInv, CommandInv, Progress
<1>6. DriftInv'
  BY <1>2 DEF DriftInv
<1>7. Tracker!FrequencyApplied'
  <2> SUFFICES ASSUME ~overlapped', NEW i \in Tracker!Indices
               PROVE  Tracker!Distance(configured'[i], filter_frequency') <= 1
    BY DEF Tracker!FrequencyApplied, Tracker!Distance
  <2>1. configured[i] = arg["aux"]
    BY <1>1 DEF AloneInv, Progress, Tracker!Indices
  <2>2. Tracker!Distance(frequency, arg["aux"]) <= 1
    BY <1>1 DEF DriftInv
  <2> QED BY <2>1, <2>2, <1>1, TheThreads DEF Tracker!Distance
<1> QED BY <1>3, <1>5, <1>6, <1>7

(* The measured frequency is not what the filters are compared with.       *)
LEMMA DriftStep ==
  ASSUME Frequencies \subseteq Int, TrackerInv, Tracker!Drift
  PROVE  TrackerInv'
  BY DEF Tracker!Drift, Tracker!threads, TrackerInv, TrackerTypes, AloneInv,
         CommandInv, DriftInv, Progress, Tracker!FrequencyApplied,
         Tracker!Distance

(* The other steps leave the frequencies and the threads alone.            *)
LEMMA UntouchedStep ==
  ASSUME TrackerInv,
         UNCHANGED <<frequency, filter_frequency, configured, ft_todo, arg,
                     overlapped>>
  PROVE  TrackerInv'
  BY DEF TrackerInv, TrackerTypes, AloneInv, CommandInv, DriftInv, Progress,
         Tracker!FrequencyApplied, Tracker!Distance

(* Every step keeps the invariant.                                         *)
LEMMA TrackerNext ==
  ASSUME Components \in Nat \ {0}, Frequencies \subseteq Int, TrackerInv,
         [Tracker!Next]_Tracker!vars
  PROVE  TrackerInv'
<1>1. CASE Tracker!Check
  <2>1. CASE Tracker!Due(frequency)
    BY <1>1, <2>1, BeginStep, TheThreads
    DEF Tracker!Check, TrackerInv, TrackerTypes
  <2>2. CASE ~Tracker!Due(frequency)
    BY <1>1, <2>2, UntouchedStep DEF Tracker!Check, Tracker!threads
  <2> QED BY <2>1, <2>2
<1>2. CASE Tracker!Command
  BY <1>2, BeginStep, TheThreads
  DEF Tracker!Command, Tracker!ft, TrackerInv, TrackerTypes
<1>3. CASE Tracker!CheckEnds
  BY <1>3, CheckEndsStep
<1>4. ASSUME NEW t \in Tracker!Threads, Tracker!Reconfigure(t) PROVE TrackerInv'
  BY <1>4, ReconfigureStep
<1>5. CASE Tracker!Drift
  BY <1>5, DriftStep
<1>6. CASE Tracker!EngageOrStop
  BY <1>6, UntouchedStep DEF Tracker!EngageOrStop, Tracker!ft, Tracker!threads
<1>7. CASE Tracker!Second
  BY <1>7, UntouchedStep DEF Tracker!Second, Tracker!threads
<1>8. CASE UNCHANGED Tracker!vars
  BY <1>8, UntouchedStep DEF Tracker!vars, Tracker!ft, Tracker!threads
<1> QED BY <1>1, <1>2, <1>3, <1>4, <1>5, <1>6, <1>7, <1>8 DEF Tracker!Next

(* frequency_tracker.c:48-54: unless two threads configured at the same    *)
(* time, no filter is left at another frequency than the one that is kept. *)
THEOREM FiltersAreTuned ==
  ASSUME Components \in Nat \ {0}, Frequencies \subseteq Int
  PROVE  Tracker!Spec => []FrequencyApplied
<1>1. Tracker!Init => TrackerInv
  BY TrackerStarts
<1>2. TrackerInv /\ [Tracker!Next]_Tracker!vars => TrackerInv'
  BY TrackerNext
<1>3. TrackerInv => FrequencyApplied
  BY DEF TrackerInv, FrequencyApplied
<1> QED BY <1>1, <1>2, <1>3, PTL DEF Tracker!Spec

-----------------------------------------------------------------------------
(* What is stored of the battery: each value is the one of the message     *)
(* that is pushed once its store is done, and of the last one before.      *)
Stages == {"none", "hv", "hot", "age", "timer"}
From(stages, new, old) == IF bms_todo \in stages THEN new ELSE old
StoresInv ==
  /\ bms_todo \in Stages
  /\ bms_todo = "none" => message = Bms!NoMessage
  /\ cell_lv = From(Stages \ {"none"}, message.lv, pushed.lv)
  /\ cell_hv = From({"hot", "age", "timer"}, message.hv, pushed.hv)
  /\ hot = From({"age", "timer"}, message.hot, pushed.hot)
  /\ msg_age = From({"timer"}, message.age, pushed.age)
  /\ push_timer = since
  /\ pushed.age \in Nat /\ message.age \in Nat /\ since \in Nat

Ages == BmsTimeout \in Nat /\ \A m \in Messages : m.age \in Nat

LEMMA StoresStart == ASSUME Ages, Bms!Init PROVE StoresInv
<1>1. /\ Bms!NoMessage.lv = 0 /\ Bms!NoMessage.hv = 0
      /\ Bms!NoMessage.hot = FALSE
      /\ Bms!NoMessage.age = Bms!Old /\ Bms!Old \in Nat
  BY DEF Ages, Bms!NoMessage, Bms!Old
<1> QED BY <1>1 DEF Bms!Init, StoresInv, Stages, From

LEMMA StoresNext ==
  ASSUME Ages, StoresInv, [Bms!Next]_Bms!vars
  PROVE  StoresInv'
<1> USE DEF StoresInv, Stages, From
<1>0. Bms!NoMessage.age \in Nat
  BY DEF Ages, Bms!NoMessage, Bms!Old
<1>1. CASE Bms!Evaluate
  <2>1. UNCHANGED <<Bms!bms, Bms!pushing>>
    BY <1>1 DEF Bms!Evaluate, Bms!EvaluateBegins, Bms!EvaluateAge,
                Bms!EvaluateValues, Bms!EvaluateBalance, Bms!EvaluateEnds
  <2> QED BY <2>1 DEF Bms!bms, Bms!pushing
<1>2. CASE Bms!PushBegins
  BY <1>2 DEF Bms!PushBegins, Ages
<1>3. CASE Bms!PushStores
  BY <1>3 DEF Bms!PushStores
<1>4. CASE Bms!PushEnds
  BY <1>0, <1>4 DEF Bms!PushEnds
<1>5. CASE Bms!Configure
  BY <1>5 DEF Bms!Configure, Bms!bms, Bms!pushing
<1>6. CASE Bms!Second
  BY <1>6 DEF Bms!Second, Bms!Aged
<1>7. CASE UNCHANGED Bms!vars
  BY <1>7 DEF Bms!vars, Bms!bms, Bms!pushing
<1> QED
  BY <1>1, <1>2, <1>3, <1>4, <1>5, <1>6, <1>7 DEF Bms!Next

(* What an evaluation has found are faults of messages it has seen, among  *)
(* which are the one that is pushed and the last one.                      *)
Told == UNION {Bms!FaultsOf(m) : m \in seen}
SeenInv ==
  /\ reading # "none" =>
       pushed \in seen /\ (bms_todo # "none" => message \in seen)
  /\ found \subseteq Told
  /\ reading \in {"none", "timer", "lv"} => found = {}

(* If it has met no push, they are those of the last message, of which the *)
(* values are read so far; and it goes on because that was fresh.          *)
QuietInv ==
  quiet =>
    /\ reading # "none" /\ bms_todo = "none"
    /\ reading = "timer" => data_age = pushed.age
    /\ reading # "timer" => pushed.age + since <= BmsTimeout
    /\ reading = "hv" => found = Bms!Under(pushed.lv)
    /\ reading = "hot" => found = Bms!Under(pushed.lv) \cup Bms!Over(pushed.hv)
    /\ reading \in {"balance", "end"} =>
         found = Bms!Under(pushed.lv) \cup Bms!Over(pushed.hv) \cup Bms!Warm(pushed.hot)
    /\ reading = "end" => lv = pushed.lv

BmsInv ==
  /\ StoresInv /\ SeenInv /\ QuietInv
  /\ reading \in {"none", "timer", "lv", "hv", "hot", "balance", "end"}

(* A value that is read is one of a message that is seen.                  *)
LEMMA ValuesAreSeen ==
  ASSUME StoresInv, SeenInv, reading # "none"
  PROVE  /\ Bms!Under(cell_lv) \subseteq Told
         /\ Bms!Over(cell_hv) \subseteq Told
         /\ Bms!Warm(hot) \subseteq Told
<1>1. ASSUME NEW m \in seen
      PROVE  /\ Bms!Under(m.lv) \subseteq Told
             /\ Bms!Over(m.hv) \subseteq Told
             /\ Bms!Warm(m.hot) \subseteq Told
  <2>1. Bms!FaultsOf(m) \subseteq Told
    BY DEF Told
  <2> QED BY <2>1 DEF Bms!FaultsOf
<1>2. /\ \E m \in seen : cell_lv = m.lv
      /\ \E m \in seen : cell_hv = m.hv
      /\ \E m \in seen : hot = m.hot
  <2>1. CASE bms_todo = "none"
    BY <2>1 DEF StoresInv, SeenInv, From
  <2>2. CASE bms_todo # "none"
    BY <2>2 DEF StoresInv, SeenInv, From
  <2> QED BY <2>1, <2>2
<1> QED BY <1>1, <1>2

LEMMA EvaluateKeeps ==
  ASSUME Ages, BmsInv, StoresInv', Bms!Evaluate
  PROVE  BmsInv'
<1>0. UNCHANGED <<Bms!bms, started, Bms!pushing>>
  BY DEF Bms!Evaluate, Bms!EvaluateBegins, Bms!EvaluateAge,
         Bms!EvaluateValues, Bms!EvaluateBalance, Bms!EvaluateEnds
<1> USE <1>0 DEF BmsInv, Bms!bms, Bms!pushing
<1>1. CASE Bms!EvaluateBegins
  <2>1. CASE ~bms_enabled
    BY <1>1, <2>1 DEF Bms!EvaluateBegins, Bms!evaluation, Bms!locals, SeenInv,
                      QuietInv, Told
  <2>2. CASE bms_enabled
    <3>1. /\ reading = "none" /\ reading' = "timer" /\ data_age' = msg_age
          /\ seen' = {pushed} \cup {m \in {message} : bms_todo # "none"}
          /\ quiet' = (bms_todo = "none") /\ found' = found
      BY <1>1, <2>2 DEF Bms!EvaluateBegins
    <3>2. SeenInv'
      BY <3>1 DEF SeenInv
    <3>3. QuietInv'
      BY <3>1 DEF QuietInv, StoresInv, From
    <3> QED BY <3>1, <3>2, <3>3
  <2> QED BY <2>1, <2>2
<1>2. CASE Bms!EvaluateAge
  <2>1. CASE Bms!DataAge > BmsTimeout
    BY <1>2, <2>1 DEF Bms!EvaluateAge, SeenInv, QuietInv, Told
  <2>2. CASE ~(Bms!DataAge > BmsTimeout)
    <3>1. /\ reading = "timer" /\ reading' = "lv"
          /\ UNCHANGED <<seen, quiet, found>>
      BY <1>2, <2>2 DEF Bms!EvaluateAge
    <3>2. SeenInv'
      BY <3>1 DEF SeenInv, Told
    <3>3. quiet => ~(pushed.age + since > BmsTimeout)
      BY <2>2, <3>1 DEF QuietInv, StoresInv, Bms!DataAge
    <3>4. QuietInv'
      BY <3>1, <3>3 DEF QuietInv, StoresInv, Ages
    <3> QED BY <3>1, <3>2, <3>4
  <2> QED BY <2>1, <2>2
<1>3. CASE Bms!EvaluateValues
  <2>1. UNCHANGED <<data_age, lv, seen, quiet>> /\ Told' = Told
    BY <1>3 DEF Bms!EvaluateValues, Told
  <2>2. CASE reading = "lv"
    <3>1. reading' = "hv" /\ found' = found \cup Bms!Under(cell_lv)
      BY <1>3, <2>2 DEF Bms!EvaluateValues
    <3>2. quiet => cell_lv = pushed.lv
      BY DEF QuietInv, StoresInv, From
    <3> QED BY <2>1, <2>2, <3>1, <3>2, ValuesAreSeen DEF SeenInv, QuietInv
  <2>3. CASE reading = "hv"
    <3>1. reading' = "hot" /\ found' = found \cup Bms!Over(cell_hv)
      BY <1>3, <2>3 DEF Bms!EvaluateValues
    <3>2. quiet => cell_hv = pushed.hv
      BY DEF QuietInv, StoresInv, From
    <3> QED BY <2>1, <2>3, <3>1, <3>2, ValuesAreSeen DEF SeenInv, QuietInv
  <2>4. CASE reading = "hot"
    <3>1. reading' = "balance" /\ found' = found \cup Bms!Warm(hot)
      BY <1>3, <2>4 DEF Bms!EvaluateValues
    <3>2. quiet => hot = pushed.hot
      BY DEF QuietInv, StoresInv, From
    <3> QED BY <2>1, <2>4, <3>1, <3>2, ValuesAreSeen DEF SeenInv, QuietInv
  <2> QED BY <1>3, <2>2, <2>3, <2>4 DEF Bms!EvaluateValues
<1>4. CASE Bms!EvaluateBalance
  <2>1. quiet => cell_lv = pushed.lv
    BY DEF QuietInv, StoresInv, From
  <2> QED BY <1>4, <2>1 DEF Bms!EvaluateBalance, SeenInv, QuietInv, Told
<1>5. CASE Bms!EvaluateEnds
  BY <1>5 DEF Bms!EvaluateEnds, SeenInv, QuietInv, Told
<1> QED BY <1>1, <1>2, <1>3, <1>4, <1>5 DEF Bms!Evaluate

LEMMA BmsNext ==
  ASSUME Ages, BmsInv, [Bms!Next]_Bms!vars
  PROVE  BmsInv'
<1>1. StoresInv'
  BY StoresNext DEF BmsInv
<1>2. CASE Bms!Evaluate
  BY <1>1, <1>2, EvaluateKeeps
<1>3. CASE Bms!PushBegins
  <2>1. /\ UNCHANGED <<reading, found, pushed>> /\ quiet' = FALSE
        /\ seen' = seen \cup {m \in {message'} : reading # "none"}
    BY <1>3 DEF Bms!PushBegins, Bms!locals
  <2>2. Told \subseteq Told'
    BY <2>1 DEF Told
  <2>3. SeenInv'
    BY <2>1, <2>2 DEF BmsInv, SeenInv
  <2> QED BY <1>1, <2>1, <2>3 DEF BmsInv, QuietInv
<1>4. CASE Bms!PushStores
  <2>1. /\ UNCHANGED <<Bms!evaluation, pushed, message>>
        /\ bms_todo # "none" /\ Told' = Told
    BY <1>4 DEF Bms!PushStores, Bms!evaluation, Told
  <2> QED BY <1>1, <2>1 DEF BmsInv, SeenInv, QuietInv, Bms!evaluation, Bms!locals
<1>5. CASE Bms!PushEnds
  <2>1. /\ UNCHANGED Bms!evaluation /\ Told' = Told
        /\ bms_todo = "timer" /\ bms_todo' = "none" /\ pushed' = message
    BY <1>5 DEF Bms!PushEnds, Bms!evaluation, Told
  <2> QED BY <1>1, <2>1 DEF BmsInv, SeenInv, QuietInv, Bms!evaluation, Bms!locals
<1>6. CASE Bms!Configure \/ UNCHANGED Bms!vars
  <2>1. UNCHANGED <<Bms!evaluation, Bms!pushing>> /\ Told' = Told
    BY <1>6 DEF Bms!Configure, Bms!vars, Bms!evaluation, Told
  <2> QED BY <1>1, <2>1
          DEF BmsInv, SeenInv, QuietInv, Bms!evaluation, Bms!locals, Bms!pushing
<1>7. CASE Bms!Second
  <2>1. /\ UNCHANGED <<reading, Bms!locals, seen, bms_todo, message, pushed>>
        /\ quiet' = FALSE /\ Told' = Told
    BY <1>7 DEF Bms!Second, Told
  <2> QED BY <1>1, <2>1 DEF BmsInv, SeenInv, QuietInv, Bms!locals
<1> QED BY <1>2, <1>3, <1>4, <1>5, <1>6, <1>7 DEF Bms!Next

(* bms_update and ext_bms, read by read and store by store: an evaluation  *)
(* tells of faults that messages had which were there meanwhile, and those *)
(* of the last message if it was left alone.                               *)
THEOREM FaultsAreOfTheBattery ==
  ASSUME Ages
  PROVE  Bms!Spec => FaultsAreTold
<1> DEFINE
      tells == (Bms!EvaluateAge /\ reading' = "none") \/ Bms!EvaluateEnds
      single == fault_mask' \ {"BALANCE", "CONNECTION"} \subseteq Told
      exact == fault_mask' = IF pushed.age + since <= BmsTimeout
                             THEN Bms!FaultsOf(pushed)
                             ELSE {f \in {"CONNECTION"} : started > BmsTimeout}
<1>1. BmsInv /\ [Bms!Next]_Bms!vars => [tells => single /\ (quiet => exact)]_Bms!vars
  <2> SUFFICES ASSUME BmsInv, tells PROVE single /\ (quiet => exact)
    OBVIOUS
  <2> USE DEF BmsInv
  <2>n. pushed.age + since \in Nat /\ BmsTimeout \in Nat
    BY DEF StoresInv, Ages
  <2>1. CASE Bms!EvaluateAge /\ reading' = "none"
    <3>1. /\ fault_mask' = {f \in {"CONNECTION"} : started > BmsTimeout}
          /\ Bms!DataAge > BmsTimeout /\ reading = "timer"
      BY <2>1 DEF Bms!EvaluateAge
    <3>2. quiet => Bms!DataAge = pushed.age + since
      BY <3>1 DEF QuietInv, StoresInv, Bms!DataAge
    <3>3. quiet => exact
      BY <2>n, <3>1, <3>2
    <3> QED BY <3>1, <3>3
  <2>2. CASE Bms!EvaluateEnds
    <3>1. fault_mask' = found \cup Bms!Apart(lv, cell_hv) /\ reading = "end"
      BY <2>2 DEF Bms!EvaluateEnds
    <3>2. single
      BY <3>1 DEF SeenInv, Bms!Apart
    <3>3. ASSUME quiet PROVE exact
      <4>1. cell_hv = pushed.hv /\ lv = pushed.lv /\ pushed.age + since <= BmsTimeout
        BY <3>1, <3>3 DEF QuietInv, StoresInv, From
      <4>2. fault_mask' = Bms!FaultsOf(pushed)
        BY <3>1, <3>3, <4>1 DEF QuietInv, Bms!FaultsOf
      <4> QED BY <4>1, <4>2
    <3> QED BY <3>2, <3>3
  <2> QED BY <2>1, <2>2
<1>2. Bms!Init => BmsInv
  BY StoresStart DEF Bms!Init, BmsInv, SeenInv, QuietInv, Told
<1>3. BmsInv /\ [Bms!Next]_Bms!vars => BmsInv'
  BY BmsNext
<1> QED
  BY <1>1, <1>2, <1>3, PTL
  DEF Bms!Spec, FaultsAreTold, Bms!FaultsAreTold, Told

-----------------------------------------------------------------------------
(* A step of the composition is one of each of these parts or leaves it    *)
(* alone.                                                                  *)
LEMMA PartSteps ==
  [PartsNext]_all => /\ [Remote!Next]_Remote!vars /\ [Bms!Next]_Bms!vars
                     /\ [Sma!Next]_Sma!vars /\ [Tracker!Next]_Tracker!vars
<1> SUFFICES ASSUME [PartsNext]_all
             PROVE  /\ Remote!Next \/ UNCHANGED remote
                    /\ Bms!Next \/ UNCHANGED bms
                    /\ Sma!Next \/ UNCHANGED sma
                    /\ Tracker!Next \/ UNCHANGED tracker
  BY DEF remote, Remote!vars, Remote!ages, Remote!main, Remote!commands,
         bms, Bms!vars, Bms!bms, Bms!pushing, Bms!evaluation, Bms!locals, sma, Sma!vars, Sma!sma,
         tracker, Tracker!vars, Tracker!ft, Tracker!threads
<1>1. CASE \/ OfBuffer(Next) \/ OfBeeper(Beeper!Next) \/ OfHaptic(Haptic!Next)
           \/ OfReverse(Reverse!Next) \/ OfKonami(Touches!Next)
           \/ OfLeds(Leds!Next)
  BY <1>1
  DEF OfBuffer, OfBeeper, OfHaptic, OfReverse, OfKonami, OfLeds, threads
<1>2. CASE \/ OfRemote(Remote!Next) \/ OfBms(Bms!Next) \/ OfSma(Sma!Next)
           \/ OfTracker(Tracker!Next)
  BY <1>2 DEF OfRemote, OfBms, OfSma, OfTracker
<1>3. CASE UNCHANGED all
  BY <1>3 DEF all, threads
<1> QED BY <1>1, <1>2, <1>3 DEF PartsNext

(* The composition that the run of all parts checks adds nothing to these  *)
(* parts: what holds of remote.c, bms.c, sma.c and frequency_tracker.c on  *)
(* their own holds of it.                                                  *)
THEOREM PartsKeepTheirSpecs ==
  PartsSpec => Remote!Spec /\ Bms!Spec /\ Sma!Spec /\ Tracker!Spec
<1>1. PartsInit => Remote!Init /\ Bms!Init /\ Sma!Init /\ Tracker!Init
  BY DEF PartsInit
<1> QED
  BY <1>1, PartSteps, PTL
  DEF PartsSpec, Remote!Spec, Bms!Spec, Sma!Spec, Tracker!Spec

=============================================================================
