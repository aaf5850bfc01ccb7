-------------------------------- MODULE Timers --------------------------------
(***************************************************************************)
(* The timers of time.h: a timer is the tick of its last refresh, a word   *)
(* of 32 bits like the clock, and its age their difference.  The other     *)
(* modules have ages instead, which saturate; the theorems say when that   *)
(* is the same.  A moment is the number of ticks since the start, of which *)
(* the clock shows one word.                                               *)
(***************************************************************************)
EXTENDS Integers, TLAPS

CONSTANT Word  \* the number of values of time_t, at least one

Tick(moment) == moment % Word
Age(now, timer) == (now - timer) % Word
timer_older(now, timer, ticks) == Age(now, timer) > ticks

\* timer_expire, as if the timer had been refreshed that many ticks ago, which may
\* be before the start.
Expired(now, ticks) == (now - ticks) % Word

-----------------------------------------------------------------------------
(* A number has one quotient and one remainder.                            *)
LEMMA Remainder ==
  ASSUME Word \in Nat, Word > 0, NEW q \in Nat, NEW r \in 0..Word - 1
  PROVE  (Word * q + r) % Word = r
  BY SMT

LEMMA Quotient ==
  ASSUME Word \in Nat, Word > 0, NEW moment \in Nat
  PROVE  \E q \in Nat : moment = Word * q + Tick(moment)
<1>1. moment \div Word \in Int
  BY SMT
<1>2. moment = Word * (moment \div Word) + (moment % Word)
  BY SMT
<1>3. moment % Word \in 0..Word - 1
  BY SMT
<1>4. moment \div Word >= 0
  BY <1>1, <1>2, <1>3, SMT
<1> QED BY <1>1, <1>2, <1>4 DEF Tick

(* Less than a word later the clock shows that much more, or has wrapped.  *)
LEMMA Later ==
  ASSUME Word \in Nat, Word > 0, NEW moment \in Nat, NEW d \in 0..Word - 1
  PROVE  Tick(moment + d) = IF Tick(moment) + d < Word THEN Tick(moment) + d
                            ELSE Tick(moment) + d - Word
<1>1. PICK q \in Nat : moment = Word * q + Tick(moment)
  BY Quotient
<1>2. Tick(moment) \in 0..Word - 1
  BY SMT DEF Tick
<1>3. CASE Tick(moment) + d < Word
  <2>1. moment + d = Word * q + (Tick(moment) + d) /\ Tick(moment) + d \in 0..Word - 1
    BY <1>1, <1>2, <1>3, SMT
  <2>2. (Word * q + (Tick(moment) + d)) % Word = Tick(moment) + d
    BY <2>1, Remainder
  <2> QED BY <2>1, <2>2, <1>3 DEF Tick
<1>4. CASE Tick(moment) + d >= Word
  <2> DEFINE r == Tick(moment) + d - Word
  <2>1. moment + d = Word * (q + 1) + r /\ r \in 0..Word - 1
    BY <1>1, <1>2, <1>4, SMT
  <2>2. q + 1 \in Nat
    OBVIOUS
  <2> HIDE DEF r
  <2>3. (Word * (q + 1) + r) % Word = r
    BY <2>1, <2>2, Remainder
  <2>4. Tick(moment + d) = r
    BY <2>1, <2>3 DEF Tick
  <2> QED BY <2>4, <1>2, <1>4 DEF r
<1> QED BY <1>2, <1>3, <1>4

(* The difference of the words is the age, while it is less than a word.   *)
LEMMA AgeOfMoment ==
  ASSUME Word \in Nat, Word > 0, NEW moment \in Nat, NEW d \in 0..Word - 1
  PROVE  Age(Tick(moment + d), Tick(moment)) = d
<1>1. Tick(moment) \in 0..Word - 1
  BY SMT DEF Tick
<1>2. CASE Tick(moment) + d < Word
  <2>1. Tick(moment + d) - Tick(moment) = d
    BY <1>1, <1>2, Later
  <2>2. d % Word = d
    BY SMT
  <2> QED BY <2>1, <2>2 DEF Age
<1>3. CASE Tick(moment) + d >= Word
  <2>1. Tick(moment + d) - Tick(moment) = d - Word
    BY <1>1, <1>3, Later
  <2>2. (d - Word) % Word = d
    BY SMT
  <2> QED BY <2>1, <2>2 DEF Age
<1> QED BY <1>1, <1>2, <1>3

(* time.h:61: as long as a timer is refreshed within one word of ticks, it *)
(* is older than a time exactly when its age is, also when the clock has   *)
(* wrapped in between.                                                     *)
THEOREM OlderIsOlder ==
  ASSUME Word \in Nat, Word > 0, NEW refreshed \in Nat, NEW d \in 0..Word - 1,
         NEW ticks \in Nat
  PROVE  timer_older(Tick(refreshed + d), Tick(refreshed), ticks) <=> d > ticks
  BY AgeOfMoment DEF timer_older

(* time.h:61: beyond that it is fresh again, and a timeout that nothing    *)
(* looked at for so long is missed.                                        *)
THEOREM WrappedIsFresh ==
  ASSUME Word \in Nat, Word > 0, NEW refreshed \in Nat, NEW d \in 0..Word - 1,
         NEW ticks \in Nat, d <= ticks
  PROVE  ~timer_older(Tick(refreshed + Word + d), Tick(refreshed), ticks)
<1>1. Tick(refreshed + Word + d) = Tick(refreshed + d)
  <2>0. refreshed + d \in Nat
    OBVIOUS
  <2>1. PICK q \in Nat : refreshed + d = Word * q + Tick(refreshed + d)
    BY <2>0, Quotient
  <2>2. Tick(refreshed + d) \in 0..Word - 1
    BY SMT DEF Tick
  <2>3. refreshed + Word + d = Word * (q + 1) + Tick(refreshed + d)
    BY <2>1, <2>2, SMT
  <2>4. (Word * (q + 1) + Tick(refreshed + d)) % Word = Tick(refreshed + d)
    BY <2>2, Remainder
  <2> QED BY <2>3, <2>4 DEF Tick
<1> QED BY <1>1, AgeOfMoment DEF timer_older

(* time.h:56-58: a timer that was expired by an age is as old as one that  *)
(* was refreshed then, even if the clock has not run for that long.        *)
THEOREM ExpiredIsOld ==
  ASSUME Word \in Nat, Word > 0, NEW age \in 0..Word - 1, NEW d \in Nat,
         NEW start \in Nat, d + age < Word, NEW ticks \in Nat
  PROVE  timer_older(Tick(start + d), Expired(Tick(start), age), ticks)
           <=> d + age > ticks
<1> DEFINE s == Tick(start)
<1>1. s \in 0..Word - 1 /\ d \in 0..Word - 1
  BY SMT DEF Tick
<1>2. Expired(s, age) = IF s >= age THEN s - age ELSE s - age + Word
  BY <1>1, SMT DEF Expired
<1>3. Tick(start + d) = IF s + d < Word THEN s + d ELSE s + d - Word
  BY <1>1, Later
<1>4. Age(Tick(start + d), Expired(s, age)) = d + age
  <2> DEFINE diff == Tick(start + d) - Expired(s, age)
  <2>1. diff \in {d + age, d + age - Word}
    BY <1>1, <1>2, <1>3
  <2>2. diff = d + age => diff % Word = d + age
    BY SMT
  <2>3. diff = d + age - Word => diff % Word = d + age
    BY SMT
  <2> QED BY <2>1, <2>2, <2>3 DEF Age
<1> QED BY <1>4 DEF timer_older
=============================================================================
