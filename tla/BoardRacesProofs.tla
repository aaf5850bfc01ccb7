--------------------------- MODULE BoardRacesProofs ---------------------------
(***************************************************************************)
(* What holds of the threads around the run state in every interleaving,   *)
(* for every set of commands and every bound of the pitch.                 *)
(***************************************************************************)
EXTENDS BoardRaces, TLAPS

Configurations == [disabled : BOOLEAN, tuned : BOOLEAN]
Names == {"ready", "engage", "disable", "enable", "flywheel_off", "normal_mode",
          "flywheel_mode", "read_cfg", "deserialize", "configure", "set_disabled",
          "pitch_test", "capture", "no_abort", "tune", "check_faults", "abort",
          "flywheel_check", "konami", "conditions", "assign", "receive",
          "not_running", "write_cfg", "store_words"}
Accesses == Seq(Names)

(* Of the accesses a thread has left: whether it is going to write the     *)
(* configuration, and does so after each of its assignments to the lock.   *)
Assigning == {"assign", "receive", "not_running"}
Writes(s) == \E i \in 1..Len(s) : s[i] = "write_cfg"
Stores(s) ==
  \A i \in 1..Len(s) :
    s[i] \in Assigning => \E j \in 1..Len(s) : j > i /\ s[j] = "write_cfg"
Plain(s) == \A i \in 1..Len(s) : s[i] \notin Assigning \cup {"write_cfg"}

(* Whether it may tune the configuration, and gets another one before it   *)
(* writes it.                                                              *)
Tuning == {"pitch_test", "tune"}
Fetching == {"read_cfg", "deserialize", "receive"}
NoTune(s) == \A i \in 1..Len(s) : s[i] \notin Tuning
Fetches(s) ==
  \A i \in 1..Len(s) :
    s[i] = "write_cfg" => \E j \in 1..Len(s) : j < i /\ s[j] \in Fetching

(* The second halves of a read and of a write: only the next access is one.*)
Halves == {"deserialize", "store_words"}
Whole(s) == \A i \in 1..Len(s) : s[i] \notin Halves
Started(s) == \A i \in 2..Len(s) : s[i] \notin Halves
Special == Assigning \cup Fetching \cup Halves \cup {"write_cfg"}

TypeInv ==
  /\ conf \in Configurations /\ eeprom \in Configurations
  /\ buffer \in [Threads -> Configurations]
  /\ overlapped \in BOOLEAN /\ crossed \in BOOLEAN
  /\ arg \in [Threads -> BOOLEAN]
  /\ todo \in [Threads -> Accesses]
  /\ \A t \in Threads : Started(todo[t])

(* What is in a buffer between the halves, unless the main thread reads    *)
(* while the command thread writes: only the command thread stores, and    *)
(* only a read of the main thread changes the lock meanwhile.              *)
BufferInv ==
  /\ Does("cmd", "deserialize") => buffer["cmd"] = eeprom
  /\ Does("main", "deserialize") =>
       overlapped \/ buffer["main"].disabled = eeprom.disabled
  /\ Does("cmd", "store_words") =>
       overlapped \/ buffer["cmd"].disabled = conf.disabled
  /\ Does("main", "deserialize") /\ Does("cmd", "store_words") => overlapped

(* A command that is not going to write leaves the lock as it is stored.   *)
LockInv ==
  /\ Stores(todo["cmd"])
  /\ ~Writes(todo["cmd"]) /\ ~Does("cmd", "store_words") /\ ~overlapped
       => conf.disabled = eeprom.disabled

(* Unless the main thread has tuned while a command ran, a command that    *)
(* writes does not tune, and gets another configuration before.            *)
TuneInv ==
  ~crossed =>
    /\ eeprom.tuned = FALSE
    /\ Does("main", "deserialize") => buffer["main"].tuned = FALSE
    /\ Does("cmd", "store_words") => buffer["cmd"].tuned = FALSE
    /\ Writes(todo["cmd"]) => NoTune(todo["cmd"])
    /\ conf.tuned = FALSE \/ Fetches(todo["cmd"])

IInv == TypeInv /\ BufferInv /\ LockInv /\ TuneInv

-----------------------------------------------------------------------------
(* Both threads, one by one.                                               *)
LEMMA TheThreads ==
  "main" \in Threads /\ "cmd" \in Threads /\ "main" # "cmd"
  BY DEF Threads

(* What is left after an access: the rest is one earlier, and what is put  *)
(* before it does not store.                                               *)
LEMMA RestOf ==
  ASSUME NEW s \in Accesses, s # <<>>, NEW more \in Accesses
  PROVE  /\ more \o Tail(s) \in Accesses
         /\ Len(more \o Tail(s)) = Len(more) + Len(s) - 1
         /\ \A i \in 1..Len(more) : (more \o Tail(s))[i] = more[i]
         /\ \A i \in 2..Len(s) : (more \o Tail(s))[Len(more) + i - 1] = s[i]
         /\ \A i \in Len(more) + 1..Len(more) + Len(s) - 1 :
              (more \o Tail(s))[i] = s[i - Len(more) + 1]
  BY DEF Accesses

LEMMA NoTuneStays ==
  ASSUME NEW s \in Accesses, s # <<>>, NEW more \in Accesses, NoTune(more), NoTune(s)
  PROVE  NoTune(more \o Tail(s))
<1> DEFINE r == more \o Tail(s)
<1>1. /\ Len(r) = Len(more) + Len(s) - 1
      /\ Len(more) \in Nat /\ Len(s) \in Nat /\ Len(s) > 0
      /\ \A i \in 1..Len(more) : r[i] = more[i]
      /\ \A i \in Len(more) + 1..Len(r) : r[i] = s[i - Len(more) + 1]
  BY RestOf DEF Accesses
<1> HIDE DEF r
<1> SUFFICES ASSUME NEW i \in 1..Len(r) PROVE r[i] \notin Tuning
  BY DEF NoTune, r
<1>2. CASE i \in 1..Len(more)
  BY <1>1, <1>2 DEF NoTune
<1>3. CASE i > Len(more)
  <2>1. i - Len(more) + 1 \in 1..Len(s) /\ r[i] = s[i - Len(more) + 1]
    BY <1>3, <1>1
  <2> QED BY <2>1 DEF NoTune
<1> QED BY <1>1, <1>2, <1>3

LEMMA StoresStays ==
  ASSUME NEW s \in Accesses, s # <<>>, NEW more \in Accesses, Plain(more), Stores(s)
  PROVE  /\ Stores(more \o Tail(s))
         /\ s[1] # "write_cfg" => (Writes(more \o Tail(s)) <=> Writes(s))
         /\ s[1] \in Assigning => Writes(more \o Tail(s))
         /\ Fetches(s) /\ (s[1] \notin Fetching \/ more = <<"deserialize">>)
              => Fetches(more \o Tail(s))
<1> DEFINE r == more \o Tail(s)
<1>1. /\ Len(r) = Len(more) + Len(s) - 1
      /\ Len(more) \in Nat /\ Len(s) \in Nat /\ Len(s) > 0
      /\ \A i \in 1..Len(more) : r[i] = more[i]
      /\ \A i \in 2..Len(s) : r[Len(more) + i - 1] = s[i]
      /\ \A i \in Len(more) + 1..Len(r) : r[i] = s[i - Len(more) + 1]
  BY RestOf DEF Accesses
<1> HIDE DEF r
<1>2. ASSUME NEW j \in 2..Len(s), s[j] = "write_cfg"
      PROVE  Len(more) + j - 1 \in 1..Len(r) /\ r[Len(more) + j - 1] = "write_cfg"
  BY <1>1, <1>2
<1>3. Stores(r)
  <2> SUFFICES ASSUME NEW i \in 1..Len(r), r[i] \in Assigning
               PROVE  \E j \in 1..Len(r) : j > i /\ r[j] = "write_cfg"
    BY DEF Stores
  <2>1. i > Len(more)
    BY <1>1 DEF Plain
  <2>2. i - Len(more) + 1 \in 1..Len(s) /\ s[i - Len(more) + 1] \in Assigning
    BY <1>1, <2>1
  <2>3. PICK j \in 1..Len(s) : j > i - Len(more) + 1 /\ s[j] = "write_cfg"
    BY <2>2 DEF Stores
  <2> QED BY <2>1, <2>3, <1>1, <1>2
<1>4. ASSUME Writes(r) PROVE Writes(s)
  <2>1. PICK i \in 1..Len(r) : r[i] = "write_cfg"
    BY <1>4 DEF Writes
  <2>2. i > Len(more)
    BY <2>1, <1>1 DEF Plain
  <2>3. i - Len(more) + 1 \in 1..Len(s) /\ s[i - Len(more) + 1] = "write_cfg"
    BY <2>1, <2>2, <1>1
  <2> QED BY <2>3 DEF Writes
<1>5. ASSUME Writes(s), s[1] # "write_cfg" PROVE Writes(r)
  <2>1. PICK j \in 1..Len(s) : s[j] = "write_cfg"
    BY <1>5 DEF Writes
  <2>2. j \in 2..Len(s)
    BY <2>1, <1>5, <1>1
  <2> QED BY <2>1, <2>2, <1>2 DEF Writes
<1>6. ASSUME s[1] \in Assigning PROVE Writes(r)
  <2>1. 1 \in 1..Len(s)
    BY <1>1
  <2>2. PICK j \in 1..Len(s) : j > 1 /\ s[j] = "write_cfg"
    BY <2>1, <1>6 DEF Stores
  <2>3. j \in 2..Len(s)
    BY <2>2, <1>1
  <2> QED BY <2>2, <2>3, <1>2 DEF Writes
<1>7. ASSUME Fetches(s), s[1] \notin Fetching \/ more = <<"deserialize">>
      PROVE  Fetches(r)
  <2> SUFFICES ASSUME NEW i \in 1..Len(r), r[i] = "write_cfg"
               PROVE  \E j \in 1..Len(r) : j < i /\ r[j] \in Fetching
    BY DEF Fetches
  <2>1. i > Len(more)
    BY <1>1 DEF Plain
  <2>2. i - Len(more) + 1 \in 1..Len(s) /\ s[i - Len(more) + 1] = "write_cfg"
    BY <1>1, <2>1
  <2>3. CASE more = <<"deserialize">>
    <3>1. 1 \in 1..Len(r) /\ 1 < i /\ r[1] = "deserialize"
      BY <1>1, <2>1, <2>3
    <3> QED BY <3>1 DEF Fetching
  <2>4. CASE s[1] \notin Fetching
    <3>1. PICK j \in 1..Len(s) : j < i - Len(more) + 1 /\ s[j] \in Fetching
      BY <2>2, <1>7 DEF Fetches
    <3>2. j \in 2..Len(s)
      BY <3>1, <2>4, <1>1
    <3>3. Len(more) + j - 1 \in 1..Len(r) /\ r[Len(more) + j - 1] \in Fetching
      BY <1>1, <3>1, <3>2
    <3>4. Len(more) + j - 1 < i
      BY <1>1, <3>1, <3>2
    <3> QED BY <3>3, <3>4
  <2> QED BY <1>7, <2>3, <2>4
<1> QED BY <1>3, <1>4, <1>5, <1>6, <1>7 DEF r

(* What is left after an access has at most its first access in halves.    *)
LEMMA WholeStays ==
  ASSUME NEW s \in Accesses, s # <<>>, NEW more \in Accesses, Started(s)
  PROVE  /\ Whole(more) => Whole(more \o Tail(s)) /\ Started(more \o Tail(s))
         /\ \A h \in Halves : more = <<h>> =>
              Started(more \o Tail(s)) /\ Head(more \o Tail(s)) = h
                /\ more \o Tail(s) # <<>>
<1> DEFINE r == more \o Tail(s)
<1>1. /\ r \in Accesses /\ Len(r) = Len(more) + Len(s) - 1
      /\ Len(more) \in Nat /\ Len(s) \in Nat /\ Len(s) > 0
      /\ \A i \in 1..Len(more) : r[i] = more[i]
      /\ \A i \in Len(more) + 1..Len(r) : r[i] = s[i - Len(more) + 1]
  BY RestOf DEF Accesses
<1> HIDE DEF r
<1>2. ASSUME NEW i \in Len(more) + 1..Len(r) PROVE r[i] \notin Halves
  <2>1. i - Len(more) + 1 \in 2..Len(s) /\ r[i] = s[i - Len(more) + 1]
    BY <1>1
  <2> QED BY <2>1 DEF Started
<1>3. ASSUME Whole(more) PROVE Whole(r) /\ Started(r)
  <2>1. ASSUME NEW i \in 1..Len(r) PROVE r[i] \notin Halves
    <3>1. CASE i \in 1..Len(more)
      BY <1>1, <1>3, <3>1 DEF Whole
    <3>2. CASE i > Len(more)
      BY <1>1, <1>2, <3>2
    <3> QED BY <1>1, <3>1, <3>2
  <2> QED BY <2>1, <1>1 DEF Whole, Started
<1>4. ASSUME NEW h \in Halves, more = <<h>>
      PROVE  Started(r) /\ Head(r) = h /\ r # <<>>
  <2>1. Len(more) = 1 /\ more[1] = h
    BY <1>4
  <2>2. Started(r)
    BY <1>1, <1>2, <2>1 DEF Started
  <2>3. Len(r) > 0 /\ r[1] = h
    BY <1>1, <2>1
  <2> QED BY <1>1, <2>2, <2>3 DEF Accesses
<1> QED BY <1>3, <1>4 DEF r

LEMMA NotHalf ==
  ASSUME NEW s \in Accesses, s # <<>>, Whole(s)
  PROVE  Head(s) \notin Halves
<1>1. 1 \in 1..Len(s) /\ Head(s) = s[1]
  BY DEF Accesses
<1> QED BY <1>1 DEF Whole

(* An access of a thread: its next is a half only if that is put before    *)
(* the rest; the other thread is where it was.                             *)
LEMMA ThenWhole ==
  ASSUME TypeInv, NEW t \in Threads, todo[t] # <<>>,
         NEW more \in Accesses, Whole(more), Then(t, more)
  PROVE  /\ todo' \in [Threads -> Accesses]
         /\ \A u \in Threads : Started(todo'[u])
         /\ \A u \in Threads \ {t} : todo'[u] = todo[u]
         /\ todo'[t] = more \o Tail(todo[t])
         /\ ~Does(t, "deserialize")' /\ ~Does(t, "store_words")'
<1>1. todo \in [Threads -> Accesses] /\ todo[t] \in Accesses /\ Started(todo[t])
  BY DEF TypeInv
<1>2. todo' = [todo EXCEPT ![t] = more \o Tail(todo[t])]
  BY DEF Then
<1>3. more \o Tail(todo[t]) \in Accesses
  BY <1>1, RestOf
<1>4. Whole(more \o Tail(todo[t])) /\ Started(more \o Tail(todo[t]))
  BY <1>1, WholeStays
<1>5. todo'[t] = more \o Tail(todo[t]) /\ \A u \in Threads \ {t} : todo'[u] = todo[u]
  BY <1>1, <1>2
<1>6. todo' \in [Threads -> Accesses]
  BY <1>1, <1>2, <1>3
<1>7. \A u \in Threads : Started(todo'[u])
  BY <1>4, <1>5 DEF TypeInv
<1>8. ~Does(t, "deserialize")' /\ ~Does(t, "store_words")'
  BY <1>3, <1>4, <1>5, NotHalf DEF Does, Halves
<1> QED BY <1>5, <1>6, <1>7, <1>8

LEMMA ThenHalf ==
  ASSUME TypeInv, NEW t \in Threads, todo[t] # <<>>,
         NEW h \in Halves, Then(t, <<h>>)
  PROVE  /\ todo' \in [Threads -> Accesses]
         /\ \A u \in Threads : Started(todo'[u])
         /\ \A u \in Threads \ {t} : todo'[u] = todo[u]
         /\ todo'[t] = <<h>> \o Tail(todo[t])
         /\ \A a : Does(t, a)' <=> a = h
<1>1. todo \in [Threads -> Accesses] /\ todo[t] \in Accesses /\ Started(todo[t])
  BY DEF TypeInv
<1>2. todo' = [todo EXCEPT ![t] = <<h>> \o Tail(todo[t])]
  BY DEF Then
<1>3. <<h>> \in Accesses
  BY DEF Accesses, Names, Halves
<1>4. <<h>> \o Tail(todo[t]) \in Accesses
  BY <1>1, <1>3, RestOf
<1>5. /\ Started(<<h>> \o Tail(todo[t])) /\ Head(<<h>> \o Tail(todo[t])) = h
      /\ <<h>> \o Tail(todo[t]) # <<>>
  BY <1>1, <1>3, WholeStays
<1>6. todo'[t] = <<h>> \o Tail(todo[t]) /\ \A u \in Threads \ {t} : todo'[u] = todo[u]
  BY <1>1, <1>2
<1>7. todo' \in [Threads -> Accesses]
  BY <1>1, <1>2, <1>4
<1>8. \A u \in Threads : Started(todo'[u])
  BY <1>5, <1>6 DEF TypeInv
<1>9. \A a : Does(t, a)' <=> a = h
  BY <1>5, <1>6 DEF Does
<1> QED BY <1>6, <1>7, <1>8, <1>9

(* What is left of a command after an access that is no write.             *)
LEMMA CommandRest ==
  ASSUME TypeInv, LockInv, todo["cmd"] # <<>>, Head(todo["cmd"]) # "write_cfg",
         NEW more \in Accesses, Plain(more), todo'["cmd"] = more \o Tail(todo["cmd"])
  PROVE  /\ Stores(todo'["cmd"])
         /\ Writes(todo'["cmd"]) <=> Writes(todo["cmd"])
         /\ Head(todo["cmd"]) \in Assigning => Writes(todo'["cmd"])
         /\ /\ Fetches(todo["cmd"])
            /\ Head(todo["cmd"]) \notin Fetching \/ more = <<"deserialize">>
            => Fetches(todo'["cmd"])
         /\ NoTune(more) /\ NoTune(todo["cmd"]) => NoTune(todo'["cmd"])
<1>1. todo["cmd"] \in Accesses /\ Stores(todo["cmd"])
  BY TheThreads DEF TypeInv, LockInv
<1>2. Head(todo["cmd"]) = todo["cmd"][1]
  BY <1>1 DEF Accesses
<1> QED BY <1>1, <1>2, StoresStays, NoTuneStays

(* Both threads' accesses that leave the configurations alone.             *)
LEMMA QuietPreserves ==
  ASSUME IInv, NEW t \in Threads, todo[t] # <<>>,
         NEW more \in Accesses, Plain(more), Whole(more), Then(t, more),
         Head(todo[t]) \notin Special,
         NoTune(more) \/ Head(todo[t]) = "pitch_test",
         conf' = conf, eeprom' = eeprom, buffer' = buffer,
         overlapped' = overlapped, crossed' = crossed, arg' \in [Threads -> BOOLEAN]
  PROVE  IInv'
<1>1. /\ TypeInv' /\ todo'[t] = more \o Tail(todo[t])
      /\ \A u \in Threads \ {t} : todo'[u] = todo[u]
      /\ ~Does(t, "deserialize")' /\ ~Does(t, "store_words")'
  BY ThenWhole DEF IInv, TypeInv
<1>2. \A u \in Threads : \A a : u # t => (Does(u, a)' <=> Does(u, a))
  BY <1>1 DEF Does
<1>3. BufferInv'
  BY <1>1, <1>2, TheThreads DEF IInv, BufferInv, Threads
<1>4. CASE t = "main"
  <2>1. todo'["cmd"] = todo["cmd"]
    BY <1>1, <1>4, TheThreads
  <2>2. LockInv'
    BY <1>2, <1>4, <2>1, TheThreads DEF IInv, LockInv
  <2>3. TuneInv'
    BY <1>1, <1>2, <1>4, <2>1, TheThreads DEF IInv, TuneInv
  <2> QED BY <1>1, <1>3, <2>2, <2>3 DEF IInv
<1>5. CASE t = "cmd"
  <2>1. /\ Stores(todo'["cmd"]) /\ (Writes(todo'["cmd"]) <=> Writes(todo["cmd"]))
        /\ Fetches(todo["cmd"]) => Fetches(todo'["cmd"])
        /\ NoTune(more) /\ NoTune(todo["cmd"]) => NoTune(todo'["cmd"])
    BY <1>1, <1>5, CommandRest DEF IInv, Special
  <2>2. ~Does("cmd", "store_words")
    BY <1>5 DEF Does, Special, Halves
  <2>3. LockInv'
    BY <2>1, <2>2 DEF IInv, LockInv
  <2>4. ASSUME Head(todo["cmd"]) = "pitch_test" PROVE ~NoTune(todo["cmd"])
    <3>1. 1 \in 1..Len(todo["cmd"]) /\ todo["cmd"][1] = "pitch_test"
      BY <1>5, <2>4 DEF IInv, TypeInv, Accesses
    <3> QED BY <3>1 DEF NoTune, Tuning
  <2>5. TuneInv'
    BY <1>1, <1>2, <1>5, <2>1, <2>4, TheThreads DEF IInv, TuneInv
  <2> QED BY <1>1, <1>3, <2>3, <2>5 DEF IInv
<1> QED BY <1>4, <1>5 DEF Threads

(* The accesses that are put before others.                                *)
LEMMA PlainSequences ==
  ASSUME NEW s \in {<<>>, <<"ready">>, <<"engage">>, <<"disable">>, <<"enable">>,
                    <<"normal_mode">>, <<"no_abort", "tune">>,
                    <<"capture", "no_abort", "tune">>, <<"flywheel_off", "abort">>,
                    <<"flywheel_mode", "pitch_test">>}
  PROVE  s \in Accesses /\ Plain(s) /\ Whole(s)
<1>1. /\ <<>> \in Accesses /\ <<"ready">> \in Accesses /\ <<"engage">> \in Accesses
      /\ <<"disable">> \in Accesses /\ <<"enable">> \in Accesses
      /\ <<"normal_mode">> \in Accesses /\ <<"no_abort", "tune">> \in Accesses
      /\ <<"capture", "no_abort", "tune">> \in Accesses
      /\ <<"flywheel_off", "abort">> \in Accesses
      /\ <<"flywheel_mode", "pitch_test">> \in Accesses
  BY DEF Accesses, Names
<1>2. Plain(s)
  BY DEF Plain, Assigning
<1>3. Whole(s)
  BY DEF Whole, Halves
<1> QED BY <1>1, <1>2, <1>3

LEMMA HalfSequences ==
  /\ <<"deserialize">> \in Accesses /\ Plain(<<"deserialize">>)
  /\ <<"store_words">> \in Accesses /\ Plain(<<"store_words">>)
  /\ NoTune(<<"deserialize">>)
  BY DEF Accesses, Names, Plain, Assigning, NoTune, Tuning

LEMMA QuietSequences ==
  ASSUME NEW s \in {<<>>, <<"ready">>, <<"engage">>, <<"disable">>, <<"enable">>,
                    <<"normal_mode">>, <<"flywheel_off", "abort">>}
  PROVE  NoTune(s)
  BY DEF NoTune, Tuning

(* The halves of a read and of a write, and the tune.                      *)
LEMMA ReadPreserves ==
  ASSUME IInv, NEW t \in Threads, ReadCfg(t)
  PROVE  IInv'
<1>1. /\ todo[t] # <<>> /\ Head(todo[t]) = "read_cfg" /\ Then(t, <<"deserialize">>)
      /\ buffer' = [buffer EXCEPT ![t] = eeprom]
      /\ overlapped' = (overlapped \/ (t = "main" /\ Does("cmd", "store_words")))
      /\ UNCHANGED <<conf, eeprom, arg, crossed>>
  BY DEF ReadCfg, Does
<1>2. /\ todo' \in [Threads -> Accesses] /\ \A u \in Threads : Started(todo'[u])
      /\ \A u \in Threads \ {t} : todo'[u] = todo[u]
      /\ todo'[t] = <<"deserialize">> \o Tail(todo[t])
      /\ \A a : Does(t, a)' <=> a = "deserialize"
  BY <1>1, ThenHalf DEF IInv, Halves
<1>3. \A u \in Threads : \A a : u # t => (Does(u, a)' <=> Does(u, a))
  BY <1>2 DEF Does
<1>4. TypeInv'
  BY <1>1, <1>2 DEF IInv, TypeInv
<1>5. buffer'[t] = eeprom /\ \A u \in Threads \ {t} : buffer'[u] = buffer[u]
  BY <1>1 DEF IInv, TypeInv
<1>6. CASE t = "main"
  <2>1. /\ todo'["cmd"] = todo["cmd"] /\ buffer'["cmd"] = buffer["cmd"]
        /\ buffer'["main"] = eeprom
        /\ \A a : Does("cmd", a)' <=> Does("cmd", a)
        /\ overlapped' = (overlapped \/ Does("cmd", "store_words"))
    BY <1>1, <1>2, <1>3, <1>5, <1>6, TheThreads
  <2>2. BufferInv'
    BY <1>1, <2>1 DEF IInv, BufferInv, TypeInv
  <2>3. LockInv'
    BY <1>1, <2>1 DEF IInv, LockInv, TypeInv
  <2>4. TuneInv'
    BY <1>1, <2>1 DEF IInv, TuneInv
  <2> QED BY <1>4, <2>2, <2>3, <2>4 DEF IInv
<1>7. CASE t = "cmd"
  <2>1. /\ buffer'["main"] = buffer["main"] /\ buffer'["cmd"] = eeprom
        /\ \A a : Does("main", a)' <=> Does("main", a)
        /\ \A a : Does("cmd", a)' <=> a = "deserialize"
        /\ overlapped' = overlapped
    BY <1>1, <1>2, <1>3, <1>5, <1>7, TheThreads DEF IInv, TypeInv
  <2>2. BufferInv'
    BY <1>1, <2>1 DEF IInv, BufferInv
  <2>3. /\ Stores(todo'["cmd"]) /\ (Writes(todo'["cmd"]) <=> Writes(todo["cmd"]))
        /\ Fetches(todo["cmd"]) => Fetches(todo'["cmd"])
        /\ NoTune(todo["cmd"]) => NoTune(todo'["cmd"])
    BY <1>1, <1>2, <1>7, CommandRest, HalfSequences DEF IInv
  <2>4. ~Does("cmd", "store_words")
    BY <1>1, <1>7 DEF Does
  <2>5. LockInv'
    BY <1>1, <2>1, <2>3, <2>4 DEF IInv, LockInv
  <2>6. TuneInv'
    BY <1>1, <2>1, <2>3 DEF IInv, TuneInv
  <2> QED BY <1>4, <2>2, <2>5, <2>6 DEF IInv
<1> QED BY <1>6, <1>7 DEF Threads

LEMMA DeserializePreserves ==
  ASSUME IInv, NEW t \in Threads, Deserialize(t)
  PROVE  IInv'
<1>1. /\ todo[t] # <<>> /\ Head(todo[t]) = "deserialize" /\ Then(t, <<>>)
      /\ Does(t, "deserialize")
      /\ conf' = buffer[t]
      /\ UNCHANGED <<eeprom, arg, copies>>
  BY DEF Deserialize, Does, Done
<1>2. /\ todo' \in [Threads -> Accesses] /\ \A u \in Threads : Started(todo'[u])
      /\ \A u \in Threads \ {t} : todo'[u] = todo[u]
      /\ todo'[t] = <<>> \o Tail(todo[t])
      /\ ~Does(t, "deserialize")' /\ ~Does(t, "store_words")'
  BY <1>1, ThenWhole, PlainSequences DEF IInv
<1>3. \A u \in Threads : \A a : u # t => (Does(u, a)' <=> Does(u, a))
  BY <1>2 DEF Does
<1>4. TypeInv'
  BY <1>1, <1>2 DEF IInv, TypeInv, copies
<1>5. CASE t = "main"
  <2>1. todo'["cmd"] = todo["cmd"] /\ \A a : Does("cmd", a)' <=> Does("cmd", a)
    BY <1>2, <1>3, <1>5, TheThreads
  <2>2. \/ overlapped
        \/ conf'.disabled = eeprom.disabled /\ ~Does("cmd", "store_words")
    BY <1>1, <1>5 DEF IInv, BufferInv
  <2>3. BufferInv'
    BY <1>1, <1>2, <1>5, <2>1, <2>2 DEF IInv, BufferInv, copies
  <2>4. LockInv'
    BY <1>1, <2>1, <2>2 DEF IInv, LockInv, copies
  <2>5. TuneInv'
    BY <1>1, <1>2, <1>5, <2>1 DEF IInv, TuneInv, copies
  <2> QED BY <1>4, <2>3, <2>4, <2>5 DEF IInv
<1>6. CASE t = "cmd"
  <2>1. \A a : Does("main", a)' <=> Does("main", a)
    BY <1>3, <1>6, TheThreads
  <2>2. conf' = eeprom
    BY <1>1, <1>6 DEF IInv, BufferInv
  <2>3. BufferInv'
    BY <1>1, <1>2, <1>6, <2>1 DEF IInv, BufferInv, copies
  <2>4. /\ Stores(todo'["cmd"]) /\ (Writes(todo'["cmd"]) <=> Writes(todo["cmd"]))
        /\ NoTune(todo["cmd"]) => NoTune(todo'["cmd"])
    BY <1>1, <1>2, <1>6, CommandRest, PlainSequences, QuietSequences DEF IInv
  <2>5. LockInv'
    BY <1>1, <2>2, <2>4 DEF LockInv
  <2>6. TuneInv'
    BY <1>1, <1>2, <1>6, <2>1, <2>2, <2>4 DEF IInv, TuneInv, copies
  <2> QED BY <1>4, <2>3, <2>5, <2>6 DEF IInv
<1> QED BY <1>5, <1>6 DEF Threads

LEMMA TunePreserves ==
  ASSUME IInv, NEW t \in Threads, Tune(t)
  PROVE  IInv'
<1>1. /\ todo[t] # <<>> /\ Head(todo[t]) = "tune" /\ Then(t, <<>>)
      /\ conf' = [conf EXCEPT !.tuned = TRUE]
      /\ crossed' = (crossed \/ (t = "main" /\ todo["cmd"] # <<>>))
      /\ UNCHANGED <<eeprom, arg, buffer, overlapped>>
  BY DEF Tune, Does, Done
<1>2. /\ todo' \in [Threads -> Accesses] /\ \A u \in Threads : Started(todo'[u])
      /\ \A u \in Threads \ {t} : todo'[u] = todo[u]
      /\ todo'[t] = <<>> \o Tail(todo[t])
      /\ ~Does(t, "deserialize")' /\ ~Does(t, "store_words")'
  BY <1>1, ThenWhole, PlainSequences DEF IInv
<1>3. \A u \in Threads : \A a : u # t => (Does(u, a)' <=> Does(u, a))
  BY <1>2 DEF Does
<1>4. conf' \in Configurations /\ conf'.disabled = conf.disabled
  BY <1>1 DEF IInv, TypeInv, Configurations
<1>5. TypeInv'
  BY <1>1, <1>2, <1>4 DEF IInv, TypeInv
<1>6. CASE t = "main"
  <2>1. todo'["cmd"] = todo["cmd"] /\ \A a : Does("cmd", a)' <=> Does("cmd", a)
    BY <1>2, <1>3, <1>6, TheThreads
  <2>2. BufferInv'
    BY <1>1, <1>2, <1>4, <1>6, <2>1 DEF IInv, BufferInv
  <2>3. LockInv'
    BY <1>1, <1>4, <2>1 DEF IInv, LockInv
  <2>4. ASSUME ~crossed' PROVE Fetches(todo'["cmd"])
    <3>1. todo["cmd"] = <<>>
      BY <1>1, <1>6, <2>4
    <3> QED BY <2>1, <3>1 DEF Fetches
  <2>5. TuneInv'
    BY <1>1, <1>2, <1>6, <2>1, <2>4 DEF IInv, TuneInv
  <2> QED BY <1>5, <2>2, <2>3, <2>5 DEF IInv
<1>7. CASE t = "cmd"
  <2>1. \A a : Does("main", a)' <=> Does("main", a)
    BY <1>3, <1>7, TheThreads
  <2>2. crossed' = crossed
    BY <1>1, <1>7, TheThreads DEF IInv, TypeInv
  <2>3. BufferInv'
    BY <1>1, <1>2, <1>7, <2>1 DEF IInv, BufferInv
  <2>4. Stores(todo'["cmd"]) /\ (Writes(todo'["cmd"]) <=> Writes(todo["cmd"]))
    BY <1>1, <1>2, <1>7, CommandRest, PlainSequences DEF IInv
  <2>5. ~Does("cmd", "store_words")
    BY <1>1, <1>7 DEF Does
  <2>6. LockInv'
    BY <1>1, <1>4, <2>4, <2>5 DEF IInv, LockInv
  <2>7. 1 \in 1..Len(todo["cmd"]) /\ todo["cmd"][1] = "tune"
    BY <1>1, <1>7 DEF IInv, TypeInv, Accesses
  <2>8. ~NoTune(todo["cmd"])
    BY <2>7 DEF NoTune, Tuning
  <2>9. ~Writes(todo'["cmd"]) => Fetches(todo'["cmd"])
    BY DEF Writes, Fetches
  <2>10. TuneInv'
    BY <1>1, <1>2, <1>7, <2>1, <2>2, <2>4, <2>8, <2>9 DEF IInv, TuneInv
  <2> QED BY <1>5, <2>3, <2>6, <2>10 DEF IInv
<1> QED BY <1>6, <1>7 DEF Threads

LEMMA SharedPreserves ==
  ASSUME IInv, NEW t \in Threads, Shared(t)
  PROVE  IInv'
<1> USE PlainSequences, QuietSequences
<1>t. arg \in [Threads -> BOOLEAN]
  BY DEF IInv, TypeInv
<1>1. CASE SetState(t)
  <2>1. todo[t] # <<>> /\ Head(todo[t]) \notin Special
    BY <1>1 DEF SetState, StateWrites, Does, Special, Assigning, Fetching, Halves
  <2>2. Then(t, <<>>)
    BY <1>1 DEF SetState, StateWrites, Done
  <2>3. UNCHANGED <<conf, eeprom, arg, copies>>
    BY <1>1 DEF SetState, StateWrites
  <2> QED BY <1>t, <2>1, <2>2, <2>3, QuietPreserves DEF copies
<1>2. CASE FlywheelOff(t)
  <2>1. todo[t] # <<>> /\ Head(todo[t]) \notin Special
    BY <1>2 DEF FlywheelOff, Does, Special, Assigning, Fetching, Halves
  <2>2. Then(t, <<"ready">>) \/ Then(t, <<>>)
    BY <1>2 DEF FlywheelOff, Done
  <2>3. UNCHANGED <<conf, eeprom, arg, copies>>
    BY <1>2 DEF FlywheelOff
  <2> QED BY <1>t, <2>1, <2>2, <2>3, QuietPreserves DEF copies
<1>3. CASE SetMode(t)
  <2>1. todo[t] # <<>> /\ Head(todo[t]) \notin Special
    BY <1>3 DEF SetMode, Does, Special, Assigning, Fetching, Halves
  <2>2. Then(t, <<>>)
    BY <1>3 DEF SetMode, Done
  <2>3. UNCHANGED <<conf, eeprom, arg, copies>>
    BY <1>3 DEF SetMode
  <2> QED BY <1>t, <2>1, <2>2, <2>3, QuietPreserves DEF copies
<1>4. CASE SetDisabledTest(t)
  <2>1. todo[t] # <<>> /\ Head(todo[t]) \notin Special
    BY <1>4 DEF SetDisabledTest, Does, Special, Assigning, Fetching, Halves
  <2>2. Then(t, <<"disable">>) \/ Then(t, <<"enable">>) \/ Then(t, <<>>)
    BY <1>4 DEF SetDisabledTest, Done
  <2>3. UNCHANGED <<conf, eeprom, arg, copies>>
    BY <1>4 DEF SetDisabledTest
  <2> QED BY <1>t, <2>1, <2>2, <2>3, QuietPreserves DEF copies
<1>5. CASE PitchTest(t)
  <2>1. /\ todo[t] # <<>> /\ Head(todo[t]) = "pitch_test"
        /\ Head(todo[t]) \notin Special
    BY <1>5 DEF PitchTest, Does, Special, Assigning, Fetching, Halves
  <2>2. \/ Then(t, <<"no_abort", "tune">>) \/ Then(t, <<"normal_mode">>)
        \/ Then(t, <<"capture", "no_abort", "tune">>)
    BY <1>5 DEF PitchTest
  <2>3. UNCHANGED <<conf, eeprom, arg, copies>>
    BY <1>5 DEF PitchTest
  <2> QED BY <1>t, <2>1, <2>2, <2>3, QuietPreserves DEF copies
<1>6. CASE Capture(t) \/ ClearAbort(t)
  <2>1. todo[t] # <<>> /\ Head(todo[t]) \notin Special
    BY <1>6 DEF Capture, ClearAbort, Does, Special, Assigning, Fetching, Halves
  <2>2. Then(t, <<>>)
    BY <1>6 DEF Capture, ClearAbort, Done
  <2>3. UNCHANGED <<conf, eeprom, arg, copies>>
    BY <1>6 DEF Capture, ClearAbort
  <2> QED BY <1>t, <2>1, <2>2, <2>3, QuietPreserves DEF copies
<1> QED BY <1>1, <1>2, <1>3, <1>4, <1>5, <1>6, ReadPreserves, DeserializePreserves,
          TunePreserves DEF Shared

(* Of the main thread's own accesses none is to the configuration.         *)
LEMMA MainPreserves ==
  ASSUME IInv, Main
  PROVE  IInv'
<1> USE PlainSequences, QuietSequences, TheThreads
<1>t. arg \in [Threads -> BOOLEAN] /\ todo \in [Threads -> Accesses]
  BY DEF IInv, TypeInv
<1>r. ASSUME NEW s \in Accesses, Whole(s), todo' = [todo EXCEPT !["main"] = s],
             UNCHANGED <<conf, eeprom, arg, copies>>
      PROVE  IInv'
  <2>1. todo'["cmd"] = todo["cmd"] /\ todo'["main"] = s
    BY <1>t, <1>r
  <2>2. Started(s)
    <3>1. \A i \in 2..Len(s) : i \in 1..Len(s)
      BY DEF Accesses
    <3> QED BY <1>r, <3>1 DEF Whole, Started
  <2>3. ~Does("main", "deserialize")'
    BY <1>r, <2>1, NotHalf DEF Does, Halves
  <2>4. \A a : Does("cmd", a)' <=> Does("cmd", a)
    BY <2>1 DEF Does
  <2>5. TypeInv'
    BY <1>t, <1>r, <2>1, <2>2 DEF IInv, TypeInv, copies, Threads
  <2>6. BufferInv'
    BY <1>r, <2>3, <2>4 DEF IInv, BufferInv, copies
  <2>7. LockInv'
    BY <1>r, <2>1, <2>4 DEF IInv, LockInv, copies
  <2>8. TuneInv'
    BY <1>r, <2>1, <2>3, <2>4 DEF IInv, TuneInv, copies
  <2> QED BY <2>5, <2>6, <2>7, <2>8 DEF IInv
<1>1. CASE MainSwitch
  <2> DEFINE all == {<<>>, <<"ready">>, <<"check_faults">>,
                     <<"flywheel_check", "konami", "conditions">>}
  <2>b. PICK b \in DOMAIN Branches : todo' = [todo EXCEPT !["main"] = Branches[b]]
    BY <1>1 DEF MainSwitch
  <2>s. \A d \in DOMAIN Branches : Branches[d] \in all
    BY DEF Branches
  <2>1. PICK s \in all : todo' = [todo EXCEPT !["main"] = s]
    BY <2>b, <2>s
  <2>2. /\ <<>> \in Accesses /\ <<"ready">> \in Accesses
        /\ <<"check_faults">> \in Accesses
        /\ <<"flywheel_check", "konami", "conditions">> \in Accesses
    BY DEF Accesses, Names
  <2>3. Whole(s)
    BY DEF Whole, Halves
  <2>4. UNCHANGED <<conf, eeprom, arg, copies>>
    BY <1>1 DEF MainSwitch
  <2> QED BY <1>r, <2>1, <2>2, <2>3, <2>4
<1>2. CASE MainCheckFaults
  <2>1. todo["main"] # <<>> /\ Head(todo["main"]) \notin Special
    BY <1>2 DEF MainCheckFaults, Does, Special, Assigning, Fetching, Halves
  <2>2. \/ Then("main", <<"ready">>) \/ Then("main", <<"flywheel_off", "abort">>)
        \/ Then("main", <<>>)
    BY <1>2 DEF MainCheckFaults, Done
  <2>3. UNCHANGED <<conf, eeprom, arg, copies>>
    BY <1>2 DEF MainCheckFaults
  <2> QED BY <1>t, <2>1, <2>2, <2>3, QuietPreserves DEF copies
<1>3. CASE MainAbort
  <2>1. todo["main"] # <<>> /\ Head(todo["main"]) \notin Special
    BY <1>3 DEF MainAbort, Does, Special, Assigning, Fetching, Halves
  <2>2. Then("main", <<>>)
    BY <1>3 DEF MainAbort, Done
  <2>3. UNCHANGED <<conf, eeprom, arg, copies>>
    BY <1>3 DEF MainAbort
  <2> QED BY <1>t, <2>1, <2>2, <2>3, QuietPreserves DEF copies
<1>4. CASE MainFlywheelCheck
  <2>1. todo["main"] # <<>> /\ Head(todo["main"]) \notin Special
    BY <1>4 DEF MainFlywheelCheck, Does, Special, Assigning, Fetching, Halves
  <2>2. UNCHANGED <<conf, eeprom, arg, copies>>
    BY <1>4 DEF MainFlywheelCheck
  <2>3. todo' = [todo EXCEPT !["main"] = flywheel_stop] \/ Then("main", <<>>)
    BY <1>4 DEF MainFlywheelCheck, Done
  <2>4. flywheel_stop \in Accesses /\ Whole(flywheel_stop)
    BY DEF flywheel_stop, Accesses, Names, Whole, Halves
  <2>5. CASE Then("main", <<>>)
    BY <1>t, <2>1, <2>2, <2>5, QuietPreserves DEF copies
  <2> QED BY <1>r, <2>2, <2>3, <2>4, <2>5
<1>5. CASE MainKonami
  <2>1. todo["main"] # <<>> /\ Head(todo["main"]) = "konami"
    BY <1>5 DEF MainKonami, Does
  <2>2. CASE Then("main", <<>>) /\ arg' = arg
    <3>1. UNCHANGED <<conf, eeprom, copies>>
      BY <1>5 DEF MainKonami
    <3> QED BY <1>t, <2>1, <2>2, <3>1, QuietPreserves
              DEF copies, Special, Assigning, Fetching, Halves
  <2>3. CASE /\ Then("main", <<"flywheel_mode", "pitch_test">>)
             /\ arg' = [arg EXCEPT !["main"] = TRUE]
    <3>1. UNCHANGED <<conf, eeprom, copies>>
      BY <1>5 DEF MainKonami
    <3>2. /\ <<"flywheel_mode", "pitch_test">> \in Accesses
          /\ Whole(<<"flywheel_mode", "pitch_test">>)
      OBVIOUS
    <3>3. todo' = [todo EXCEPT !["main"] = <<"flywheel_mode", "pitch_test">> \o Tail(todo["main"])]
      BY <2>3 DEF Then
    <3>4. todo'["cmd"] = todo["cmd"] /\ TypeInv' /\ ~Does("main", "deserialize")'
      <4>1. /\ todo' \in [Threads -> Accesses] /\ \A u \in Threads : Started(todo'[u])
            /\ \A u \in Threads \ {"main"} : todo'[u] = todo[u]
            /\ ~Does("main", "deserialize")'
        BY <2>1, <2>3, <3>2, ThenWhole DEF IInv
      <4>2. arg' \in [Threads -> BOOLEAN]
        BY <2>3, <1>t
      <4> QED BY <3>1, <4>1, <4>2 DEF IInv, TypeInv, copies
    <3>5. \A a : Does("cmd", a)' <=> Does("cmd", a)
      BY <3>4 DEF Does
    <3>6. BufferInv'
      BY <3>1, <3>4, <3>5 DEF IInv, BufferInv, copies
    <3>7. LockInv'
      BY <3>1, <3>4, <3>5 DEF IInv, LockInv, copies
    <3>8. TuneInv'
      BY <3>1, <3>4, <3>5 DEF IInv, TuneInv, copies
    <3> QED BY <3>4, <3>6, <3>7, <3>8 DEF IInv
  <2> QED BY <1>5, <2>2, <2>3 DEF MainKonami, Done
<1>6. CASE MainConditions
  <2>1. todo["main"] # <<>> /\ Head(todo["main"]) \notin Special
    BY <1>6 DEF MainConditions, Does, Special, Assigning, Fetching, Halves
  <2>2. Then("main", <<>>) \/ Then("main", <<"engage">>)
    BY <1>6 DEF MainConditions, Done
  <2>3. UNCHANGED <<conf, eeprom, arg, copies>>
    BY <1>6 DEF MainConditions
  <2> QED BY <1>t, <2>1, <2>2, <2>3, QuietPreserves DEF copies
<1> QED BY <1>1, <1>2, <1>3, <1>4, <1>5, <1>6, SharedPreserves DEF Main

(* A command's assignments, which are to what it is going to write.        *)
LEMMA AssignPreserves ==
  ASSUME IInv, todo["cmd"] # <<>>, Head(todo["cmd"]) \in Assigning, Then("cmd", <<>>),
         conf' \in Configurations,
         \/ conf'.tuned = FALSE
         \/ conf'.tuned = conf.tuned /\ Head(todo["cmd"]) \notin Fetching,
         UNCHANGED <<eeprom, arg, copies>>
  PROVE  IInv'
<1>1. /\ todo' \in [Threads -> Accesses] /\ \A u \in Threads : Started(todo'[u])
      /\ todo'["main"] = todo["main"]
      /\ todo'["cmd"] = <<>> \o Tail(todo["cmd"])
      /\ ~Does("cmd", "deserialize")' /\ ~Does("cmd", "store_words")'
  BY ThenWhole, PlainSequences, TheThreads DEF IInv
<1>2. \A a : Does("main", a)' <=> Does("main", a)
  BY <1>1 DEF Does
<1>3. TypeInv'
  BY <1>1 DEF IInv, TypeInv, copies
<1>4. BufferInv'
  BY <1>1, <1>2 DEF IInv, BufferInv, copies
<1>5. /\ Stores(todo'["cmd"]) /\ Writes(todo'["cmd"])
      /\ Writes(todo'["cmd"]) <=> Writes(todo["cmd"])
      /\ Fetches(todo["cmd"]) /\ Head(todo["cmd"]) \notin Fetching => Fetches(todo'["cmd"])
      /\ NoTune(todo["cmd"]) => NoTune(todo'["cmd"])
  <2>1. Head(todo["cmd"]) # "write_cfg"
    BY DEF Assigning
  <2> QED BY <1>1, <2>1, CommandRest, PlainSequences, QuietSequences DEF IInv
<1>6. LockInv'
  BY <1>5 DEF LockInv
<1>7. TuneInv'
  BY <1>1, <1>2, <1>5 DEF IInv, TuneInv, copies
<1> QED BY <1>3, <1>4, <1>6, <1>7 DEF IInv

LEMMA WritePreserves ==
  ASSUME IInv, WriteCfg
  PROVE  IInv'
<1>1. /\ todo["cmd"] # <<>> /\ Head(todo["cmd"]) = "write_cfg"
      /\ Then("cmd", <<"store_words">>)
      /\ buffer' = [buffer EXCEPT !["cmd"] = conf]
      /\ overlapped' = Does("main", "deserialize")
      /\ UNCHANGED <<conf, eeprom, arg, crossed>>
  BY DEF WriteCfg, Does
<1>2. /\ todo' \in [Threads -> Accesses] /\ \A u \in Threads : Started(todo'[u])
      /\ todo'["main"] = todo["main"]
      /\ todo'["cmd"] = <<"store_words">> \o Tail(todo["cmd"])
      /\ \A a : Does("cmd", a)' <=> a = "store_words"
  BY <1>1, ThenHalf, TheThreads DEF IInv, Halves
<1>3. \A a : Does("main", a)' <=> Does("main", a)
  BY <1>2 DEF Does
<1>4. buffer'["cmd"] = conf /\ buffer'["main"] = buffer["main"] /\ overlapped' \in BOOLEAN
  BY <1>1, TheThreads DEF IInv, TypeInv, Does
<1>5. TypeInv'
  BY <1>1, <1>2, <1>4 DEF IInv, TypeInv
<1>6. BufferInv'
  BY <1>1, <1>2, <1>3, <1>4 DEF IInv, BufferInv
<1>7. todo["cmd"] \in Accesses /\ todo["cmd"][1] = "write_cfg" /\ 1 \in 1..Len(todo["cmd"])
  BY <1>1, TheThreads DEF IInv, TypeInv, Accesses
<1>8. Stores(todo'["cmd"])
  BY <1>1, <1>2, <1>7, StoresStays, HalfSequences DEF IInv, LockInv
<1>9. LockInv'
  BY <1>2, <1>8 DEF LockInv
<1>10. ASSUME ~crossed' PROVE TuneInv'
  <2>1. Writes(todo["cmd"]) /\ ~Fetches(todo["cmd"])
    BY <1>7 DEF Writes, Fetches
  <2>2. conf.tuned = FALSE /\ NoTune(todo["cmd"])
    BY <1>1, <1>10, <2>1 DEF IInv, TuneInv
  <2>3. NoTune(<<"store_words">>)
    BY DEF NoTune, Tuning
  <2>4. NoTune(todo'["cmd"])
    BY <1>1, <1>2, <1>7, <2>2, <2>3, NoTuneStays, HalfSequences
  <2> QED BY <1>1, <1>2, <1>3, <1>4, <1>10, <2>2, <2>4 DEF IInv, TuneInv
<1> QED BY <1>5, <1>6, <1>9, <1>10 DEF IInv, TuneInv

LEMMA StorePreserves ==
  ASSUME IInv, StoreWords
  PROVE  IInv'
<1>1. /\ todo["cmd"] # <<>> /\ Head(todo["cmd"]) = "store_words" /\ Then("cmd", <<>>)
      /\ Does("cmd", "store_words")
      /\ eeprom' = buffer["cmd"]
      /\ UNCHANGED <<conf, arg, copies>>
  BY DEF StoreWords, Does, Done
<1>2. /\ todo' \in [Threads -> Accesses] /\ \A u \in Threads : Started(todo'[u])
      /\ todo'["main"] = todo["main"]
      /\ todo'["cmd"] = <<>> \o Tail(todo["cmd"])
      /\ ~Does("cmd", "deserialize")' /\ ~Does("cmd", "store_words")'
  BY <1>1, ThenWhole, PlainSequences, TheThreads DEF IInv
<1>3. \A a : Does("main", a)' <=> Does("main", a)
  BY <1>2 DEF Does
<1>4. TypeInv'
  BY <1>1, <1>2, TheThreads DEF IInv, TypeInv, copies
<1>5. BufferInv'
  BY <1>1, <1>2, <1>3 DEF IInv, BufferInv, copies
<1>6. /\ Stores(todo'["cmd"]) /\ (Writes(todo'["cmd"]) <=> Writes(todo["cmd"]))
      /\ Fetches(todo["cmd"]) => Fetches(todo'["cmd"])
      /\ NoTune(todo["cmd"]) => NoTune(todo'["cmd"])
  <2>1. Head(todo["cmd"]) \notin Fetching
    BY <1>1 DEF Fetching
  <2> QED BY <1>1, <1>2, <2>1, CommandRest, PlainSequences, QuietSequences DEF IInv
<1>7. overlapped \/ eeprom'.disabled = conf.disabled
  BY <1>1 DEF IInv, BufferInv
<1>8. LockInv'
  BY <1>1, <1>6, <1>7 DEF LockInv, copies
<1>9. TuneInv'
  BY <1>1, <1>2, <1>3, <1>6 DEF IInv, TuneInv, copies
<1> QED BY <1>4, <1>5, <1>8, <1>9 DEF IInv

LEMMA CommandPreserves ==
  ASSUME IInv, CmdProceeds
  PROVE  IInv'
<1>t. conf \in Configurations /\ arg \in [Threads -> BOOLEAN]
  BY DEF IInv, TypeInv
<1>1. CASE Assign
  <2>1. todo["cmd"] # <<>> /\ Head(todo["cmd"]) = "assign" /\ Then("cmd", <<>>)
    BY <1>1 DEF Assign, Does, Done
  <2>2. conf' \in Configurations /\ conf'.tuned = conf.tuned
    BY <1>1, <1>t, TheThreads DEF Assign, Configurations
  <2>3. UNCHANGED <<eeprom, arg, copies>>
    BY <1>1 DEF Assign
  <2> QED BY <2>1, <2>2, <2>3, AssignPreserves DEF Assigning, Fetching
<1>2. CASE Receive
  <2>1. todo["cmd"] # <<>> /\ Head(todo["cmd"]) = "receive" /\ Then("cmd", <<>>)
    BY <1>2 DEF Receive, Does, Done
  <2>2. conf' \in Configurations /\ conf'.tuned = FALSE
    BY <1>2, <1>t, TheThreads DEF Receive, Config, Configurations
  <2>3. UNCHANGED <<eeprom, arg, copies>>
    BY <1>2 DEF Receive
  <2> QED BY <2>1, <2>2, <2>3, AssignPreserves DEF Assigning
<1>3. CASE NotRunning
  <2>1. todo["cmd"] # <<>> /\ Head(todo["cmd"]) = "not_running" /\ Then("cmd", <<>>)
    BY <1>3 DEF NotRunning, Does, Done
  <2>2. conf' \in Configurations /\ conf'.tuned = conf.tuned
    BY <1>3, <1>t DEF NotRunning, Configurations
  <2>3. UNCHANGED <<eeprom, arg, copies>>
    BY <1>3 DEF NotRunning
  <2> QED BY <2>1, <2>2, <2>3, AssignPreserves DEF Assigning, Fetching
<1> QED BY <1>1, <1>2, <1>3, TheThreads, WritePreserves, StorePreserves, SharedPreserves
        DEF CmdProceeds

(* The handlers that assign store at their end.                            *)
LEMMA CallPreserves ==
  ASSUME IInv, NEW s \in {<<"read_cfg", "assign", "set_disabled", "write_cfg">>,
                          <<"receive", "not_running", "write_cfg", "configure">>,
                          <<"flywheel_mode", "pitch_test">>,
                          <<"flywheel_off", "normal_mode", "read_cfg", "configure">>},
         NEW handler, NEW value \in BOOLEAN, Calls(handler, value, s)
  PROVE  IInv'
<1>1. /\ <<"read_cfg", "assign", "set_disabled", "write_cfg">> \in Accesses
      /\ <<"receive", "not_running", "write_cfg", "configure">> \in Accesses
      /\ <<"flywheel_mode", "pitch_test">> \in Accesses
      /\ <<"flywheel_off", "normal_mode", "read_cfg", "configure">> \in Accesses
  BY DEF Accesses, Names
<1>2. Stores(s)
  <2>1. SUFFICES ASSUME NEW i \in 1..Len(s), s[i] \in Assigning
                 PROVE  \E j \in 1..Len(s) : j > i /\ s[j] = "write_cfg"
    BY DEF Stores
  <2>2. CASE s = <<"read_cfg", "assign", "set_disabled", "write_cfg">>
    <3>1. 4 \in 1..Len(s) /\ s[4] = "write_cfg" /\ i < 4
      BY <2>1, <2>2 DEF Assigning
    <3> QED BY <3>1
  <2>3. CASE s = <<"receive", "not_running", "write_cfg", "configure">>
    <3>1. 3 \in 1..Len(s) /\ s[3] = "write_cfg" /\ i < 3
      BY <2>1, <2>3 DEF Assigning
    <3> QED BY <3>1
  <2>4. CASE s \in {<<"flywheel_mode", "pitch_test">>,
                    <<"flywheel_off", "normal_mode", "read_cfg", "configure">>}
    BY <2>1, <2>4 DEF Assigning
  <2> QED BY <2>2, <2>3, <2>4
<1>3. todo["cmd"] = <<>> /\ todo' = [todo EXCEPT !["cmd"] = s]
  BY DEF Calls
<1>4. todo'["cmd"] = s
  BY <1>3, TheThreads DEF IInv, TypeInv
<1>5. /\ conf' = conf /\ eeprom' = eeprom /\ UNCHANGED copies
      /\ arg' \in [Threads -> BOOLEAN]
  BY TheThreads DEF Calls, IInv, TypeInv
<1>6. Whole(s) /\ Started(s) /\ s # <<>>
  BY DEF Whole, Started, Halves
<1>7. /\ todo'["main"] = todo["main"] /\ \A a : Does("main", a)' <=> Does("main", a)
      /\ ~Does("cmd", "deserialize")' /\ ~Does("cmd", "store_words")'
  <2>1. todo'["main"] = todo["main"]
    BY <1>3, TheThreads DEF IInv, TypeInv
  <2> QED BY <1>1, <1>4, <1>6, <2>1, NotHalf DEF Does, Halves
<1>8. TypeInv' /\ BufferInv' /\ LockInv'
  <2>1. TypeInv'
    BY <1>1, <1>3, <1>4, <1>5, <1>6, <1>7 DEF IInv, TypeInv, copies, Threads
  <2>2. BufferInv'
    BY <1>5, <1>7 DEF IInv, BufferInv, copies
  <2>3. overlapped \/ conf.disabled = eeprom.disabled
    BY <1>3 DEF IInv, LockInv, Writes, Does
  <2>4. LockInv'
    BY <1>2, <1>4, <1>5, <2>3 DEF LockInv, copies
  <2> QED BY <2>1, <2>2, <2>4
<1>9. Fetches(s)
  <2>1. SUFFICES ASSUME NEW i \in 1..Len(s), s[i] = "write_cfg"
                 PROVE  \E j \in 1..Len(s) : j < i /\ s[j] \in Fetching
    BY DEF Fetches
  <2>2. 1 \in 1..Len(s) /\ s[1] \in Fetching /\ 1 < i
    BY <2>1 DEF Fetching
  <2> QED BY <2>2
<1>10. Writes(s) => NoTune(s)
  <2>1. CASE s = <<"flywheel_mode", "pitch_test">>
    BY <2>1 DEF Writes
  <2>2. CASE s # <<"flywheel_mode", "pitch_test">>
    BY <2>2 DEF NoTune, Tuning
  <2> QED BY <2>1, <2>2
<1>11. TuneInv'
  BY <1>4, <1>5, <1>7, <1>9, <1>10 DEF IInv, TuneInv, copies
<1> QED BY <1>8, <1>11 DEF IInv

LEMMA CalledPreserves ==
  ASSUME IInv, CmdCalled
  PROVE  IInv'
<1>1. ASSUME NEW b \in BOOLEAN, CallLock(b) PROVE IInv'
  BY <1>1, CallPreserves DEF CallLock
<1>2. ASSUME NEW b \in BOOLEAN, CallSetCfg(b) PROVE IInv'
  BY <1>2, CallPreserves DEF CallSetCfg
<1>3. ASSUME NEW on \in BOOLEAN, NEW capture \in BOOLEAN, CallFlywheel(on, capture)
      PROVE  IInv'
  <2>1. <<"flywheel_off">> \o flywheel_stop
          = <<"flywheel_off", "normal_mode", "read_cfg", "configure">>
  <3> DEFINE s == <<"flywheel_off">> \o flywheel_stop
  <3>1. <<"flywheel_off">> \in Accesses /\ flywheel_stop \in Accesses
    BY DEF flywheel_stop, Accesses, Names
  <3>2. s \in Accesses /\ Len(s) = 4
    BY <3>1 DEF flywheel_stop, Accesses
  <3>3. s[1] = "flywheel_off" /\ s[2] = "normal_mode" /\ s[3] = "read_cfg"
        /\ s[4] = "configure"
    BY <3>1 DEF flywheel_stop, Accesses
  <3> HIDE DEF s
  <3>4. s = <<s[1], s[2], s[3], s[4]>>
    BY <3>2 DEF Accesses
  <3> QED BY <3>3, <3>4 DEF s
  <2> QED BY <1>3, <2>1, CallPreserves DEF CallFlywheel
<1> QED BY <1>1, <1>2, <1>3 DEF CmdCalled

LEMMA ImuPreserves ==
  ASSUME IInv, UNCHANGED <<conf, eeprom, todo, arg, copies>>
  PROVE  IInv'
<1>1. \A t, a : Does(t, a)' <=> Does(t, a)
  BY DEF Does
<1> QED BY <1>1 DEF IInv, TypeInv, BufferInv, LockInv, TuneInv, copies

LEMMA Invariant == Spec => []IInv
<1>1. Init => IInv
  <2> SUFFICES ASSUME Init PROVE IInv
    OBVIOUS
  <2>1. todo \in [Threads -> Accesses] /\ \A t \in Threads : todo[t] = <<>>
    BY DEF Init, Accesses
  <2>2. Stores(todo["cmd"]) /\ NoTune(todo["cmd"]) /\ \A t \in Threads : Started(todo[t])
    BY <2>1, TheThreads DEF Stores, NoTune, Started
  <2>3. conf = [disabled |-> FALSE, tuned |-> FALSE] /\ eeprom = conf
    BY DEF Init, Config
  <2>4. conf \in Configurations /\ eeprom \in Configurations
    BY <2>3 DEF Configurations
  <2>5. TypeInv
    BY <2>1, <2>2, <2>3, <2>4 DEF TypeInv, Init, Config
  <2>6. \A t \in Threads : \A a : ~Does(t, a)
    BY <2>1 DEF Does
  <2>7. BufferInv
    BY <2>6, TheThreads DEF BufferInv
  <2>8. TuneInv
    BY <2>2, <2>3, <2>6, TheThreads DEF TuneInv
  <2> QED BY <2>2, <2>3, <2>5, <2>7, <2>8 DEF IInv, LockInv
<1>2. IInv /\ [Next]_vars => IInv'
  <2> SUFFICES ASSUME IInv, [Next]_vars PROVE IInv'
    OBVIOUS
  <2>1. CASE UNCHANGED vars
    BY <2>1, ImuPreserves DEF vars
  <2>2. CASE Imu
    BY <2>2, ImuPreserves DEF Imu
  <2> QED BY <2>1, <2>2, MainPreserves, CommandPreserves, CalledPreserves DEF Next
<1> QED BY <1>1, <1>2, PTL DEF Spec

(* Between commands the lock in use is the stored one, whatever            *)
(* flywheel_stop and the konami sequence of the main thread do in the      *)
(* middle of cmd_lock and set_cfg, unless flywheel_stop is between the two *)
(* halves of its read while the command is between those of its write.     *)
THEOREM LockIsStored == Spec => []LockStored
<1>1. IInv => LockStored
  BY DEF IInv, LockInv, LockStored, Writes, Does
<1> QED BY <1>1, Invariant, PTL

(* cmd_lock reads the stored configuration and set_cfg a received one      *)
(* before they write theirs, so that the flywheel tune is stored by no     *)
(* command unless the main thread tunes while one is under way.            *)
THEOREM TuneIsNotStored == Spec => []TempTuneNotStored
<1>1. IInv => TempTuneNotStored
  BY DEF IInv, TypeInv, Configurations, TuneInv, TempTuneNotStored
<1> QED BY <1>1, Invariant, PTL
=============================================================================
