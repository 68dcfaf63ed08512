------------------------------ MODULE Eviction ------------------------------
(***************************************************************************)
(* Eviction, cpp_src/db.cpp: set_value first frees memory when more than   *)
(* maxmemory is in use, in rounds that sample keys into a pool ordered by  *)
(* idle time and then delete what the pool holds.  It is off by default,   *)
(* and nothing in the repository calls set_lru: here it is on.             *)
(*                                                                         *)
(* A round is several steps here, but no command runs in between.  The     *)
(* memory of a key and its value is one unit.                              *)
(***************************************************************************)
EXTENDS Integers, FiniteSets, Sequences, FiniteSetsExt, SequencesExt

CONSTANTS Key,
          PoolSize,     \* ELIMINATE_POOL_SIZE
          maxmemory,
          Resolution,   \* LRU_CLOCK_RESOLUTION, the milliseconds of a second
          ClockMax,     \* LRU_CLOCK_MAX
          UnsignedMax,  \* the largest unsigned int
          MaxTime,      \* bound on the clock
          OtherSizes    \* what memory that is not of stored keys may measure

ASSUME SizeAssumption ==
  IsFiniteSet(Key) /\ PoolSize \in Nat \ {0} /\ maxmemory \in Nat /\ OtherSizes \subseteq Nat
ASSUME ClockAssumption ==
  Resolution \in Nat \ {0} /\ ClockMax \in Nat /\ UnsignedMax \in Nat /\ ClockMax <= UnsignedMax
ASSUME BoundAssumption == MaxTime \in Nat

VARIABLES val,        \* the keys of the database; of each the stamp lru of its object,
                      \* and as history the second it was made in or that it was looked up since
          deadlines,  \* the keys in expires
          spare,      \* the keys with a reference that nothing will drop
          expiresHasTable,
          other,      \* memory in use that eviction cannot free
          pool,       \* eliminatepool: the entries up to the first without a key
          job,        \* the set_value that runs, and the locals of lru_eliminated
          now,        \* timeInMilliseconds()
          undefined   \* freed memory has been used

vars == <<val, deadlines, spare, expiresHasTable, other, pool, job, now, undefined>>

Stored    == DOMAIN val
Used      == Cardinality(Stored) + other
Unlinked(f, k) == [x \in DOMAIN f \ {k} |-> f[x]]

Second      == now \div Resolution
getLRUClock == Second % (ClockMax + 1)

(* A stamp is in seconds when the object is made and in milliseconds, cut  *)
(* to an unsigned int, after every lookup; the idle time takes it for      *)
(* seconds.                                                                *)
LookedUp == -1
Stamp_Whole == now   \* mutant: the stamp is wider
Stamp == now % (UnsignedMax + 1)
Lookup(k) == [val EXCEPT ![k] = [lru |-> Stamp, born |-> LookedUp]]

estimateObjectIdleTime_Stamp(k) == val[k].lru * Resolution   \* mutant: the clock is left out
estimateObjectIdleTime(k) ==
  IF getLRUClock >= val[k].lru
  THEN (getLRUClock - val[k].lru) * Resolution
  ELSE (getLRUClock + ((ClockMax - val[k].lru) % (UnsignedMax + 1))) * Resolution

-----------------------------------------------------------------------------
(* The pool: idle times ascend.  A full pool drops its least idle entry,   *)
(* or the new one when that is less idle than all.                         *)

Place(p, idle) == Cardinality({i \in DOMAIN p : \A j \in 1 .. i : p[j].idle < idle})

Pooled_Unordered(p, k) == Append(p, [key |-> k, idle |-> estimateObjectIdleTime(k)])   \* mutant
Pooled(p, k) ==
  LET e     == [key |-> k, idle |-> estimateObjectIdleTime(k)]
      place == Place(p, e.idle)
  IN  IF place = 0 /\ Len(p) = PoolSize THEN p
      ELSE IF Len(p) < PoolSize THEN InsertAt(p, place + 1, e)
      ELSE SubSeq(p, 2, place) \o <<e>> \o SubSeq(p, place + 1, PoolSize)

(* The pool when the keys of s have been put in, one after the other.      *)
Filled(s) ==
  LET filled[i \in 0 .. Len(s)] == IF i = 0 THEN pool ELSE Pooled(filled[i - 1], s[i])
  IN  filled[Len(s)]

(* What dictGetRandomKeys can return: the entries of successive buckets,   *)
(* each once.                                                              *)
SampleSize == Min({PoolSize, Cardinality(Stored)})
Samples    == UNION {SetToSeqs(S) : S \in kSubset(SampleSize, Stored)}

-----------------------------------------------------------------------------
(* Commands. *)

Idle == [step |-> "serve", tofree |-> 0, freed |-> 0, before |-> 0]

Init ==
  /\ val = [k \in {} |-> 0] /\ deadlines = {} /\ spare = {} /\ expiresHasTable = FALSE
  /\ other = 0 /\ pool = << >> /\ job = Idle /\ now = 0 /\ undefined = FALSE

Serving == ~undefined /\ job.step = "serve" /\ UNCHANGED <<pool, undefined>>

(* set_value, up to the first test of its loop.  The key to be set plays   *)
(* no part until it is stored.                                             *)
SetValue ==
  /\ Serving
  /\ job' = [step |-> IF maxmemory > Used THEN "store" ELSE "sample",
             tofree |-> IF maxmemory > Used THEN 0 ELSE Used - maxmemory,
             freed |-> 0, before |-> Cardinality(Stored)]
  /\ UNCHANGED <<val, deadlines, spare, expiresHasTable, other, now>>

(* The rest of it: a new key gets a new object, and an old one keeps its   *)
(* own and loses its deadline.                                             *)
Store(k) ==
  /\ ~undefined /\ job.step = "store"
  /\ val' = [x \in Stored \cup {k} |->
               IF x \in Stored THEN val[x] ELSE [lru |-> getLRUClock, born |-> Second]]
  /\ deadlines' = deadlines \ {k}
  /\ job' = Idle
  /\ UNCHANGED <<spare, expiresHasTable, other, pool, now, undefined>>

GetValue(k) ==
  /\ Serving /\ k \in Stored
  /\ val' = Lookup(k)
  /\ UNCHANGED <<deadlines, spare, expiresHasTable, other, job, now>>

(* Every set_expires takes a reference, the dictionary keeps only one.     *)
SetExpires(k) ==
  /\ Serving /\ k \in Stored
  /\ val' = Lookup(k)
  /\ spare' = IF k \in deadlines THEN spare \cup {k} ELSE spare
  /\ deadlines' = deadlines \cup {k}
  /\ expiresHasTable' = TRUE
  /\ UNCHANGED <<other, job, now>>

DeleteKey(k) ==
  /\ Serving /\ k \in Stored
  /\ val' = Unlinked(val, k)
  /\ deadlines' = deadlines \ {k}
  /\ spare' = spare \ {k}
  /\ UNCHANGED <<expiresHasTable, other, job, now>>

(* Clients' buffers, tables, and the objects strlen and others leak.       *)
OtherMemory ==
  /\ Serving
  /\ other' \in OtherSizes
  /\ UNCHANGED <<val, deadlines, spare, expiresHasTable, job, now>>

Tick == Serving /\ now < MaxTime /\ now' = now + 1
        /\ UNCHANGED <<val, deadlines, spare, expiresHasTable, other, job>>

-----------------------------------------------------------------------------
(* lru_eliminated. *)

Looping == ~undefined /\ UNCHANGED <<other, now>>

update_eliminatepool ==
  /\ Looping /\ job.step = "sample" /\ job.freed < job.tofree
  /\ \E s \in Samples : pool' = Filled(s)
  /\ job' = [job EXCEPT !.step = "drain"]
  /\ UNCHANGED <<val, deadlines, spare, expiresHasTable, undefined>>

FreedEnough ==
  /\ Looping /\ job.step = "sample" /\ job.freed >= job.tofree
  /\ job' = [job EXCEPT !.step = "store"]
  /\ UNCHANGED <<val, deadlines, spare, expiresHasTable, pool, undefined>>

(* delete_key is handed the key object of the entry it deletes: without a  *)
(* deadline that was the last reference, and expires is searched with it,  *)
(* if it has a table.                                                      *)
UsesFreedKey(k) == k \notin deadlines \cup spare /\ expiresHasTable

Deadlines_Kept(k) == deadlines   \* mutant: expires is not searched
DeadlinesWithout(k) == deadlines \ {k}

Counted_NotAdded(freed) == 1   \* mutant: freed = delta instead of +=
Counted_Twice(freed) == freed + 2   \* mutant: the key counted besides the entry
Counted(freed) == freed + 1

Evict ==
  /\ Looping /\ job.step = "drain" /\ pool # << >>
  /\ LET k == Last(pool).key
     IN  /\ val' = Unlinked(val, k)
         /\ deadlines' = DeadlinesWithout(k)
         /\ spare' = spare \ {k}
         /\ undefined' = UsesFreedKey(k)
         /\ job' = [job EXCEPT !.freed = Counted(@)]
  /\ pool' = Front(pool)
  /\ UNCHANGED expiresHasTable

Drained == pool = << >>
RoundEnds ==
  /\ Looping /\ job.step = "drain" /\ Drained
  /\ job' = [job EXCEPT !.step = "sample"]
  /\ UNCHANGED <<val, deadlines, spare, expiresHasTable, pool, undefined>>

Running == update_eliminatepool \/ FreedEnough \/ Evict \/ RoundEnds \/ \E k \in Key : Store(k)

Next ==
  \/ \E k \in Key : GetValue(k) \/ SetExpires(k) \/ DeleteKey(k)
  \/ SetValue
  \/ OtherMemory
  \/ Tick
  \/ Running

(* A command that has begun runs. *)
Spec == Init /\ [][Next]_vars /\ WF_vars(Running)

-----------------------------------------------------------------------------
(* Properties. *)

TypeOK ==
  /\ Stored \subseteq Key
  /\ \A k \in Stored : /\ val[k].lru \in 0 .. UnsignedMax
                       /\ val[k].born \in {LookedUp} \cup 0 .. Second
  /\ deadlines \subseteq Key /\ spare \subseteq Key /\ expiresHasTable \in BOOLEAN
  /\ Len(pool) <= PoolSize
  /\ job.step \in {"serve", "store", "sample", "drain"}
  /\ job.freed \in 0 .. Cardinality(Key) /\ undefined \in BOOLEAN

(* The pool holds keys that are stored, each once and by ascending idle    *)
(* time: drained from its end, no key it points to has been freed by an    *)
(* earlier deletion.  Between two commands it is empty, so that a key      *)
(* deleted by a client is never looked up.                                 *)
PoolSound ==
  ~undefined =>
    /\ \A i \in DOMAIN pool : /\ pool[i].key \in Stored
                              /\ pool[i].idle = estimateObjectIdleTime(pool[i].key)
    /\ \A i, j \in DOMAIN pool : i < j => pool[i].key # pool[j].key /\ pool[i].idle <= pool[j].idle
    /\ job.step # "drain" => pool = << >>

(* Keys that were not looked up since they were made, less than a turn of *)
(* the clock ago, go by age.  A key made before the clock wrapped seems a  *)
(* second younger than it is: LRU_CLOCK_MAX is the last second, not their  *)
(* number.  A looked-up key, whose stamp is in milliseconds, goes anywhere.*)
Turn(second) == second \div (ClockMax + 1)
ByAge(k)     == k \in Stored /\ val[k].born # LookedUp /\ Second - val[k].born <= ClockMax
Seeming(k)   == val[k].born + (Turn(Second) - Turn(val[k].born))
OldestGoesFirst ==
  \A i, j \in DOMAIN pool :
    LET k == pool[i].key
        l == pool[j].key
    IN  i < j /\ ByAge(k) /\ ByAge(l) => Seeming(k) >= Seeming(l)

(* An eviction that ends has freed what it had to, and more: the pool is   *)
(* drained even when enough has been freed, so whole samples go.  A        *)
(* database of no more than ELIMINATE_POOL_SIZE keys loses all of them,    *)
(* however little is to be freed.                                          *)
EnoughIsFreed ==
  job.step = "store" /\ job.tofree > 0 =>
    /\ Used <= maxmemory
    /\ Stored = {} \/ (job.before - Cardinality(Stored)) % PoolSize = 0

(* An evicted key takes its deadline with it.  The key object that the     *)
(* eviction has freed is used again for that only when expires has a       *)
(* table, that is when some key once had a deadline.                       *)
DeadlinesFollowKeys ==
  IF undefined THEN expiresHasTable ELSE deadlines \subseteq Stored

(* lru_eliminated returns, if the keys are enough to free: its loop goes   *)
(* on for ever over an empty database.                                     *)
EvictionEnds == job.step = "sample" /\ other <= maxmemory ~> job.step = "serve" \/ undefined
=============================================================================
