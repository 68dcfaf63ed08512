--------------------------------- MODULE Db ---------------------------------
(***************************************************************************)
(* The keyspace: cpp_src/db.cpp under the commands of cpp_src/pydis.cpp.   *)
(* Two dictionaries, val and expires, hold pointers to reference-counted   *)
(* objects; a key that has expired stays in both until a command finds it. *)
(*                                                                         *)
(* Commands run to completion one at a time, so each one is one action.    *)
(* What a container holds, and the layout of a dictionary, are the concern *)
(* of other modules: here a dictionary is a function on key names.         *)
(***************************************************************************)
EXTENDS Integers, FiniteSets, Functions

CONSTANTS Name,        \* the keys clients use
          Text,        \* the strings clients store
          SharedText,  \* the texts "1" .. "9999": each has one object, in shared.integers
          SharedObject,\* where: a function from SharedText to ValueObject
          Stored,      \* what set_value keeps of a text: atoi of it when that is 1 .. 9999
          Container,   \* the types of containers: "list", "set", "hash", "zset"
          KeyObject,   \* bound: the objects that hold a key
          ValueObject, \* bound: the objects that hold a value
          MaxTime,     \* bound on the clock
          Deadline,    \* the deadlines expire is given
          MaxLeak      \* bound: references lost

Object  == KeyObject \cup ValueObject
Content == Text \cup Container \cup {"freed"}

ASSUME NameAssumption   == IsFiniteSet(Name)
ASSUME TextAssumption   == /\ SharedText \subseteq Text /\ Stored \in [Text -> Text]
                           /\ "set" \in Container /\ "freed" \notin Text \cup Container
                           /\ Text \cap Container = {}
ASSUME TimeAssumption   == MaxTime \in Nat /\ Deadline \subseteq Nat
ASSUME ObjectAssumption == KeyObject \cap ValueObject = {}
ASSUME SharedAssumption ==
  /\ SharedObject \in [SharedText -> ValueObject]
  /\ \A s, t \in SharedText : SharedObject[s] = SharedObject[t] => s = t

VARIABLES db,         \* the two dictionaries and the objects
          emptied,    \* the sets that srem and spop have left without elements
          none,       \* the text of shared.none: "kept", or "freed"
          now,        \* timeInMilliseconds()
          reply,      \* the last reply
          undefined   \* freed memory has been used: nothing is known any more

vars == <<db, emptied, none, now, reply, undefined>>

SharedObjects == {SharedObject[t] : t \in SharedText}

(* The last reply: a message, "value" for what get, getset and type        *)
(* answer, "one" and "zero" for a yes and a no, "number" for a count; or   *)
(* "crash".                                                                *)
Replies == {"ok", "err", "none", "notexist", "typerr", "exist", "unerr",
            "value", "one", "zero", "number", "crash"}

-----------------------------------------------------------------------------
(* Objects and their reference counts (object.cpp). *)

NewKey(s)   == CHOOSE o \in KeyObject : s.ref[o] = 0
NewValue(s) == CHOOSE o \in ValueObject : s.ref[o] = 0

CreateKey(s, o)      == [s EXCEPT !.ref[o] = 1]
CreateValue(s, o, x) == [s EXCEPT !.ref[o] = 1, !.what[o] = x]

incrRefCount(s, o) == [s EXCEPT !.ref[o] = @ + 1]

decrRefCount(s, o) ==
  IF s.ref[o] = 1 /\ o \in ValueObject
  THEN [s EXCEPT !.ref[o] = 0, !.what[o] = "freed"]
  ELSE [s EXCEPT !.ref[o] = @ - 1]

-----------------------------------------------------------------------------
(* The two dictionaries.  Deleting a dictEntry releases its key and value. *)

Without(f, k) == [x \in DOMAIN f \ {k} |-> f[x]]
With(f, k, y) == [x \in DOMAIN f \cup {k} |-> IF x = k THEN y ELSE f[x]]

(* Mutant: the delete of the value in dictGenericDelete is not commented   *)
(* out, and ~dictEntry releases it again.                                  *)
DeleteValue_Twice(s, k) ==
  IF k \notin DOMAIN s.val THEN s
  ELSE LET v == s.val[k].v
       IN  [decrRefCount(decrRefCount(decrRefCount(s, s.val[k].key), v), v)
              EXCEPT !.val = Without(@, k)]

DeleteValue(s, k) ==
  IF k \notin DOMAIN s.val THEN s
  ELSE [decrRefCount(decrRefCount(s, s.val[k].key), s.val[k].v)
          EXCEPT !.val = Without(@, k)]

remove_expires(s, k) ==
  IF k \notin DOMAIN s.expires THEN s
  ELSE [decrRefCount(s, s.expires[k].key) EXCEPT !.expires = Without(@, k)]

Expired(s, k) == k \in DOMAIN s.expires /\ now >= s.expires[k].when

check_expires_Always(s, k) ==   \* mutant: whether the deadline has passed is not asked
  IF k \in DOMAIN s.expires THEN DeleteValue(remove_expires(s, k), k) ELSE s

check_expires(s, k) ==
  IF Expired(s, k) THEN DeleteValue(remove_expires(s, k), k) ELSE s

delete_key_ValueOnly(s, k) == DeleteValue(s, k)   \* mutant: the deadline stays

delete_key(s, k) ==
  IF k \in DOMAIN s.val THEN remove_expires(DeleteValue(s, k), k) ELSE s

(* get_value, get_type and exists: first check_expires, then the lookup.   *)
Visible(s, k)   == k \in DOMAIN s.val /\ ~Expired(s, k)
get_value(s, k) == s.what[s.val[k].v]

(* The object set_value stores: a shared integer, or a new object.         *)
Obtain_NotCounted(s, x) ==   \* mutant: no incrRefCount of a shared integer
  IF x \in SharedText THEN s ELSE CreateValue(s, NewValue(s), x)
Obtain(s, x) ==
  IF x \in SharedText THEN incrRefCount(s, SharedObject[x]) ELSE CreateValue(s, NewValue(s), x)
Obtained(s, x) == IF x \in SharedText THEN SharedObject[x] ELSE NewValue(s)

(* set_value on a key that is absent, or there and not expired: the value  *)
(* is replaced and the deadline dropped.  key is the caller's key object.  *)
set_value(s, k, key, x) ==
  LET bare  == IF k \in DOMAIN s.val THEN remove_expires(s, k) ELSE s
      value == Obtained(bare, x)
      held  == Obtain(bare, x)
  IN  IF k \in DOMAIN s.val
      THEN [decrRefCount(held, s.val[k].v) EXCEPT !.val[k].v = value]
      ELSE [incrRefCount(held, key) EXCEPT !.val = With(@, k, [key |-> key, v |-> value])]

(* The same between the creation and the release of the key object.        *)
SetValue_KeyKept(s, k, x) ==   \* mutant: no decrRefCount(temp_str1)
  LET key == NewKey(s) IN set_value(CreateKey(s, key), k, key, x)
SetValue(s, k, x) ==
  LET key == NewKey(s)
  IN  decrRefCount(set_value(CreateKey(s, key), k, key, x), key)

-----------------------------------------------------------------------------
(* What the counts should be. *)

Pointers(s, o) ==
  Cardinality({k \in DOMAIN s.val : s.val[k].key = o})
  + Cardinality({k \in DOMAIN s.val : s.val[k].v = o})
  + Cardinality({k \in DOMAIN s.expires : s.expires[k].key = o})
  + IF o \in SharedObjects THEN 1 ELSE 0

(* The references nothing accounts for any more, of each object and in all. *)
Lost(s)   == [o \in Object |-> s.ref[o] - Pointers(s, o)]
Leaked(s) == SumFunction(Lost(s))

-----------------------------------------------------------------------------
(* The commands. *)

Init ==
  /\ db = [val     |-> [k \in {} |-> 0],
           expires |-> [k \in {} |-> 0],
           ref     |-> [o \in Object |-> IF o \in SharedObjects THEN 1 ELSE 0],
           what    |-> [o \in ValueObject |-> IF o \in SharedObjects
                                              THEN CHOOSE t \in SharedText : SharedObject[t] = o
                                              ELSE "freed"]]
  /\ emptied = {}
  /\ none = "kept"
  /\ now = 0
  /\ reply = "one"
  /\ undefined = FALSE

(* The keyspace of a command that leaves s: a set that was freed is not an *)
(* emptied one any more.                                                   *)
Becomes(s) == db' = s /\ emptied' = {o \in emptied : s.what[o] = "set"}

(* A command that uses no freed memory and frees no text of shared.none.   *)
Defined == ~undefined /\ UNCHANGED <<none, now, undefined>>

(* A command that answers one of codes.  The answer "none" is read from    *)
(* the text of shared.none.                                                *)
Answers(codes) ==
  \E c \in codes :
    IF c = "none" /\ none = "freed"
    THEN reply' \in {"none", "crash"} /\ undefined' = TRUE
    ELSE reply' = c /\ UNCHANGED undefined

(* db.cpp:53-54, 78-80: on a key that has expired, check_expires deletes   *)
(* the entry that dictFind returned, and set_value goes on to write it.    *)
py_set(k, t) ==
  \/ /\ Defined
     /\ ~(k \in DOMAIN db.val /\ Expired(db, k))
     /\ Becomes(SetValue(db, k, Stored[t]))
     /\ reply' = "one"
  \/ /\ ~undefined
     /\ k \in DOMAIN db.val /\ Expired(db, k)
     /\ Becomes(check_expires(db, k))
     /\ reply' \in {"one", "crash"}
     /\ undefined' = TRUE
     /\ UNCHANGED <<none, now>>

(* The lookup of every reading command; a hit also refreshes lru.          *)
Lookup(k) == ~undefined /\ UNCHANGED now /\ Becomes(check_expires(db, k))

(* The value of k, as get and getset answer it: they delete the text that  *)
(* a container makes of itself.  That of an emptied set is the text of     *)
(* shared.none (SetObject.cpp:22).                                         *)
AnswersValue(k) ==
  IF db.val[k].v \in emptied
  THEN Answers({"none"}) /\ none' = "freed"
  ELSE reply' = "value" /\ UNCHANGED <<none, undefined>>

py_get(k) ==
  /\ Lookup(k)
  /\ IF Visible(db, k) THEN AnswersValue(k) ELSE Answers({"none"}) /\ UNCHANGED none

py_exists(k) ==
  /\ Lookup(k) /\ UNCHANGED none
  /\ Answers(IF Visible(db, k) THEN {"one"} ELSE {"zero"})

py_type(k) ==
  /\ Lookup(k) /\ UNCHANGED none
  /\ Answers(IF Visible(db, k) THEN {"value"} ELSE {"notexist"})

(* A command that changes nothing here: its answer when there is no such   *)
(* key, when the value is of another type, and its answers otherwise.      *)
Access(k, types, absent, wrong, found) ==
  /\ Lookup(k) /\ UNCHANGED none
  /\ Answers(IF ~Visible(db, k) THEN {absent}
             ELSE IF get_value(db, k) \in types THEN found ELSE {wrong})

py_getrange(k) == Access(k, Text, "none", "typerr", {"ok"})

(* scard, hlen, llen, zcard, zcount, zrem, hexists, lrem: the answer is a  *)
(* number, also when there is no such container.                           *)
Count(k) == Lookup(k) /\ UNCHANGED none /\ Answers({"number"})

(* hget, hdel, lpop, rpop, lindex, lrange, lset, zrank, zrangebyscore and  *)
(* zscore: an element, "ok", or "none" when there is no such element.  A   *)
(* container that is emptied stays in val.                                 *)
Element(k, type) == Access(k, {type}, "notexist", "typerr", {"ok", "none"})

(* hkeys, hvals.                                                           *)
Walk(k) == Access(k, {"hash"}, "none", "none", {"ok"})

(* srem and spop take an element out of a set, and it may be the last one. *)
IsEmpty(k) == Visible(db, k) /\ db.val[k].v \in emptied
Takes(k) ==
  /\ Defined
  /\ Visible(db, k) /\ get_value(db, k) = "set" /\ ~IsEmpty(k)
  /\ UNCHANGED db
  /\ emptied' \in {emptied, emptied \cup {db.val[k].v}}
  /\ reply' = "ok"

py_srem(k) == Takes(k) \/ Access(k, {"set"}, "notexist", "typerr", {"notexist"})
py_spop(k) ==
  \/ Takes(k)
  \/ Access(k, {"set"}, "notexist", "typerr", {IF IsEmpty(k) THEN "none" ELSE "unerr"})

(* strlen gives the key object it created back on a type error only.       *)
py_strlen(k) ==
  LET s == check_expires(db, k)
      typerr == Visible(db, k) /\ get_value(db, k) \notin Text
  IN  /\ Defined
      /\ \/ typerr /\ Becomes(s) /\ reply' = "typerr"
         \/ /\ ~typerr
            /\ Leaked(db) < MaxLeak
            /\ Becomes(CreateKey(s, NewKey(s)))
            /\ reply' = "number"

py_del(k) ==
  /\ Defined
  /\ Becomes(delete_key(db, k))
  /\ reply' = IF k \in DOMAIN db.val THEN "one" ELSE "zero"

(* The value object moves to an entry of the new key, without a deadline.  *)
(* When the two names are one, delete_key drops the value it is to move:   *)
(* an object nothing else refers to has been freed.                        *)
Rename(s, k, l) ==
  LET v     == s.val[k].v
      clear == delete_key(s, l)
      key   == NewKey(clear)
      named == [CreateKey(clear, key) EXCEPT !.val = With(@, l, [key |-> key, v |-> v])]
  IN  delete_key(incrRefCount(named, v), k)

py_rename(k, l) ==
  \/ /\ Defined
     /\ ~Visible(db, k)
     /\ Becomes(check_expires(db, k))
     /\ reply' = "err"
  \/ /\ Defined
     /\ Visible(db, k)
     /\ k # l \/ db.ref[db.val[k].v] > 1
     /\ Becomes(Rename(db, k, l))
     /\ reply' = "ok"
  \/ /\ ~undefined
     /\ Visible(db, k)
     /\ k = l /\ db.ref[db.val[k].v] = 1
     /\ Becomes(delete_key(db, k))
     /\ reply' \in {"ok", "crash"}
     /\ undefined' = TRUE
     /\ UNCHANGED <<none, now>>

(* The new object takes the place of the old one as it is, whether or not  *)
(* the key has expired; its deadline stays.                                *)
py_getset(k, t) ==
  LET v == NewValue(db)
  IN  /\ ~undefined /\ UNCHANGED now
      /\ \/ /\ k \in DOMAIN db.val
            /\ Becomes([decrRefCount(CreateValue(db, v, t), db.val[k].v) EXCEPT !.val[k].v = v])
            /\ AnswersValue(k)
         \/ /\ k \notin DOMAIN db.val
            /\ Becomes(SetValue(db, k, Stored[t]))
            /\ Answers({"none"}) /\ UNCHANGED none

(* Only a first deadline is stored: dictAdd fails on a key that has one,   *)
(* and the key object's count goes up all the same.                        *)
set_expires_NotCounted(s, k, when) ==   \* mutant: no incrRefCount of the key
  IF k \in DOMAIN s.expires THEN s
  ELSE [s EXCEPT !.expires = With(@, k, [key |-> s.val[k].key, when |-> when])]
set_expires(s, k, when) ==
  LET key == s.val[k].key
  IN  IF k \in DOMAIN s.expires THEN incrRefCount(s, key)
      ELSE [incrRefCount(s, key) EXCEPT !.expires = With(@, k, [key |-> key, when |-> when])]

py_expire(k, when) ==
  /\ Defined
  /\ \/ /\ k \in DOMAIN db.val
        /\ k \in DOMAIN db.expires => Leaked(db) < MaxLeak
        /\ Becomes(set_expires(db, k, when))
        /\ reply' = "ok"
     \/ /\ k \notin DOMAIN db.val
        /\ Becomes(db)
        /\ reply' = "notexist"

(* sadd, and the leaky hset, lpush, rpush and zadd, which keep the key     *)
(* object they created when the value has another type.  What was pushed   *)
(* into is not empty.                                                      *)
Push(k, type, leaky) ==
  LET s == check_expires(db, k)
  IN  /\ Defined
      /\ \/ /\ ~Visible(db, k)
            /\ db' = SetValue(s, k, type)
            /\ emptied' = {o \in emptied : db'.what[o] = "set"} \ {db'.val[k].v}
            /\ reply' = "ok"
         \/ /\ Visible(db, k) /\ get_value(db, k) = type
            /\ UNCHANGED db
            /\ emptied' = emptied \ {db.val[k].v}
            /\ \/ reply' = "ok"
               \/ type = "set" /\ ~IsEmpty(k) /\ reply' = "exist"
         \/ /\ Visible(db, k) /\ get_value(db, k) # type
            /\ leaky => Leaked(db) < MaxLeak
            /\ Becomes(IF leaky THEN CreateKey(s, NewKey(s)) ELSE s)
            /\ reply' = "typerr"

py_sadd(k)       == Push(k, "set", FALSE)
py_push(k, type) == Push(k, type, TRUE)

Tick == ~undefined /\ now < MaxTime /\ now' = now + 1 /\ UNCHANGED <<db, emptied, none, reply, undefined>>

Next ==
  \/ \E k \in Name, t \in Text : py_set(k, t) \/ py_getset(k, t)
  \/ \E k \in Name : \/ py_get(k) \/ py_exists(k) \/ py_type(k) \/ py_strlen(k) \/ py_del(k)
                     \/ py_getrange(k) \/ py_sadd(k) \/ py_srem(k) \/ py_spop(k)
                     \/ Count(k) \/ Walk(k)
                     \/ \E type \in Container \ {"set"} : py_push(k, type) \/ Element(k, type)
  \/ \E k, l \in Name : py_rename(k, l)
  \/ \E k \in Name, when \in Deadline : py_expire(k, when)
  \/ Tick

Spec == Init /\ [][Next]_vars

-----------------------------------------------------------------------------
(* Invariants. *)

TypeOK ==
  /\ DOMAIN db.val \subseteq Name /\ DOMAIN db.expires \subseteq Name
  /\ \A k \in DOMAIN db.val : db.val[k] \in [key : KeyObject, v : ValueObject]
  /\ \A k \in DOMAIN db.expires : db.expires[k] \in [key : KeyObject, when : Deadline]
  /\ db.ref \in [Object -> Nat]
  /\ db.what \in [ValueObject -> Content]
  /\ emptied \subseteq {o \in ValueObject : db.what[o] = "set"}
  /\ none \in {"kept", "freed"}
  /\ now \in 0 .. MaxTime
  /\ reply \in Replies
  /\ undefined \in BOOLEAN

(* Every deadline is that of a stored key, and the two dictionaries share  *)
(* one key object: whatever deletes a key deletes it from both.            *)
DeadlinesHaveKeys ==
  \A k \in DOMAIN db.expires :
    k \in DOMAIN db.val /\ db.expires[k].key = db.val[k].key

(* No object is freed while val, expires or the shared table points to it: *)
(* its count is at least the number of those pointers.  This is about the  *)
(* objects that counts free.  It claims nothing of the one text that is    *)
(* freed without a count: get and getset of an emptied set delete the text *)
(* of shared.none, which the shared table still refers to (none).          *)
NoDangling ==
  ~undefined => /\ \A o \in Object : db.ref[o] >= Pointers(db, o)
                /\ \A o \in ValueObject : db.ref[o] = 0 <=> db.what[o] = "freed"

-----------------------------------------------------------------------------
(* Action properties. *)

(* What a client would get of key k. *)
Sees(k) == IF Visible(db, k) THEN get_value(db, k) ELSE "freed"

Writes(k) ==
  \/ \E t \in Text : py_set(k, t) \/ py_getset(k, t)
  \/ py_del(k) \/ py_sadd(k) \/ \E type \in Container : py_push(k, type)
  \/ \E l \in Name : py_rename(k, l) \/ py_rename(l, k)
  \/ \E when \in Deadline : py_expire(k, when)

(* A command changes only what clients see of the keys it names, although  *)
(* keys share value objects and a command may purge the one it reads.      *)
OthersUntouched ==
  [][db' # db /\ ~undefined' /\ now' = now =>
       \A k \in Name : Sees(k)' # Sees(k) => Writes(k)]_vars

(* Every command gives back, object by object, the references it took, but *)
(* for the paths that return early without their decrRefCount, and expire  *)
(* on a key that has a deadline.                                           *)
LeaksOnlyWhereKnown ==
  [][db' # db /\ ~undefined' /\ Lost(db') # Lost(db) =>
       \E k \in Name :
         \/ py_strlen(k) /\ reply' # "typerr"
         \/ reply' = "typerr" /\ \E type \in Container : py_push(k, type)
         \/ k \in DOMAIN db.expires /\ \E when \in Deadline : py_expire(k, when)]_vars

(* Nothing goes early.  A stored key leaves val only because it is deleted *)
(* or renamed away, or because a command that names it finds that it has   *)
(* expired.  Its deadline goes only with the old value, when that is       *)
(* overwritten, deleted, renamed or found expired, and only expire gives   *)
(* it another one: getset gives the key a new value under the old deadline *)
(* and a refused command changes nothing.  Which deadline a key has after  *)
(* a second expire is not claimed: db.h:34 says the new one, and dictAdd   *)
(* (db.cpp:44) keeps the old one.                                          *)
NothingGoesEarly ==
  [][db' # db =>
       /\ \A k \in DOMAIN db.val \ DOMAIN db'.val :
            Expired(db, k) \/ py_del(k) \/ \E l \in Name : py_rename(k, l)
       /\ \A k \in DOMAIN db.expires :
            \/ /\ k \in DOMAIN db'.expires
               /\ \/ db'.expires[k].when = db.expires[k].when
                  \/ \E when \in Deadline : py_expire(k, when)
            \/ k \notin DOMAIN db'.expires /\ Expired(db, k)
            \/ py_del(k) \/ \E t \in Text : py_set(k, t)
            \/ \E l \in Name : py_rename(k, l) \/ py_rename(l, k)]_vars

(* db.h:43-45: set_value overwrites a key that exists.  After set, the key *)
(* holds what was set.                                                     *)
SetStores ==
  [][\A k \in Name, t \in Text : py_set(k, t) => Sees(k)' = Stored[t]]_vars
=============================================================================
