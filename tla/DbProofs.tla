------------------------------ MODULE DbProofs ------------------------------
(***************************************************************************)
(* Proofs about Db, as long as the bounds on objects do not bind: no       *)
(* command ever lacks an object to allocate.                               *)
(*                                                                         *)
(* Half way through a command the counts are off by the references the     *)
(* command itself holds, or has yet to take.  So the functions of the code *)
(* are proved to keep an invariant with a parameter, Counted(s, h): every  *)
(* count is the number of pointers in the dictionaries plus the h of the   *)
(* object.  Between two commands that h is what has been lost, which no    *)
(* command lowers below 0, and only those that leak change at all.         *)
(***************************************************************************)
EXTENDS Db, FiniteSetTheorems, TLAPS

-----------------------------------------------------------------------------
(* Counting the pointers of a dictionary. *)

KeyCount(f, o)   == Cardinality({k \in DOMAIN f : f[k].key = o})
ValueCount(f, o) == Cardinality({k \in DOMAIN f : f[k].v = o})
Is(a, b)         == IF a = b THEN 1 ELSE 0
Fixed(o)         == IF o \in SharedObjects THEN 1 ELSE 0

LEMMA PointersAreCounts ==
  ASSUME NEW s, NEW o
  PROVE  Pointers(s, o) =
           KeyCount(s.val, o) + ValueCount(s.val, o) + KeyCount(s.expires, o) + Fixed(o)
BY DEF Pointers, KeyCount, ValueCount, Fixed

(* Counts of a finite dictionary are numbers, and positive where a pointer *)
(* is.                                                                     *)
LEMMA CountsAreNumbers ==
  ASSUME NEW f, NEW o, IsFiniteSet(DOMAIN f)
  PROVE  /\ KeyCount(f, o) \in Nat /\ ValueCount(f, o) \in Nat
         /\ \A k \in DOMAIN f : /\ f[k].key = o => KeyCount(f, o) >= 1
                                /\ f[k].v = o => ValueCount(f, o) >= 1
<1> DEFINE K == {k \in DOMAIN f : f[k].key = o}
           V == {k \in DOMAIN f : f[k].v = o}
<1>1. IsFiniteSet(K) /\ IsFiniteSet(V)
  BY FS_Subset, K \in SUBSET DOMAIN f, V \in SUBSET DOMAIN f
<1>2. Cardinality(K) \in Nat /\ Cardinality(V) \in Nat
  BY <1>1, FS_CardinalityType
<1>3. (K # {} => Cardinality(K) # 0) /\ (V # {} => Cardinality(V) # 0)
  BY <1>1, FS_EmptySet
<1>4. \A k \in DOMAIN f : (f[k].key = o => K # {}) /\ (f[k].v = o => V # {})
  OBVIOUS
<1>5. KeyCount(f, o) = Cardinality(K) /\ ValueCount(f, o) = Cardinality(V)
  BY DEF KeyCount, ValueCount
<1> HIDE DEF K, V
<1> QED
  BY <1>2, <1>3, <1>4, <1>5

(* Taking an entry out takes its two pointers out.                         *)
LEMMA CountsWithout ==
  ASSUME NEW f, NEW k \in DOMAIN f, NEW o, IsFiniteSet(DOMAIN f)
  PROVE  /\ IsFiniteSet(DOMAIN Without(f, k))
         /\ KeyCount(Without(f, k), o) = KeyCount(f, o) - Is(f[k].key, o)
         /\ ValueCount(Without(f, k), o) = ValueCount(f, o) - Is(f[k].v, o)
<1> DEFINE g == Without(f, k)
           K == {x \in DOMAIN f : f[x].key = o}
           V == {x \in DOMAIN f : f[x].v = o}
<1>1. DOMAIN g = DOMAIN f \ {k} /\ \A x \in DOMAIN g : g[x] = f[x]
  BY DEF Without
<1>2. IsFiniteSet(DOMAIN g)
  BY <1>1, FS_RemoveElement
<1>3. IsFiniteSet(K) /\ IsFiniteSet(V)
  BY FS_Subset, K \in SUBSET DOMAIN f, V \in SUBSET DOMAIN f
<1>4. Cardinality(K) \in Nat /\ Cardinality(V) \in Nat
  BY <1>3, FS_CardinalityType
<1>5. {x \in DOMAIN g : g[x].key = o} = K \ {k} /\ {x \in DOMAIN g : g[x].v = o} = V \ {k}
  BY <1>1
<1>6. (k \in K <=> f[k].key = o) /\ (k \in V <=> f[k].v = o)
  OBVIOUS
<1>7. /\ KeyCount(f, o) = Cardinality(K) /\ ValueCount(f, o) = Cardinality(V)
      /\ KeyCount(g, o) = Cardinality(K \ {k}) /\ ValueCount(g, o) = Cardinality(V \ {k})
  BY <1>5 DEF KeyCount, ValueCount
<1>8. /\ Cardinality(K \ {k}) = IF k \in K THEN Cardinality(K) - 1 ELSE Cardinality(K)
      /\ Cardinality(V \ {k}) = IF k \in V THEN Cardinality(V) - 1 ELSE Cardinality(V)
  BY <1>3, FS_RemoveElement
<1> HIDE DEF K, V, g
<1>9. /\ KeyCount(g, o) = KeyCount(f, o) - Is(f[k].key, o)
      /\ ValueCount(g, o) = ValueCount(f, o) - Is(f[k].v, o)
  BY <1>4, <1>6, <1>7, <1>8 DEF Is
<1> QED
  BY <1>2, <1>9 DEF g

(* Putting one in puts them in.                                            *)
LEMMA CountsWith ==
  ASSUME NEW f, NEW k, k \notin DOMAIN f, NEW y, NEW o, IsFiniteSet(DOMAIN f)
  PROVE  /\ IsFiniteSet(DOMAIN With(f, k, y))
         /\ KeyCount(With(f, k, y), o) = KeyCount(f, o) + Is(y.key, o)
         /\ ValueCount(With(f, k, y), o) = ValueCount(f, o) + Is(y.v, o)
<1> DEFINE g == With(f, k, y)
           K == {x \in DOMAIN f : f[x].key = o}
           V == {x \in DOMAIN f : f[x].v = o}
<1>1. /\ DOMAIN g = DOMAIN f \cup {k} /\ g[k] = y
      /\ \A x \in DOMAIN f : g[x] = f[x]
  BY DEF With
<1>2. IsFiniteSet(DOMAIN g)
  BY <1>1, FS_AddElement
<1>3. IsFiniteSet(K) /\ IsFiniteSet(V)
  BY FS_Subset, K \in SUBSET DOMAIN f, V \in SUBSET DOMAIN f
<1>4. Cardinality(K) \in Nat /\ Cardinality(V) \in Nat
  BY <1>3, FS_CardinalityType
<1>5. /\ {x \in DOMAIN g : g[x].key = o} = IF y.key = o THEN K \cup {k} ELSE K
      /\ {x \in DOMAIN g : g[x].v = o} = IF y.v = o THEN V \cup {k} ELSE V
  BY <1>1
<1>6. k \notin K /\ k \notin V
  OBVIOUS
<1>7. /\ KeyCount(f, o) = Cardinality(K) /\ ValueCount(f, o) = Cardinality(V)
      /\ KeyCount(g, o) = Cardinality(IF y.key = o THEN K \cup {k} ELSE K)
      /\ ValueCount(g, o) = Cardinality(IF y.v = o THEN V \cup {k} ELSE V)
  BY <1>5 DEF KeyCount, ValueCount
<1>8. /\ Cardinality(K \cup {k}) = Cardinality(K) + 1
      /\ Cardinality(V \cup {k}) = Cardinality(V) + 1
  BY <1>3, <1>6, FS_AddElement
<1> HIDE DEF K, V, g
<1>9. /\ KeyCount(g, o) = KeyCount(f, o) + Is(y.key, o)
      /\ ValueCount(g, o) = ValueCount(f, o) + Is(y.v, o)
  BY <1>4, <1>7, <1>8 DEF Is
<1> QED
  BY <1>2, <1>9 DEF g

(* Giving an entry another value moves one pointer.                        *)
LEMMA CountsMoved ==
  ASSUME NEW f, NEW g, NEW k \in DOMAIN f, NEW o, IsFiniteSet(DOMAIN f),
         DOMAIN g = DOMAIN f, g[k].key = f[k].key, \A x \in DOMAIN f \ {k} : g[x] = f[x]
  PROVE  /\ KeyCount(g, o) = KeyCount(f, o)
         /\ ValueCount(g, o) = ValueCount(f, o) - Is(f[k].v, o) + Is(g[k].v, o)
<1> DEFINE V == {x \in DOMAIN f : f[x].v = o}
           W == {x \in DOMAIN g : g[x].v = o}
<1>1. {x \in DOMAIN f : f[x].key = o} = {x \in DOMAIN g : g[x].key = o}
  OBVIOUS
<1>2. IsFiniteSet(V) /\ IsFiniteSet(W)
  BY FS_Subset, V \in SUBSET DOMAIN f, W \in SUBSET DOMAIN f
<1>3. Cardinality(V) \in Nat /\ Cardinality(W) \in Nat
  BY <1>2, FS_CardinalityType
<1>4. V \ {k} = W \ {k} /\ (k \in V <=> f[k].v = o) /\ (k \in W <=> g[k].v = o)
  OBVIOUS
<1>5. /\ Cardinality(V \ {k}) = IF k \in V THEN Cardinality(V) - 1 ELSE Cardinality(V)
      /\ Cardinality(W \ {k}) = IF k \in W THEN Cardinality(W) - 1 ELSE Cardinality(W)
  BY <1>2, FS_RemoveElement
<1>6. /\ KeyCount(g, o) = KeyCount(f, o)
      /\ ValueCount(f, o) = Cardinality(V) /\ ValueCount(g, o) = Cardinality(W)
  BY <1>1 DEF KeyCount, ValueCount
<1>7. Is(f[k].v, o) = (IF k \in V THEN 1 ELSE 0) /\ Is(g[k].v, o) = (IF k \in W THEN 1 ELSE 0)
  BY <1>4 DEF Is
<1> HIDE DEF V, W
<1>8. Cardinality(V) - Is(f[k].v, o) = Cardinality(W) - Is(g[k].v, o)
  <2>1. Cardinality(V \ {k}) = Cardinality(W \ {k})
    BY <1>4
  <2>2. Cardinality(V \ {k}) = Cardinality(V) - Is(f[k].v, o)
    BY <1>3, <1>5, <1>7
  <2>3. Cardinality(W \ {k}) = Cardinality(W) - Is(g[k].v, o)
    BY <1>3, <1>5, <1>7
  <2> QED
    BY <2>1, <2>2, <2>3
<1>9. Is(f[k].v, o) \in Int /\ Is(g[k].v, o) \in Int
  BY DEF Is
<1> QED
  BY <1>3, <1>6, <1>8, <1>9

-----------------------------------------------------------------------------
(* The invariant, of the dictionaries and objects s and what the command   *)
(* that runs holds of each object, h.                                      *)

Shape(s) ==
  /\ s = [val |-> s.val, expires |-> s.expires, ref |-> s.ref, what |-> s.what]
  /\ DOMAIN s.val \subseteq Name /\ DOMAIN s.expires \subseteq Name
  /\ \A k \in DOMAIN s.val : s.val[k] \in [key : KeyObject, v : ValueObject]
  /\ \A k \in DOMAIN s.expires : s.expires[k] \in [key : KeyObject, when : Deadline]
  /\ s.ref \in [Object -> Nat]
  /\ s.what \in [ValueObject -> Content]
Alive(s)      == \A o \in ValueObject : s.ref[o] = 0 <=> s.what[o] = "freed"
Counted(s, h) == \A o \in Object : s.ref[o] = Pointers(s, o) + h[o]
Sound(s, h)   == Shape(s) /\ Alive(s) /\ Counted(s, h)

Debt    == [Object -> Int]
Holds(h, o)  == [h EXCEPT ![o] = @ + 1]
GivesUp(h, o) == [h EXCEPT ![o] = @ - 1]

LEMMA DebtsAreDebts ==
  ASSUME NEW h \in Debt, NEW o \in Object
  PROVE  /\ Holds(h, o) \in Debt /\ GivesUp(h, o) \in Debt
         /\ \A p \in Object : /\ Holds(h, o)[p] = h[p] + Is(o, p)
                              /\ GivesUp(h, o)[p] = h[p] - Is(o, p)
BY DEF Debt, Holds, GivesUp, Is

(* Pointers are a number, and at least one for what an entry points to.    *)
LEMMA PointersAreNumbers ==
  ASSUME NEW s, Shape(s), NEW o \in Object
  PROVE  /\ IsFiniteSet(DOMAIN s.val) /\ IsFiniteSet(DOMAIN s.expires)
         /\ KeyCount(s.val, o) \in Nat /\ ValueCount(s.val, o) \in Nat
         /\ KeyCount(s.expires, o) \in Nat /\ Fixed(o) \in Nat
         /\ Pointers(s, o) \in Nat
         /\ \A k \in DOMAIN s.val : s.val[k].key = o \/ s.val[k].v = o => Pointers(s, o) >= 1
         /\ \A k \in DOMAIN s.expires : s.expires[k].key = o => Pointers(s, o) >= 1
         /\ o \in SharedObjects => Pointers(s, o) >= 1
<1>1. IsFiniteSet(DOMAIN s.val) /\ IsFiniteSet(DOMAIN s.expires)
  BY NameAssumption, FS_Subset DEF Shape
<1>2. /\ KeyCount(s.val, o) \in Nat /\ ValueCount(s.val, o) \in Nat
      /\ \A k \in DOMAIN s.val : /\ s.val[k].key = o => KeyCount(s.val, o) >= 1
                                 /\ s.val[k].v = o => ValueCount(s.val, o) >= 1
  BY <1>1, CountsAreNumbers
<1>3. /\ KeyCount(s.expires, o) \in Nat
      /\ \A k \in DOMAIN s.expires : s.expires[k].key = o => KeyCount(s.expires, o) >= 1
  BY <1>1, CountsAreNumbers
<1>4. Fixed(o) \in Nat /\ (o \in SharedObjects => Fixed(o) = 1)
  BY DEF Fixed
<1>5. Pointers(s, o) =
        KeyCount(s.val, o) + ValueCount(s.val, o) + KeyCount(s.expires, o) + Fixed(o)
  BY PointersAreCounts
<1> QED
  BY <1>1, <1>2, <1>3, <1>4, <1>5

-----------------------------------------------------------------------------
(* The steps the functions of the code are made of. *)

(* Changes of a count or of a content leave the dictionaries alone.        *)
LEMMA IncrFields ==
  ASSUME NEW s, Shape(s), NEW o \in Object, NEW t, t = incrRefCount(s, o)
  PROVE  /\ t = [val |-> t.val, expires |-> t.expires, ref |-> t.ref, what |-> t.what]
         /\ t.val = s.val /\ t.expires = s.expires /\ t.what = s.what
         /\ t.ref = [s.ref EXCEPT ![o] = @ + 1]
BY DEF Shape, incrRefCount

LEMMA DecrFields ==
  ASSUME NEW s, Shape(s), NEW o \in Object, NEW t, t = decrRefCount(s, o)
  PROVE  /\ t = [val |-> t.val, expires |-> t.expires, ref |-> t.ref, what |-> t.what]
         /\ t.val = s.val /\ t.expires = s.expires
         /\ t.ref = [s.ref EXCEPT ![o] = @ - 1]
         /\ t.what = IF s.ref[o] = 1 /\ o \in ValueObject THEN [s.what EXCEPT ![o] = "freed"]
                     ELSE s.what
<1>1. CASE s.ref[o] = 1 /\ o \in ValueObject
  <2>1. t = [s EXCEPT !.ref[o] = 0, !.what[o] = "freed"]
    BY <1>1 DEF decrRefCount
  <2>2. [s.ref EXCEPT ![o] = 0] = [s.ref EXCEPT ![o] = @ - 1]
    BY <1>1 DEF Shape
  <2> QED
    BY <1>1, <2>1, <2>2 DEF Shape
<1>2. CASE ~(s.ref[o] = 1 /\ o \in ValueObject)
  BY <1>2 DEF decrRefCount, Shape
<1> QED
  BY <1>1, <1>2

LEMMA CreateKeyFields ==
  ASSUME NEW s, Shape(s), NEW o \in Object, NEW t, t = CreateKey(s, o)
  PROVE  /\ t = [val |-> t.val, expires |-> t.expires, ref |-> t.ref, what |-> t.what]
         /\ t.val = s.val /\ t.expires = s.expires /\ t.what = s.what
         /\ t.ref = [s.ref EXCEPT ![o] = 1]
BY DEF Shape, CreateKey

LEMMA CreateValueFields ==
  ASSUME NEW s, Shape(s), NEW o \in Object, NEW x, NEW t, t = CreateValue(s, o, x)
  PROVE  /\ t = [val |-> t.val, expires |-> t.expires, ref |-> t.ref, what |-> t.what]
         /\ t.val = s.val /\ t.expires = s.expires
         /\ t.ref = [s.ref EXCEPT ![o] = 1]
         /\ t.what = [s.what EXCEPT ![o] = x]
BY DEF Shape, CreateValue

(* A state whose dictionaries are those of s has its pointers.             *)
LEMMA SamePointers ==
  ASSUME NEW s, NEW t, t.val = s.val, t.expires = s.expires, NEW o
  PROVE  Pointers(t, o) = Pointers(s, o)
BY PointersAreCounts

(* A state with the dictionaries of s, whose counts have changed by what   *)
(* the command holds, is counted.                                          *)
LEMMA HeldIsCounted ==
  ASSUME NEW s, NEW h \in Debt, Sound(s, h), NEW t, NEW g \in Debt,
         t.val = s.val, t.expires = s.expires,
         \A p \in Object : t.ref[p] = s.ref[p] + (g[p] - h[p])
  PROVE  Counted(t, g)
<1> SUFFICES ASSUME NEW p \in Object
             PROVE  t.ref[p] = Pointers(t, p) + g[p]
  BY DEF Counted
<1>1. Pointers(t, p) = Pointers(s, p) /\ Pointers(s, p) \in Nat
  BY SamePointers, PointersAreNumbers DEF Sound
<1>2. s.ref[p] = Pointers(s, p) + h[p] /\ s.ref[p] \in Nat
  BY DEF Sound, Counted, Shape
<1>3. h[p] \in Int /\ g[p] \in Int
  BY DEF Debt
<1> QED
  BY <1>1, <1>2, <1>3

(* Taking, giving back and creating a reference changes what is held.      *)
LEMMA IncrKeeps ==
  ASSUME NEW s, NEW h \in Debt, Sound(s, h), NEW o \in Object,
         o \in ValueObject => s.ref[o] >= 1,
         NEW t, t = incrRefCount(s, o)
  PROVE  /\ Sound(t, Holds(h, o))
         /\ t.val = s.val /\ t.expires = s.expires /\ t.ref = [s.ref EXCEPT ![o] = @ + 1]
<1>1. /\ t = [val |-> t.val, expires |-> t.expires, ref |-> t.ref, what |-> t.what]
      /\ t.val = s.val /\ t.expires = s.expires /\ t.what = s.what
      /\ t.ref = [s.ref EXCEPT ![o] = @ + 1]
  BY IncrFields DEF Sound
<1>2. s.ref \in [Object -> Nat] /\ \A p \in Object : t.ref[p] = s.ref[p] + Is(o, p)
  BY <1>1 DEF Sound, Shape, Is
<1>3. Shape(t)
  BY <1>1 DEF Sound, Shape
<1>4. Alive(t)
  BY <1>1, <1>2 DEF Sound, Alive, Object, Is
<1>5. Counted(t, Holds(h, o))
  <2>1. Holds(h, o) \in Debt /\ \A p \in Object : t.ref[p] = s.ref[p] + (Holds(h, o)[p] - h[p])
    BY <1>2, DebtsAreDebts DEF Debt, Is
  <2>2. t.val = s.val /\ t.expires = s.expires
    BY <1>1
  <2> QED
    BY <2>1, <2>2, HeldIsCounted, Zenon
<1> QED
  BY <1>1, <1>3, <1>4, <1>5 DEF Sound

LEMMA DecrKeeps ==
  ASSUME NEW s, NEW h \in Debt, Sound(s, h), NEW o \in Object, s.ref[o] >= 1,
         NEW t, t = decrRefCount(s, o)
  PROVE  /\ Sound(t, GivesUp(h, o))
         /\ t.val = s.val /\ t.expires = s.expires /\ t.ref = [s.ref EXCEPT ![o] = @ - 1]
<1>1. /\ t = [val |-> t.val, expires |-> t.expires, ref |-> t.ref, what |-> t.what]
      /\ t.val = s.val /\ t.expires = s.expires
      /\ t.ref = [s.ref EXCEPT ![o] = @ - 1]
      /\ t.what = IF s.ref[o] = 1 /\ o \in ValueObject THEN [s.what EXCEPT ![o] = "freed"]
                  ELSE s.what
  BY DecrFields DEF Sound
<1>2. /\ s.ref \in [Object -> Nat] /\ s.what \in [ValueObject -> Content]
      /\ \A p \in Object : t.ref[p] = s.ref[p] - Is(o, p)
  BY <1>1 DEF Sound, Shape, Is
<1>3. Shape(t)
  BY <1>1, <1>2 DEF Sound, Shape, Content
<1>4. Alive(t)
  BY <1>1, <1>2 DEF Sound, Alive, Object, Is
<1>5. Counted(t, GivesUp(h, o))
  <2>1. GivesUp(h, o) \in Debt /\ \A p \in Object : t.ref[p] = s.ref[p] + (GivesUp(h, o)[p] - h[p])
    BY <1>2, DebtsAreDebts DEF Debt, Is
  <2>2. t.val = s.val /\ t.expires = s.expires
    BY <1>1
  <2> QED
    BY <2>1, <2>2, HeldIsCounted, Zenon
<1> QED
  BY <1>1, <1>3, <1>4, <1>5 DEF Sound

LEMMA CreateKeyKeeps ==
  ASSUME NEW s, NEW h \in Debt, Sound(s, h), NEW o \in KeyObject, s.ref[o] = 0,
         NEW t, t = CreateKey(s, o)
  PROVE  /\ Sound(t, Holds(h, o))
         /\ t.val = s.val /\ t.expires = s.expires /\ t.ref = [s.ref EXCEPT ![o] = 1]
<1>0. o \in Object
  BY DEF Object
<1>1. /\ t = [val |-> t.val, expires |-> t.expires, ref |-> t.ref, what |-> t.what]
      /\ t.val = s.val /\ t.expires = s.expires /\ t.what = s.what
      /\ t.ref = [s.ref EXCEPT ![o] = 1]
  BY <1>0, CreateKeyFields DEF Sound
<1>2. s.ref \in [Object -> Nat] /\ \A p \in Object : t.ref[p] = s.ref[p] + Is(o, p)
  BY <1>0, <1>1 DEF Sound, Shape, Is
<1>3. Shape(t)
  <2>1. t.ref \in [Object -> Nat]
    BY <1>0, <1>1, <1>2
  <2> QED
    BY <1>1, <2>1 DEF Sound, Shape
<1>4. Alive(t)
  BY <1>1, <1>2, ObjectAssumption DEF Sound, Alive, Object, Is
<1>5. Counted(t, Holds(h, o))
  <2>1. Holds(h, o) \in Debt /\ \A p \in Object : t.ref[p] = s.ref[p] + (Holds(h, o)[p] - h[p])
    BY <1>0, <1>2, DebtsAreDebts DEF Debt, Is
  <2>2. t.val = s.val /\ t.expires = s.expires
    BY <1>1
  <2> QED
    BY <2>1, <2>2, HeldIsCounted, Zenon
<1> QED
  BY <1>1, <1>3, <1>4, <1>5 DEF Sound

LEMMA CreateValueKeeps ==
  ASSUME NEW s, NEW h \in Debt, Sound(s, h), NEW o \in ValueObject, s.ref[o] = 0,
         NEW x \in Content, x # "freed",
         NEW t, t = CreateValue(s, o, x)
  PROVE  /\ Sound(t, Holds(h, o))
         /\ t.val = s.val /\ t.expires = s.expires /\ t.ref = [s.ref EXCEPT ![o] = 1]
<1>0. o \in Object
  BY DEF Object
<1>1. /\ t = [val |-> t.val, expires |-> t.expires, ref |-> t.ref, what |-> t.what]
      /\ t.val = s.val /\ t.expires = s.expires
      /\ t.ref = [s.ref EXCEPT ![o] = 1]
      /\ t.what = [s.what EXCEPT ![o] = x]
  BY <1>0, CreateValueFields DEF Sound
<1>2. /\ s.ref \in [Object -> Nat] /\ s.what \in [ValueObject -> Content]
      /\ \A p \in Object : t.ref[p] = s.ref[p] + Is(o, p)
  BY <1>0, <1>1 DEF Sound, Shape, Is
<1>3. Shape(t)
  <2>1. t.ref \in [Object -> Nat] /\ t.what \in [ValueObject -> Content]
    BY <1>0, <1>1, <1>2
  <2> QED
    BY <1>1, <2>1 DEF Sound, Shape
<1>4. Alive(t)
  BY <1>1, <1>2 DEF Sound, Alive, Object, Is
<1>5. Counted(t, Holds(h, o))
  <2>1. Holds(h, o) \in Debt /\ \A p \in Object : t.ref[p] = s.ref[p] + (Holds(h, o)[p] - h[p])
    <3>1. Holds(h, o) \in Debt /\ \A p \in Object : Holds(h, o)[p] = h[p] + Is(o, p)
      BY <1>0, DebtsAreDebts
    <3> QED
      BY <1>2, <3>1 DEF Debt, Is
  <2>2. t.val = s.val /\ t.expires = s.expires
    BY <1>1
  <2> QED
    BY <2>1, <2>2, HeldIsCounted, Zenon
<1> QED
  BY <1>1, <1>3, <1>4, <1>5 DEF Sound

(* Changing an entry changes what the command holds of what it pointed to. *)
DropValue(s, k)      == [s EXCEPT !.val = Without(@, k)]
DropDeadline(s, k)   == [s EXCEPT !.expires = Without(@, k)]
AddValue(s, k, e)    == [s EXCEPT !.val = With(@, k, e)]
AddDeadline(s, k, e) == [s EXCEPT !.expires = With(@, k, e)]
PutValue(s, k, v)    == [s EXCEPT !.val[k].v = v]

LEMMA DropValueKeeps ==
  ASSUME NEW s, NEW h \in Debt, Sound(s, h), NEW k \in DOMAIN s.val
  PROVE  Sound(DropValue(s, k), Holds(Holds(h, s.val[k].key), s.val[k].v))
<1> DEFINE t == DropValue(s, k)
           e == s.val[k]
           g == Holds(Holds(h, e.key), e.v)
<1>1. /\ t = [val |-> t.val, expires |-> t.expires, ref |-> t.ref, what |-> t.what]
      /\ t.val = Without(s.val, k) /\ t.expires = s.expires /\ t.ref = s.ref /\ t.what = s.what
  BY DEF Sound, Shape, DropValue
<1>2. e.key \in Object /\ e.v \in Object
  BY DEF Sound, Shape, Object
<1>3. \A p \in Object : g[p] = h[p] + Is(e.key, p) + Is(e.v, p)
  <2>1. Holds(h, e.key) \in Debt /\ \A p \in Object : Holds(h, e.key)[p] = h[p] + Is(e.key, p)
    BY <1>2, DebtsAreDebts
  <2>2. \A p \in Object : g[p] = Holds(h, e.key)[p] + Is(e.v, p)
    BY <1>2, <2>1, DebtsAreDebts
  <2> HIDE DEF g
  <2> QED
    BY <2>1, <2>2
<1> HIDE DEF t, g, e
<1>4. Shape(t) /\ Alive(t)
  BY <1>1 DEF Sound, Shape, Alive, Without
<1>5. ASSUME NEW p \in Object
      PROVE  t.ref[p] = Pointers(t, p) + g[p]
  <2>1. IsFiniteSet(DOMAIN s.val) /\ Shape(s)
    BY PointersAreNumbers, <1>2 DEF Sound
  <2>2. /\ KeyCount(t.val, p) = KeyCount(s.val, p) - Is(e.key, p)
        /\ ValueCount(t.val, p) = ValueCount(s.val, p) - Is(e.v, p)
    BY <1>1, <2>1, CountsWithout DEF e
  <2>3. /\ KeyCount(s.val, p) \in Nat /\ ValueCount(s.val, p) \in Nat
        /\ KeyCount(s.expires, p) \in Nat /\ Fixed(p) \in Nat
    BY <2>1, PointersAreNumbers
  <2>4. /\ Pointers(s, p) = KeyCount(s.val, p) + ValueCount(s.val, p)
                              + KeyCount(s.expires, p) + Fixed(p)
        /\ Pointers(t, p) = KeyCount(t.val, p) + ValueCount(t.val, p)
                              + KeyCount(s.expires, p) + Fixed(p)
    BY <1>1, PointersAreCounts
  <2>5. s.ref[p] = Pointers(s, p) + h[p] /\ s.ref[p] \in Nat /\ h[p] \in Int
    BY DEF Sound, Counted, Shape, Debt
  <2>6. Is(e.key, p) \in Int /\ Is(e.v, p) \in Int
    BY DEF Is
  <2> QED
    BY <1>1, <1>3, <2>2, <2>3, <2>4, <2>5, <2>6
<1> QED
  BY <1>4, <1>5 DEF Sound, Counted, t, g, e

LEMMA DropDeadlineKeeps ==
  ASSUME NEW s, NEW h \in Debt, Sound(s, h), NEW k \in DOMAIN s.expires
  PROVE  Sound(DropDeadline(s, k), Holds(h, s.expires[k].key))
<1> DEFINE t == DropDeadline(s, k)
           e == s.expires[k]
           g == Holds(h, e.key)
<1>1. /\ t = [val |-> t.val, expires |-> t.expires, ref |-> t.ref, what |-> t.what]
      /\ t.expires = Without(s.expires, k) /\ t.val = s.val /\ t.ref = s.ref /\ t.what = s.what
  BY DEF Sound, Shape, DropDeadline
<1>2. e.key \in Object
  BY DEF Sound, Shape, Object
<1>3. \A p \in Object : g[p] = h[p] + Is(e.key, p)
  BY <1>2, DebtsAreDebts
<1> HIDE DEF t, g, e
<1>4. Shape(t) /\ Alive(t)
  BY <1>1 DEF Sound, Shape, Alive, Without
<1>5. ASSUME NEW p \in Object
      PROVE  t.ref[p] = Pointers(t, p) + g[p]
  <2>1. IsFiniteSet(DOMAIN s.expires) /\ Shape(s)
    BY PointersAreNumbers, <1>2 DEF Sound
  <2>2. KeyCount(t.expires, p) = KeyCount(s.expires, p) - Is(e.key, p)
    BY <1>1, <2>1, CountsWithout DEF e
  <2>3. /\ KeyCount(s.val, p) \in Nat /\ ValueCount(s.val, p) \in Nat
        /\ KeyCount(s.expires, p) \in Nat /\ Fixed(p) \in Nat
    BY <2>1, PointersAreNumbers
  <2>4. /\ Pointers(s, p) = KeyCount(s.val, p) + ValueCount(s.val, p)
                              + KeyCount(s.expires, p) + Fixed(p)
        /\ Pointers(t, p) = KeyCount(s.val, p) + ValueCount(s.val, p)
                              + KeyCount(t.expires, p) + Fixed(p)
    BY <1>1, PointersAreCounts
  <2>5. s.ref[p] = Pointers(s, p) + h[p] /\ s.ref[p] \in Nat /\ h[p] \in Int
    BY DEF Sound, Counted, Shape, Debt
  <2>6. Is(e.key, p) \in Int
    BY DEF Is
  <2> QED
    BY <1>1, <1>3, <2>2, <2>3, <2>4, <2>5, <2>6
<1> QED
  BY <1>4, <1>5 DEF Sound, Counted, t, g, e

LEMMA AddValueKeeps ==
  ASSUME NEW s, NEW h \in Debt, Sound(s, h), NEW k \in Name, k \notin DOMAIN s.val,
         NEW e \in [key : KeyObject, v : ValueObject]
  PROVE  Sound(AddValue(s, k, e), GivesUp(GivesUp(h, e.key), e.v))
<1> DEFINE t == AddValue(s, k, e)
           g == GivesUp(GivesUp(h, e.key), e.v)
<1>1. /\ t = [val |-> t.val, expires |-> t.expires, ref |-> t.ref, what |-> t.what]
      /\ t.val = With(s.val, k, e) /\ t.expires = s.expires /\ t.ref = s.ref /\ t.what = s.what
  BY DEF Sound, Shape, AddValue
<1>2. e.key \in Object /\ e.v \in Object
  BY DEF Object
<1>3. \A p \in Object : g[p] = h[p] - Is(e.key, p) - Is(e.v, p)
  <2>1. /\ GivesUp(h, e.key) \in Debt
        /\ \A p \in Object : GivesUp(h, e.key)[p] = h[p] - Is(e.key, p)
    BY <1>2, DebtsAreDebts
  <2>2. \A p \in Object : g[p] = GivesUp(h, e.key)[p] - Is(e.v, p)
    BY <1>2, <2>1, DebtsAreDebts
  <2> HIDE DEF g
  <2> QED
    BY <2>1, <2>2
<1> HIDE DEF t, g
<1>4. Shape(t) /\ Alive(t)
  BY <1>1 DEF Sound, Shape, Alive, With
<1>5. ASSUME NEW p \in Object
      PROVE  t.ref[p] = Pointers(t, p) + g[p]
  <2>1. IsFiniteSet(DOMAIN s.val) /\ Shape(s)
    BY PointersAreNumbers, <1>2 DEF Sound
  <2>2. /\ KeyCount(t.val, p) = KeyCount(s.val, p) + Is(e.key, p)
        /\ ValueCount(t.val, p) = ValueCount(s.val, p) + Is(e.v, p)
    BY <1>1, <2>1, CountsWith
  <2>3. /\ KeyCount(s.val, p) \in Nat /\ ValueCount(s.val, p) \in Nat
        /\ KeyCount(s.expires, p) \in Nat /\ Fixed(p) \in Nat
    BY <2>1, PointersAreNumbers
  <2>4. /\ Pointers(s, p) = KeyCount(s.val, p) + ValueCount(s.val, p)
                              + KeyCount(s.expires, p) + Fixed(p)
        /\ Pointers(t, p) = KeyCount(t.val, p) + ValueCount(t.val, p)
                              + KeyCount(s.expires, p) + Fixed(p)
    BY <1>1, PointersAreCounts
  <2>5. s.ref[p] = Pointers(s, p) + h[p] /\ s.ref[p] \in Nat /\ h[p] \in Int
    BY DEF Sound, Counted, Shape, Debt
  <2>6. Is(e.key, p) \in Int /\ Is(e.v, p) \in Int
    BY DEF Is
  <2> QED
    BY <1>1, <1>3, <2>2, <2>3, <2>4, <2>5, <2>6
<1> QED
  BY <1>4, <1>5 DEF Sound, Counted, t, g

LEMMA AddDeadlineKeeps ==
  ASSUME NEW s, NEW h \in Debt, Sound(s, h), NEW k \in Name, k \notin DOMAIN s.expires,
         NEW e \in [key : KeyObject, when : Deadline]
  PROVE  Sound(AddDeadline(s, k, e), GivesUp(h, e.key))
<1> DEFINE t == AddDeadline(s, k, e)
           g == GivesUp(h, e.key)
<1>1. /\ t = [val |-> t.val, expires |-> t.expires, ref |-> t.ref, what |-> t.what]
      /\ t.expires = With(s.expires, k, e) /\ t.val = s.val /\ t.ref = s.ref /\ t.what = s.what
  BY DEF Sound, Shape, AddDeadline
<1>2. e.key \in Object
  BY DEF Object
<1>3. \A p \in Object : g[p] = h[p] - Is(e.key, p)
  BY <1>2, DebtsAreDebts
<1> HIDE DEF t, g
<1>4. Shape(t) /\ Alive(t)
  BY <1>1 DEF Sound, Shape, Alive, With
<1>5. ASSUME NEW p \in Object
      PROVE  t.ref[p] = Pointers(t, p) + g[p]
  <2>1. IsFiniteSet(DOMAIN s.expires) /\ Shape(s)
    BY PointersAreNumbers, <1>2 DEF Sound
  <2>2. KeyCount(t.expires, p) = KeyCount(s.expires, p) + Is(e.key, p)
    BY <1>1, <2>1, CountsWith
  <2>3. /\ KeyCount(s.val, p) \in Nat /\ ValueCount(s.val, p) \in Nat
        /\ KeyCount(s.expires, p) \in Nat /\ Fixed(p) \in Nat
    BY <2>1, PointersAreNumbers
  <2>4. /\ Pointers(s, p) = KeyCount(s.val, p) + ValueCount(s.val, p)
                              + KeyCount(s.expires, p) + Fixed(p)
        /\ Pointers(t, p) = KeyCount(s.val, p) + ValueCount(s.val, p)
                              + KeyCount(t.expires, p) + Fixed(p)
    BY <1>1, PointersAreCounts
  <2>5. s.ref[p] = Pointers(s, p) + h[p] /\ s.ref[p] \in Nat /\ h[p] \in Int
    BY DEF Sound, Counted, Shape, Debt
  <2>6. Is(e.key, p) \in Int
    BY DEF Is
  <2> QED
    BY <1>1, <1>3, <2>2, <2>3, <2>4, <2>5, <2>6
<1> QED
  BY <1>4, <1>5 DEF Sound, Counted, t, g

LEMMA PutValueKeeps ==
  ASSUME NEW s, NEW h \in Debt, Sound(s, h), NEW k \in DOMAIN s.val, NEW v \in ValueObject
  PROVE  Sound(PutValue(s, k, v), GivesUp(Holds(h, s.val[k].v), v))
<1> DEFINE t == PutValue(s, k, v)
           e == s.val[k]
           g == GivesUp(Holds(h, e.v), v)
<1>0. e \in [key : KeyObject, v : ValueObject]
  BY DEF Sound, Shape
<1>1. /\ t = [val |-> t.val, expires |-> t.expires, ref |-> t.ref, what |-> t.what]
      /\ t.val = [s.val EXCEPT ![k] = [e EXCEPT !.v = v]]
      /\ t.expires = s.expires /\ t.ref = s.ref /\ t.what = s.what
  BY DEF Sound, Shape, PutValue
<1>2. e.key \in Object /\ e.v \in Object /\ v \in Object
  BY <1>0 DEF Object
<1>3. \A p \in Object : g[p] = h[p] + Is(e.v, p) - Is(v, p)
  <2>1. /\ Holds(h, e.v) \in Debt
        /\ \A p \in Object : Holds(h, e.v)[p] = h[p] + Is(e.v, p)
    BY <1>2, DebtsAreDebts
  <2>2. \A p \in Object : g[p] = Holds(h, e.v)[p] - Is(v, p)
    BY <1>2, <2>1, DebtsAreDebts
  <2>3. \A p \in Object : h[p] \in Int /\ Is(e.v, p) \in Int /\ Is(v, p) \in Int
    BY DEF Debt, Is
  <2> HIDE DEF g
  <2> QED
    BY <2>1, <2>2, <2>3
<1>4. /\ DOMAIN t.val = DOMAIN s.val /\ \A x \in DOMAIN s.val \ {k} : t.val[x] = s.val[x]
      /\ t.val[k].key = e.key /\ t.val[k].v = v
      /\ t.val[k] \in [key : KeyObject, v : ValueObject]
  BY <1>0, <1>1
<1> HIDE DEF t, g, e
<1>5. Shape(t) /\ Alive(t)
  BY <1>1, <1>4 DEF Sound, Shape, Alive
<1>6. ASSUME NEW p \in Object
      PROVE  t.ref[p] = Pointers(t, p) + g[p]
  <2>1. IsFiniteSet(DOMAIN s.val) /\ Shape(s)
    BY PointersAreNumbers, <1>2 DEF Sound
  <2>2. /\ KeyCount(t.val, p) = KeyCount(s.val, p)
        /\ ValueCount(t.val, p) = ValueCount(s.val, p) - Is(e.v, p) + Is(v, p)
    BY <1>4, <2>1, CountsMoved DEF e
  <2>3. /\ KeyCount(s.val, p) \in Nat /\ ValueCount(s.val, p) \in Nat
        /\ KeyCount(s.expires, p) \in Nat /\ Fixed(p) \in Nat
    BY <2>1, PointersAreNumbers
  <2>4. /\ Pointers(s, p) = KeyCount(s.val, p) + ValueCount(s.val, p)
                              + KeyCount(s.expires, p) + Fixed(p)
        /\ Pointers(t, p) = KeyCount(t.val, p) + ValueCount(t.val, p)
                              + KeyCount(s.expires, p) + Fixed(p)
    BY <1>1, PointersAreCounts
  <2>5. s.ref[p] = Pointers(s, p) + h[p] /\ s.ref[p] \in Nat /\ h[p] \in Int
    BY DEF Sound, Counted, Shape, Debt
  <2>6. Is(e.v, p) \in Int /\ Is(v, p) \in Int
    BY DEF Is
  <2> QED
    BY <1>1, <1>3, <2>2, <2>3, <2>4, <2>5, <2>6
<1> QED
  BY <1>5, <1>6 DEF Sound, Counted, t, g, e

-----------------------------------------------------------------------------
(* The functions of the code. *)

Coupled(s) ==
  \A k \in DOMAIN s.expires : k \in DOMAIN s.val /\ s.expires[k].key = s.val[k].key
Owes(h)    == \A o \in Object : h[o] >= 0   \* it has taken every reference it gives
Frees(s, t) == \A o \in Object : s.ref[o] = 0 => t.ref[o] = 0

(* What is held is known by what it is of each object.                     *)
LEMMA HoldingTheSame ==
  ASSUME NEW s, NEW h \in Debt, Sound(s, h), NEW g \in Debt, \A o \in Object : g[o] = h[o]
  PROVE  Sound(s, g)
BY DEF Sound, Counted

(* What an entry points to is counted.                                     *)
LEMMA PointedIsCounted ==
  ASSUME NEW s, NEW h \in Debt, Sound(s, h), Owes(h)
  PROVE  /\ \A k \in DOMAIN s.val : /\ s.val[k].key \in KeyObject /\ s.val[k].v \in ValueObject
                                    /\ s.ref[s.val[k].key] >= 1 /\ s.ref[s.val[k].v] >= 1
         /\ \A k \in DOMAIN s.expires : /\ s.expires[k].key \in KeyObject
                                        /\ s.ref[s.expires[k].key] >= 1
         /\ \A o \in Object \cap SharedObjects : s.ref[o] >= 1
<1>1. ASSUME NEW o \in Object, Pointers(s, o) >= 1
      PROVE  s.ref[o] >= 1
  <2>1. s.ref[o] = Pointers(s, o) + h[o] /\ s.ref[o] \in Nat
    BY DEF Sound, Counted, Shape
  <2>2. Pointers(s, o) \in Nat /\ h[o] \in Int /\ h[o] >= 0
    BY PointersAreNumbers DEF Sound, Debt, Owes
  <2> QED
    BY <1>1, <2>1, <2>2
<1>2. /\ \A k \in DOMAIN s.val : s.val[k].key \in KeyObject /\ s.val[k].v \in ValueObject
      /\ \A k \in DOMAIN s.expires : s.expires[k].key \in KeyObject
  BY DEF Sound, Shape
<1>3. \A o \in Object :
        /\ \A k \in DOMAIN s.val : s.val[k].key = o \/ s.val[k].v = o => Pointers(s, o) >= 1
        /\ \A k \in DOMAIN s.expires : s.expires[k].key = o => Pointers(s, o) >= 1
        /\ o \in SharedObjects => Pointers(s, o) >= 1
  BY PointersAreNumbers DEF Sound
<1> QED
  BY <1>1, <1>2, <1>3 DEF Object

LEMMA DeleteValueKeeps ==
  ASSUME NEW s, NEW h \in Debt, Sound(s, h), Owes(h), NEW k,
         NEW t, t = DeleteValue(s, k)
  PROVE  /\ Sound(t, h) /\ Frees(s, t) /\ t.expires = s.expires
         /\ DOMAIN t.val = DOMAIN s.val \ {k}
         /\ \A x \in DOMAIN t.val : t.val[x] = s.val[x]
         /\ k \in DOMAIN s.val => t.ref[s.val[k].v] = s.ref[s.val[k].v] - 1
<1>1. CASE k \notin DOMAIN s.val
  BY <1>1 DEF DeleteValue, Frees
<1>2. CASE k \in DOMAIN s.val
  <2> DEFINE key == s.val[k].key
             v   == s.val[k].v
             a   == decrRefCount(s, key)
             b   == decrRefCount(a, v)
             g   == GivesUp(h, key)
             gg  == GivesUp(g, v)
  <2>1. t = DropValue(b, k)
    BY <1>2 DEF DeleteValue, DropValue
  <2>2. /\ key \in KeyObject /\ v \in ValueObject /\ s.ref[key] >= 1 /\ s.ref[v] >= 1
        /\ key \in Object /\ v \in Object /\ key # v
    BY <1>2, PointedIsCounted, ObjectAssumption DEF Object
  <2>3. Sound(a, g) /\ a.ref = [s.ref EXCEPT ![key] = @ - 1]
        /\ a.val = s.val /\ a.expires = s.expires
    BY <2>2, DecrKeeps
  <2>4. g \in Debt /\ gg \in Debt
    BY <2>2, DebtsAreDebts
  <2>5. s.ref \in [Object -> Nat]
    BY DEF Sound, Shape
  <2> HIDE DEF key, v, a, g
  <2>6. a.ref[v] >= 1
    BY <2>2, <2>3, <2>5
  <2>7. Sound(b, gg) /\ b.ref = [a.ref EXCEPT ![v] = @ - 1]
        /\ b.val = a.val /\ b.expires = a.expires
    <3>1. v \in Object /\ Sound(a, g) /\ g \in Debt /\ a.ref[v] >= 1
      BY <2>2, <2>3, <2>4, <2>6
    <3> QED
      BY <3>1, DecrKeeps
  <2> HIDE DEF b, gg
  <2>8. b.val[k].key = key /\ b.val[k].v = v /\ k \in DOMAIN b.val
    BY <1>2, <2>3, <2>7 DEF key, v
  <2>9. Sound(t, Holds(Holds(gg, key), v))
    BY <2>1, <2>4, <2>7, <2>8, DropValueKeeps
  <2>10. /\ t.ref = b.ref /\ t.expires = b.expires /\ t.val = Without(b.val, k)
    BY <2>1, <2>7 DEF DropValue, Sound, Shape
  <2>11. Sound(t, h)
    <3>1. Holds(gg, key) \in Debt /\ Holds(Holds(gg, key), v) \in Debt
      BY <2>2, <2>4, DebtsAreDebts
    <3>2. \A o \in Object : /\ g[o] = h[o] - Is(key, o) /\ gg[o] = g[o] - Is(v, o)
                            /\ Holds(gg, key)[o] = gg[o] + Is(key, o)
                            /\ Holds(Holds(gg, key), v)[o] = Holds(gg, key)[o] + Is(v, o)
      BY <2>2, <2>4, <3>1, DebtsAreDebts DEF g, gg
    <3>3. \A o \in Object : h[o] \in Int /\ Is(key, o) \in Int /\ Is(v, o) \in Int
      BY DEF Debt, Is
    <3>4. \A o \in Object : h[o] = Holds(Holds(gg, key), v)[o]
      BY <3>2, <3>3
    <3> QED
      BY <2>9, <3>1, <3>4, HoldingTheSame
  <2>12. Frees(s, t)
    BY <2>2, <2>3, <2>5, <2>6, <2>7, <2>10 DEF Frees
  <2>13. t.ref[v] = s.ref[v] - 1
    BY <2>2, <2>3, <2>5, <2>7, <2>10
  <2> QED
    BY <2>3, <2>7, <2>10, <2>11, <2>12, <2>13 DEF Without, v
<1> QED
  BY <1>1, <1>2

LEMMA RemoveExpiresKeeps ==
  ASSUME NEW s, NEW h \in Debt, Sound(s, h), Owes(h), NEW k,
         NEW t, t = remove_expires(s, k)
  PROVE  /\ Sound(t, h) /\ Frees(s, t) /\ t.val = s.val
         /\ \A o \in ValueObject : t.ref[o] = s.ref[o]
         /\ DOMAIN t.expires = DOMAIN s.expires \ {k}
         /\ \A x \in DOMAIN t.expires : t.expires[x] = s.expires[x]
<1>1. CASE k \notin DOMAIN s.expires
  BY <1>1 DEF remove_expires, Frees
<1>2. CASE k \in DOMAIN s.expires
  <2> DEFINE key == s.expires[k].key
             a   == decrRefCount(s, key)
             g   == GivesUp(h, key)
  <2>1. t = DropDeadline(a, k)
    BY <1>2 DEF remove_expires, DropDeadline
  <2>2. key \in KeyObject /\ key \in Object /\ s.ref[key] >= 1
    BY <1>2, PointedIsCounted DEF Object
  <2>3. Sound(a, g) /\ a.ref = [s.ref EXCEPT ![key] = @ - 1]
        /\ a.val = s.val /\ a.expires = s.expires
    BY <2>2, DecrKeeps
  <2>4. g \in Debt
    BY <2>2, DebtsAreDebts
  <2>5. s.ref \in [Object -> Nat]
    BY DEF Sound, Shape
  <2> HIDE DEF key, a, g
  <2>6. a.expires[k].key = key /\ k \in DOMAIN a.expires
    BY <1>2, <2>3 DEF key
  <2>7. Sound(t, Holds(g, key))
    BY <2>1, <2>3, <2>4, <2>6, DropDeadlineKeeps
  <2>8. /\ t.ref = a.ref /\ t.val = a.val /\ t.expires = Without(a.expires, k)
    BY <2>1, <2>3 DEF DropDeadline, Sound, Shape
  <2>9. Sound(t, h)
    <3>1. Holds(g, key) \in Debt
      BY <2>2, <2>4, DebtsAreDebts
    <3>2. \A o \in Object : g[o] = h[o] - Is(key, o) /\ Holds(g, key)[o] = g[o] + Is(key, o)
      BY <2>2, <2>4, <3>1, DebtsAreDebts DEF g
    <3>3. \A o \in Object : h[o] \in Int /\ Is(key, o) \in Int
      BY DEF Debt, Is
    <3>4. \A o \in Object : h[o] = Holds(g, key)[o]
      BY <3>2, <3>3
    <3> QED
      BY <2>7, <3>1, <3>4, HoldingTheSame
  <2>10. Frees(s, t)
    BY <2>2, <2>3, <2>5, <2>8 DEF Frees
  <2>11. \A o \in ValueObject : t.ref[o] = s.ref[o]
    BY <2>2, <2>3, <2>5, <2>8, ObjectAssumption DEF Object
  <2> QED
    BY <2>3, <2>8, <2>9, <2>10, <2>11 DEF Without
<1> QED
  BY <1>1, <1>2

(* Between two commands what is held is what has been lost.                *)
Good(s) == Sound(s, Lost(s)) /\ Owes(Lost(s)) /\ Coupled(s)

LEMMA LostIsExact ==
  ASSUME NEW s, Shape(s)
  PROVE  /\ Lost(s) \in Debt /\ Counted(s, Lost(s))
         /\ \A h \in Debt : Counted(s, h) => h = Lost(s)
<1>1. \A o \in Object : s.ref[o] \in Nat /\ Pointers(s, o) \in Nat
  BY PointersAreNumbers DEF Shape
<1>2. Lost(s) \in Debt
  BY <1>1 DEF Lost, Debt
<1>3. Counted(s, Lost(s))
  BY <1>1 DEF Lost, Counted
<1>4. ASSUME NEW h \in Debt, Counted(s, h)
      PROVE  h = Lost(s)
  <2>1. \A o \in Object : s.ref[o] = Pointers(s, o) + h[o] /\ h[o] \in Int
    BY <1>4 DEF Counted, Debt
  <2>2. \A o \in Object : h[o] = s.ref[o] - Pointers(s, o)
    BY <1>1, <2>1
  <2> QED
    BY <2>2 DEF Debt, Lost
<1> QED
  BY <1>2, <1>3, <1>4

(* A command begins with a debt of what was lost, and owes nothing more.   *)
LEMMA GoodIsOwed ==
  ASSUME NEW s, Good(s)
  PROVE  /\ Lost(s) \in Debt /\ Owes(Lost(s)) /\ Sound(s, Lost(s)) /\ Coupled(s)
         /\ \A o \in Object : Holds(Lost(s), o) \in Debt /\ Owes(Holds(Lost(s), o))
<1>1. Lost(s) \in Debt /\ Owes(Lost(s)) /\ Sound(s, Lost(s)) /\ Coupled(s)
  BY LostIsExact DEF Good, Sound
<1>2. ASSUME NEW o \in Object
      PROVE  Holds(Lost(s), o) \in Debt /\ Owes(Holds(Lost(s), o))
  <2>1. /\ Holds(Lost(s), o) \in Debt
        /\ \A p \in Object : Holds(Lost(s), o)[p] = Lost(s)[p] + Is(o, p)
    BY <1>1, DebtsAreDebts
  <2>2. \A p \in Object : Lost(s)[p] \in Int /\ Lost(s)[p] >= 0 /\ Is(o, p) \in {0, 1}
    BY <1>1 DEF Owes, Debt, Is
  <2> QED
    BY <2>1, <2>2 DEF Owes
<1> QED
  BY <1>1, <1>2

(* It ends with what it then owes lost.                                    *)
LEMMA Settles ==
  ASSUME NEW t, NEW h \in Debt, Sound(t, h), Owes(h), Coupled(t)
  PROVE  Good(t) /\ Lost(t) = h
<1>1. h = Lost(t)
  BY LostIsExact DEF Sound
<1> QED
  BY <1>1 DEF Good

LEMMA CheckExpiresKeeps ==
  ASSUME NEW s, Good(s), NEW k, NEW t, t = check_expires(s, k)
  PROVE  /\ Good(t) /\ Lost(t) = Lost(s) /\ Frees(s, t)
         /\ Expired(s, k) => k \notin DOMAIN t.val
         /\ ~Expired(s, k) => t = s
<1> DEFINE L == Lost(s)
<1>0. L \in Debt /\ Owes(L) /\ Sound(s, L) /\ Coupled(s)
  BY GoodIsOwed
<1> HIDE DEF L
<1>1. CASE ~Expired(s, k)
  BY <1>1 DEF check_expires, Frees
<1>2. CASE Expired(s, k)
  <2> DEFINE a == remove_expires(s, k)
  <2>1. t = DeleteValue(a, k)
    BY <1>2 DEF check_expires
  <2>2. /\ Sound(a, L) /\ Frees(s, a) /\ a.val = s.val
        /\ DOMAIN a.expires = DOMAIN s.expires \ {k}
        /\ \A x \in DOMAIN a.expires : a.expires[x] = s.expires[x]
    BY <1>0, RemoveExpiresKeeps
  <2> HIDE DEF a
  <2>3. /\ Sound(t, L) /\ Frees(a, t) /\ t.expires = a.expires
        /\ DOMAIN t.val = DOMAIN a.val \ {k}
        /\ \A x \in DOMAIN t.val : t.val[x] = a.val[x]
    BY <1>0, <2>1, <2>2, DeleteValueKeeps
  <2>4. Coupled(t)
    BY <1>0, <2>2, <2>3 DEF Coupled
  <2>5. Frees(s, t)
    BY <2>2, <2>3 DEF Frees
  <2>6. Good(t) /\ Lost(t) = L
    BY <1>0, <2>3, <2>4, Settles
  <2> QED
    BY <1>2, <2>2, <2>3, <2>5, <2>6 DEF L
<1> QED
  BY <1>1, <1>2

LEMMA DeleteKeyKeeps ==
  ASSUME NEW s, Good(s), NEW k, NEW t, t = delete_key(s, k)
  PROVE  /\ Good(t) /\ Lost(t) = Lost(s) /\ Frees(s, t)
         /\ DOMAIN t.val = DOMAIN s.val \ {k}
         /\ \A x \in DOMAIN t.val : t.val[x] = s.val[x]
         /\ k \in DOMAIN s.val => t.ref[s.val[k].v] = s.ref[s.val[k].v] - 1
<1> DEFINE L == Lost(s)
<1>0. L \in Debt /\ Owes(L) /\ Sound(s, L) /\ Coupled(s)
  BY GoodIsOwed
<1> HIDE DEF L
<1>1. CASE k \notin DOMAIN s.val
  BY <1>1 DEF delete_key, Frees
<1>2. CASE k \in DOMAIN s.val
  <2> DEFINE a == DeleteValue(s, k)
  <2>1. t = remove_expires(a, k)
    BY <1>2 DEF delete_key
  <2>2. /\ Sound(a, L) /\ Frees(s, a) /\ a.expires = s.expires
        /\ DOMAIN a.val = DOMAIN s.val \ {k}
        /\ \A x \in DOMAIN a.val : a.val[x] = s.val[x]
        /\ a.ref[s.val[k].v] = s.ref[s.val[k].v] - 1
    BY <1>0, <1>2, DeleteValueKeeps
  <2> HIDE DEF a
  <2>3. /\ Sound(t, L) /\ Frees(a, t) /\ t.val = a.val
        /\ DOMAIN t.expires = DOMAIN a.expires \ {k}
        /\ \A x \in DOMAIN t.expires : t.expires[x] = a.expires[x]
        /\ \A o \in ValueObject : t.ref[o] = a.ref[o]
    BY <1>0, <2>1, <2>2, RemoveExpiresKeeps
  <2>4. Coupled(t)
    BY <1>0, <2>2, <2>3 DEF Coupled
  <2>5. Frees(s, t)
    BY <2>2, <2>3 DEF Frees
  <2>6. s.val[k].v \in ValueObject
    BY <1>0, <1>2 DEF Sound, Shape
  <2>7. Good(t) /\ Lost(t) = L
    BY <1>0, <2>3, <2>4, Settles
  <2> QED
    BY <2>2, <2>3, <2>5, <2>6, <2>7 DEF L
<1> QED
  BY <1>1, <1>2

(* The allocator has an object left. *)
KeyLeft(s)   == \E o \in KeyObject : s.ref[o] = 0
ValueLeft(s) == \E o \in ValueObject : s.ref[o] = 0

LEMMA NewObjects ==
  ASSUME NEW s
  PROVE  /\ KeyLeft(s) => NewKey(s) \in KeyObject /\ s.ref[NewKey(s)] = 0
         /\ ValueLeft(s) => NewValue(s) \in ValueObject /\ s.ref[NewValue(s)] = 0
BY DEF KeyLeft, ValueLeft, NewKey, NewValue

LEMMA LeftAfterFrees ==
  ASSUME NEW s, NEW t, Frees(s, t)
  PROVE  (KeyLeft(s) => KeyLeft(t)) /\ (ValueLeft(s) => ValueLeft(t))
BY DEF Frees, KeyLeft, ValueLeft, Object

LEMMA ObtainKeeps ==
  ASSUME NEW s, NEW h \in Debt, Sound(s, h), Owes(h), ValueLeft(s),
         NEW x \in Content, x # "freed",
         NEW t, t = Obtain(s, x), NEW v, v = Obtained(s, x)
  PROVE  /\ v \in ValueObject /\ Sound(t, Holds(h, v))
         /\ t.val = s.val /\ t.expires = s.expires
         /\ \A o \in Object : t.ref[o] >= s.ref[o]
<1>0. s.ref \in [Object -> Nat]
  BY DEF Sound, Shape
<1>1. CASE x \in SharedText
  <2>1. t = incrRefCount(s, v) /\ v = SharedObject[x]
    BY <1>1 DEF Obtain, Obtained
  <2>2. v \in ValueObject /\ v \in Object /\ v \in SharedObjects
    BY <1>1, <2>1, SharedAssumption DEF SharedObjects, Object
  <2>3. s.ref[v] >= 1
    BY <2>2, PointedIsCounted
  <2>4. /\ Sound(t, Holds(h, v)) /\ t.val = s.val /\ t.expires = s.expires
        /\ t.ref = [s.ref EXCEPT ![v] = @ + 1]
    BY <2>1, <2>2, <2>3, IncrKeeps
  <2>5. \A o \in Object : t.ref[o] >= s.ref[o]
    BY <1>0, <2>2, <2>4
  <2> QED
    BY <2>2, <2>4, <2>5
<1>2. CASE x \notin SharedText
  <2>1. t = CreateValue(s, v, x) /\ v = NewValue(s)
    BY <1>2 DEF Obtain, Obtained
  <2>2. v \in ValueObject /\ v \in Object /\ s.ref[v] = 0
    BY <2>1, NewObjects DEF Object
  <2>3. /\ Sound(t, Holds(h, v)) /\ t.val = s.val /\ t.expires = s.expires
        /\ t.ref = [s.ref EXCEPT ![v] = 1]
    BY <2>1, <2>2, CreateValueKeeps
  <2>4. \A o \in Object : t.ref[o] >= s.ref[o]
    BY <1>0, <2>2, <2>3
  <2> QED
    BY <2>2, <2>3, <2>4
<1> QED
  BY <1>1, <1>2

(* set_value, called with a key object the command holds, leaves it held.  *)
LEMMA SetValueOverKeeps ==
  ASSUME NEW s, NEW h \in Debt, Sound(s, h), Owes(h), Coupled(s), ValueLeft(s),
         NEW k \in DOMAIN s.val, NEW key \in KeyObject,
         NEW x \in Content, x # "freed", NEW t, t = set_value(s, k, key, x)
  PROVE  Sound(t, h) /\ Coupled(t)
<1> DEFINE bare  == remove_expires(s, k)
           value == Obtained(bare, x)
           held  == Obtain(bare, x)
           old   == s.val[k].v
           drop  == decrRefCount(held, old)
           g     == Holds(h, value)
           gg    == GivesUp(g, old)
<1>1. t = PutValue(drop, k, value)
  BY DEF set_value, PutValue
<1>2. /\ Sound(bare, h) /\ Frees(s, bare) /\ bare.val = s.val
      /\ \A o \in ValueObject : bare.ref[o] = s.ref[o]
      /\ DOMAIN bare.expires = DOMAIN s.expires \ {k}
      /\ \A y \in DOMAIN bare.expires : bare.expires[y] = s.expires[y]
  BY RemoveExpiresKeeps
<1>3. ValueLeft(bare)
  BY <1>2, LeftAfterFrees
<1>4. old \in ValueObject /\ old \in Object /\ bare.ref[old] >= 1
  BY <1>2, PointedIsCounted DEF Object
<1> HIDE DEF bare, old
<1>5. /\ value \in ValueObject /\ Sound(held, g)
      /\ held.val = bare.val /\ held.expires = bare.expires
      /\ \A o \in Object : held.ref[o] >= bare.ref[o]
  BY <1>2, <1>3, ObtainKeeps
<1> HIDE DEF value, held
<1>6. value \in Object /\ g \in Debt /\ gg \in Debt
  BY <1>4, <1>5, DebtsAreDebts DEF Object
<1>7. held.ref[old] >= 1
  BY <1>2, <1>4, <1>5 DEF Sound, Shape
<1> HIDE DEF g
<1>8. /\ Sound(drop, gg) /\ drop.val = held.val /\ drop.expires = held.expires
      /\ drop.ref = [held.ref EXCEPT ![old] = @ - 1]
  <2>1. Sound(held, g) /\ g \in Debt /\ old \in Object /\ held.ref[old] >= 1
    BY <1>4, <1>5, <1>6, <1>7
  <2> QED
    BY <2>1, DecrKeeps
<1> HIDE DEF drop, gg
<1>9. drop.val[k].v = old /\ k \in DOMAIN drop.val
  BY <1>2, <1>5, <1>8 DEF old
<1>10. Sound(t, GivesUp(Holds(gg, old), value))
  BY <1>1, <1>5, <1>6, <1>8, <1>9, PutValueKeeps
<1>11. Sound(t, h)
  <2>1. Holds(gg, old) \in Debt /\ GivesUp(Holds(gg, old), value) \in Debt
    BY <1>4, <1>6, DebtsAreDebts
  <2>2. \A o \in Object : /\ g[o] = h[o] + Is(value, o) /\ gg[o] = g[o] - Is(old, o)
                          /\ Holds(gg, old)[o] = gg[o] + Is(old, o)
                          /\ GivesUp(Holds(gg, old), value)[o] = Holds(gg, old)[o] - Is(value, o)
    BY <1>4, <1>6, <2>1, DebtsAreDebts DEF g, gg
  <2>3. \A o \in Object : h[o] \in Int /\ Is(value, o) \in Int /\ Is(old, o) \in Int
    BY DEF Debt, Is
  <2>4. \A o \in Object : h[o] = GivesUp(Holds(gg, old), value)[o]
    BY <2>2, <2>3
  <2> QED
    BY <1>10, <2>1, <2>4, HoldingTheSame
<1>12. /\ t.expires = drop.expires /\ DOMAIN t.val = DOMAIN drop.val
       /\ \A y \in DOMAIN drop.val : t.val[y].key = drop.val[y].key
  <2>1. /\ t.expires = drop.expires
        /\ t.val = [drop.val EXCEPT ![k] = [drop.val[k] EXCEPT !.v = value]]
    BY <1>1, <1>8 DEF PutValue, Sound, Shape
  <2>2. drop.val[k] \in [key : KeyObject, v : ValueObject]
    BY <1>8, <1>9 DEF Sound, Shape
  <2> QED
    BY <2>1, <2>2
<1>13. Coupled(t)
  BY <1>2, <1>5, <1>8, <1>12 DEF Coupled
<1> QED
  BY <1>11, <1>13

LEMMA SetValueNewKeeps ==
  ASSUME NEW s, NEW h \in Debt, Sound(s, h), Owes(h), Coupled(s), ValueLeft(s),
         NEW k \in Name, k \notin DOMAIN s.val,
         NEW key \in KeyObject, s.ref[key] >= 1,
         NEW x \in Content, x # "freed", NEW t, t = set_value(s, k, key, x)
  PROVE  Sound(t, h) /\ Coupled(t)
<1> DEFINE value == Obtained(s, x)
           held  == Obtain(s, x)
           twice == incrRefCount(held, key)
           e     == [key |-> key, v |-> value]
           g     == Holds(h, value)
           gg    == Holds(g, key)
<1>1. t = AddValue(twice, k, e)
  BY DEF set_value, AddValue
<1>2. /\ value \in ValueObject /\ Sound(held, g) /\ held.val = s.val /\ held.expires = s.expires
  BY ObtainKeeps
<1> HIDE DEF value, held
<1>3. value \in Object /\ key \in Object /\ g \in Debt /\ gg \in Debt
  BY <1>2, DebtsAreDebts DEF Object
<1> HIDE DEF g
<1>4. key \notin ValueObject
  BY ObjectAssumption
<1>5. /\ Sound(twice, gg) /\ twice.val = held.val /\ twice.expires = held.expires
      /\ twice.ref = [held.ref EXCEPT ![key] = @ + 1]
  <2>1. Sound(held, g) /\ g \in Debt /\ key \in Object /\ key \notin ValueObject
    BY <1>2, <1>3, <1>4
  <2> QED
    BY <2>1, IncrKeeps
<1> HIDE DEF twice, gg
<1>6. e \in [key : KeyObject, v : ValueObject] /\ e.key = key /\ e.v = value
  BY <1>2
<1>7. k \notin DOMAIN twice.val
  BY <1>2, <1>5
<1> HIDE DEF e
<1>8. Sound(t, GivesUp(GivesUp(gg, e.key), e.v))
  BY <1>1, <1>3, <1>5, <1>6, <1>7, AddValueKeeps
<1>9. Sound(t, h)
  <2>1. GivesUp(gg, key) \in Debt /\ GivesUp(GivesUp(gg, key), value) \in Debt
    BY <1>3, DebtsAreDebts
  <2>2. \A o \in Object : /\ g[o] = h[o] + Is(value, o) /\ gg[o] = g[o] + Is(key, o)
                          /\ GivesUp(gg, key)[o] = gg[o] - Is(key, o)
                          /\ GivesUp(GivesUp(gg, key), value)[o] = GivesUp(gg, key)[o] - Is(value, o)
    BY <1>3, <2>1, DebtsAreDebts DEF g, gg
  <2>3. \A o \in Object : h[o] \in Int /\ Is(value, o) \in Int /\ Is(key, o) \in Int
    BY DEF Debt, Is
  <2>4. \A o \in Object : h[o] = GivesUp(GivesUp(gg, key), value)[o]
    BY <2>2, <2>3
  <2> QED
    BY <1>6, <1>8, <2>1, <2>4, HoldingTheSame
<1>10. t.expires = twice.expires /\ t.val = With(twice.val, k, e)
  BY <1>1, <1>5 DEF AddValue, Sound, Shape
<1>11. Coupled(t)
  BY <1>2, <1>5, <1>7, <1>10 DEF Coupled, With
<1> QED
  BY <1>9, <1>11

LEMMA SetValueKeeps ==
  ASSUME NEW s, Good(s), KeyLeft(s), ValueLeft(s), NEW k \in Name,
         NEW x \in Content, x # "freed", NEW t, t = SetValue(s, k, x)
  PROVE  Good(t) /\ Lost(t) = Lost(s)
<1> DEFINE key == NewKey(s)
           a   == CreateKey(s, key)
           b   == set_value(a, k, key, x)
           L   == Lost(s)
           h   == Holds(L, key)
<1>0. L \in Debt /\ Owes(L) /\ Sound(s, L) /\ Coupled(s)
      /\ \A o \in Object : Holds(L, o) \in Debt /\ Owes(Holds(L, o))
  BY GoodIsOwed
<1> HIDE DEF L
<1>1. t = decrRefCount(b, key)
  BY DEF SetValue
<1>2. key \in KeyObject /\ key \in Object /\ s.ref[key] = 0 /\ key \notin ValueObject
  BY NewObjects, ObjectAssumption DEF Object
<1>3. h \in Debt /\ Owes(h) /\ h[key] >= 1
  <2>1. h \in Debt /\ Owes(h) /\ h[key] = L[key] + Is(key, key)
    BY <1>0, <1>2, DebtsAreDebts
  <2>2. L[key] \in Int /\ L[key] >= 0
    BY <1>0, <1>2 DEF Debt, Owes
  <2> QED
    BY <2>1, <2>2 DEF Is
<1> HIDE DEF key
<1>4. /\ Sound(a, h) /\ a.val = s.val /\ a.expires = s.expires
      /\ a.ref = [s.ref EXCEPT ![key] = 1]
  BY <1>0, <1>2, CreateKeyKeeps
<1>5. a.ref[key] >= 1 /\ ValueLeft(a) /\ Coupled(a)
  <2>1. s.ref \in [Object -> Nat]
    BY <1>0 DEF Sound, Shape
  <2> QED
    BY <1>0, <1>2, <1>4, <2>1 DEF ValueLeft, Coupled, Object
<1> HIDE DEF a, h
<1>6. Sound(b, h) /\ Coupled(b)
  <2>1. CASE k \in DOMAIN a.val
    BY <1>2, <1>3, <1>4, <1>5, <2>1, SetValueOverKeeps
  <2>2. CASE k \notin DOMAIN a.val
    BY <1>2, <1>3, <1>4, <1>5, <2>2, SetValueNewKeeps
  <2> QED
    BY <2>1, <2>2
<1> HIDE DEF b
<1>7. b.ref[key] >= 1
  <2>1. b.ref[key] = Pointers(b, key) + h[key] /\ b.ref[key] \in Nat
    BY <1>2, <1>6 DEF Sound, Counted, Shape
  <2>2. Pointers(b, key) \in Nat
    BY <1>2, <1>6, PointersAreNumbers DEF Sound
  <2>3. h[key] \in Int
    BY <1>2, <1>3 DEF Debt
  <2> QED
    BY <1>3, <2>1, <2>2, <2>3
<1>8. /\ Sound(t, GivesUp(h, key)) /\ t.val = b.val /\ t.expires = b.expires
      /\ t.ref = [b.ref EXCEPT ![key] = @ - 1]
  <2>1. Sound(b, h) /\ h \in Debt /\ key \in Object /\ b.ref[key] >= 1
    BY <1>2, <1>3, <1>6, <1>7
  <2> QED
    BY <1>1, <2>1, DecrKeeps
<1>9. Sound(t, L)
  <2>1. GivesUp(h, key) \in Debt
    BY <1>2, <1>3, DebtsAreDebts
  <2>2. \A o \in Object : /\ h[o] = L[o] + Is(key, o)
                          /\ GivesUp(h, key)[o] = h[o] - Is(key, o)
    BY <1>0, <1>2, <1>3, DebtsAreDebts DEF h
  <2>3. \A o \in Object : L[o] \in Int /\ Is(key, o) \in Int
    BY <1>0 DEF Debt, Is
  <2>4. \A o \in Object : L[o] = GivesUp(h, key)[o]
    BY <2>2, <2>3
  <2> QED
    BY <1>0, <1>8, <2>1, <2>4, HoldingTheSame
<1>10. Coupled(t)
  BY <1>6, <1>8 DEF Coupled
<1> QED
  BY <1>0, <1>9, <1>10, Settles DEF L

LEMMA SetExpiresKeeps ==
  ASSUME NEW s, Good(s), NEW k \in DOMAIN s.val, NEW when \in Deadline,
         NEW t, t = set_expires(s, k, when)
  PROVE  /\ Good(t)
         /\ k \notin DOMAIN s.expires => Lost(t) = Lost(s)
<1> DEFINE key == s.val[k].key
           a   == incrRefCount(s, key)
           L   == Lost(s)
           h   == Holds(L, key)
           e   == [key |-> key, when |-> when]
<1>0. L \in Debt /\ Owes(L) /\ Sound(s, L) /\ Coupled(s)
      /\ \A o \in Object : Holds(L, o) \in Debt /\ Owes(Holds(L, o))
  BY GoodIsOwed
<1> HIDE DEF L
<1>1. key \in KeyObject /\ key \in Object /\ key \notin ValueObject
  BY <1>0, ObjectAssumption DEF Sound, Shape, Object
<1> HIDE DEF key
<1>2. h \in Debt /\ Owes(h) /\ \A o \in Object : h[o] = L[o] + Is(key, o)
  BY <1>0, <1>1, DebtsAreDebts
<1>3. /\ Sound(a, h) /\ a.val = s.val /\ a.expires = s.expires
      /\ a.ref = [s.ref EXCEPT ![key] = @ + 1]
  BY <1>0, <1>1, IncrKeeps
<1> HIDE DEF a, h
<1>4. \A o \in Object : L[o] \in Int /\ Is(key, o) \in Int
  BY <1>0 DEF Debt, Is
<1>5. CASE k \in DOMAIN s.expires
  <2>1. t = a
    BY <1>5 DEF set_expires, a, key
  <2>2. Coupled(t)
    BY <1>0, <1>3, <2>1 DEF Coupled
  <2> QED
    BY <1>2, <1>3, <1>5, <2>1, <2>2, Settles
<1>6. CASE k \notin DOMAIN s.expires
  <2>1. t = AddDeadline(a, k, e)
    BY <1>6 DEF set_expires, AddDeadline, a, key
  <2>2. e \in [key : KeyObject, when : Deadline] /\ e.key = key
    BY <1>1
  <2>3. k \in Name /\ k \notin DOMAIN a.expires
    BY <1>0, <1>3, <1>6 DEF Sound, Shape
  <2> HIDE DEF e
  <2>4. Sound(t, GivesUp(h, e.key))
    BY <1>2, <1>3, <2>1, <2>2, <2>3, AddDeadlineKeeps
  <2>5. Sound(t, L)
    <3>1. GivesUp(h, key) \in Debt /\ \A o \in Object : GivesUp(h, key)[o] = h[o] - Is(key, o)
      BY <1>1, <1>2, DebtsAreDebts
    <3>2. \A o \in Object : L[o] = GivesUp(h, key)[o]
      BY <1>2, <1>4, <3>1
    <3> QED
      BY <1>0, <2>2, <2>4, <3>1, <3>2, HoldingTheSame
  <2>6. t.expires = With(a.expires, k, e) /\ t.val = a.val
    BY <1>3, <2>1 DEF AddDeadline, Sound, Shape
  <2>7. Coupled(t)
    BY <1>0, <1>3, <2>2, <2>6 DEF Coupled, With, key
  <2> QED
    BY <1>0, <2>5, <2>7, Settles DEF L
<1> QED
  BY <1>5, <1>6

(* rename moves the value: the entry of the new name may point to it before *)
(* the count goes up, since the old entry still does - or something else,   *)
(* when the two names are one.                                              *)
LEMMA RenameKeeps ==
  ASSUME NEW s, Good(s), KeyLeft(s), NEW k \in DOMAIN s.val, NEW l \in Name,
         k # l \/ s.ref[s.val[k].v] > 1, NEW t, t = Rename(s, k, l)
  PROVE  Good(t) /\ Lost(t) = Lost(s)
<1> DEFINE v     == s.val[k].v
           clear == delete_key(s, l)
           key   == NewKey(clear)
           a     == CreateKey(clear, key)
           e     == [key |-> key, v |-> v]
           named == AddValue(a, l, e)
           c     == incrRefCount(named, v)
           L     == Lost(clear)
           h     == Holds(L, key)
           g     == GivesUp(h, key)
           gg    == GivesUp(g, v)
<1>1. t = delete_key(c, k)
  BY DEF Rename, AddValue
<1>2. /\ Good(clear) /\ L = Lost(s) /\ Frees(s, clear)
      /\ DOMAIN clear.val = DOMAIN s.val \ {l}
      /\ \A x \in DOMAIN clear.val : clear.val[x] = s.val[x]
      /\ l \in DOMAIN s.val => clear.ref[s.val[l].v] = s.ref[s.val[l].v] - 1
  BY DeleteKeyKeeps
<1>0. L \in Debt /\ Owes(L) /\ Sound(clear, L) /\ Coupled(clear)
      /\ \A o \in Object : Holds(L, o) \in Debt /\ Owes(Holds(L, o))
  BY <1>2, GoodIsOwed
<1>3. v \in ValueObject /\ v \in Object
  BY DEF Good, Sound, Shape, Object
<1>4. KeyLeft(clear)
  BY <1>2, LeftAfterFrees
<1> HIDE DEF clear, v, L
<1>5. clear.ref[v] >= 1
  <2>1. CASE k # l
    <3>1. k \in DOMAIN clear.val /\ clear.val[k].v = v
      BY <1>2, <2>1 DEF v
    <3> QED
      BY <1>0, <3>1, PointedIsCounted
  <2>2. CASE k = l
    <3>1. clear.ref[v] = s.ref[v] - 1 /\ s.ref[v] > 1
      BY <1>2, <2>2 DEF v
    <3>2. s.ref[v] \in Nat
      BY <1>3 DEF Good, Sound, Shape
    <3> QED
      BY <3>1, <3>2
  <2> QED
    BY <2>1, <2>2
<1>6. key \in KeyObject /\ key \in Object /\ clear.ref[key] = 0 /\ key # v
  BY <1>3, <1>4, NewObjects, ObjectAssumption DEF Object
<1> HIDE DEF key
<1>7. h \in Debt /\ g \in Debt /\ gg \in Debt
  BY <1>0, <1>3, <1>6, DebtsAreDebts
<1>8. /\ Sound(a, h) /\ a.val = clear.val /\ a.expires = clear.expires
      /\ a.ref = [clear.ref EXCEPT ![key] = 1]
  BY <1>0, <1>6, CreateKeyKeeps
<1>9. e \in [key : KeyObject, v : ValueObject] /\ e.key = key /\ e.v = v /\ l \notin DOMAIN a.val
  BY <1>2, <1>3, <1>6, <1>8
<1> HIDE DEF a, e, h
<1>10. Sound(named, GivesUp(GivesUp(h, e.key), e.v))
  BY <1>7, <1>8, <1>9, AddValueKeeps
<1>11. named.val = With(a.val, l, e) /\ named.expires = a.expires /\ named.ref = a.ref
  BY <1>8 DEF AddValue, Sound, Shape
<1>12. Sound(named, gg) /\ named.ref[v] >= 1
  BY <1>3, <1>5, <1>6, <1>8, <1>9, <1>10, <1>11
<1> HIDE DEF named, g, gg
<1>13. /\ Sound(c, Holds(gg, v)) /\ c.val = named.val /\ c.expires = named.expires
       /\ c.ref = [named.ref EXCEPT ![v] = @ + 1]
  BY <1>3, <1>7, <1>12, IncrKeeps
<1> HIDE DEF c
<1>14. Sound(c, L)
  <2>1. Holds(gg, v) \in Debt
    BY <1>3, <1>7, DebtsAreDebts
  <2>2. \A o \in Object : /\ h[o] = L[o] + Is(key, o) /\ g[o] = h[o] - Is(key, o)
                          /\ gg[o] = g[o] - Is(v, o) /\ Holds(gg, v)[o] = gg[o] + Is(v, o)
    BY <1>0, <1>3, <1>6, <1>7, DebtsAreDebts DEF h, g, gg
  <2>3. \A o \in Object : L[o] \in Int /\ Is(key, o) \in Int /\ Is(v, o) \in Int
    BY <1>0 DEF Debt, Is
  <2>4. \A o \in Object : L[o] = Holds(gg, v)[o]
    BY <2>2, <2>3
  <2> QED
    BY <1>0, <1>13, <2>1, <2>4, HoldingTheSame
<1>15. Coupled(c)
  BY <1>0, <1>2, <1>8, <1>11, <1>13 DEF Coupled, With
<1>16. Good(c) /\ Lost(c) = L
  BY <1>0, <1>14, <1>15, Settles
<1> QED
  BY <1>1, <1>2, <1>16, DeleteKeyKeeps

(* getset puts a new object in the place of the old one.                   *)
LEMMA GetsetKeeps ==
  ASSUME NEW s, Good(s), ValueLeft(s), NEW k \in DOMAIN s.val, NEW x \in Content, x # "freed",
         NEW v, v = NewValue(s),
         NEW t, t = PutValue(decrRefCount(CreateValue(s, v, x), s.val[k].v), k, v)
  PROVE  Good(t) /\ Lost(t) = Lost(s)
<1> DEFINE old  == s.val[k].v
           a    == CreateValue(s, v, x)
           drop == decrRefCount(a, old)
           L    == Lost(s)
           h    == Holds(L, v)
           g    == GivesUp(h, old)
<1>0. L \in Debt /\ Owes(L) /\ Sound(s, L) /\ Coupled(s)
      /\ \A o \in Object : Holds(L, o) \in Debt /\ Owes(Holds(L, o))
  BY GoodIsOwed
<1> HIDE DEF L
<1>1. v \in ValueObject /\ v \in Object /\ s.ref[v] = 0
  BY NewObjects DEF Object
<1>2. old \in ValueObject /\ old \in Object /\ s.ref[old] >= 1
  BY <1>0, PointedIsCounted DEF Object
<1> HIDE DEF old
<1>3. h \in Debt /\ g \in Debt
  BY <1>0, <1>1, <1>2, DebtsAreDebts
<1>4. /\ Sound(a, h) /\ a.val = s.val /\ a.expires = s.expires
      /\ a.ref = [s.ref EXCEPT ![v] = 1]
  BY <1>0, <1>1, CreateValueKeeps
<1>5. a.ref[old] >= 1
  BY <1>0, <1>1, <1>2, <1>4 DEF Sound, Shape
<1> HIDE DEF a, h
<1>6. /\ Sound(drop, g) /\ drop.val = a.val /\ drop.expires = a.expires
      /\ drop.ref = [a.ref EXCEPT ![old] = @ - 1]
  <2>1. Sound(a, h) /\ h \in Debt /\ old \in Object /\ a.ref[old] >= 1
    BY <1>2, <1>3, <1>4, <1>5
  <2> QED
    BY <2>1, DecrKeeps
<1>7. t = PutValue(drop, k, v)
  BY DEF old, a
<1> HIDE DEF drop, g
<1>8. drop.val[k].v = old /\ k \in DOMAIN drop.val
  BY <1>4, <1>6 DEF old
<1>9. Sound(t, GivesUp(Holds(g, old), v))
  BY <1>1, <1>3, <1>6, <1>7, <1>8, PutValueKeeps
<1>10. Sound(t, L)
  <2>1. Holds(g, old) \in Debt /\ GivesUp(Holds(g, old), v) \in Debt
    BY <1>1, <1>2, <1>3, DebtsAreDebts
  <2>2. \A o \in Object : /\ h[o] = L[o] + Is(v, o) /\ g[o] = h[o] - Is(old, o)
                          /\ Holds(g, old)[o] = g[o] + Is(old, o)
                          /\ GivesUp(Holds(g, old), v)[o] = Holds(g, old)[o] - Is(v, o)
    <3>1. \A o \in Object : h[o] = L[o] + Is(v, o)
      BY <1>0, <1>1, DebtsAreDebts DEF h
    <3>2. \A o \in Object : g[o] = h[o] - Is(old, o)
      BY <1>2, <1>3, DebtsAreDebts DEF g
    <3>3. \A o \in Object : Holds(g, old)[o] = g[o] + Is(old, o)
      BY <1>2, <1>3, DebtsAreDebts
    <3>4. \A o \in Object : GivesUp(Holds(g, old), v)[o] = Holds(g, old)[o] - Is(v, o)
      BY <1>1, <2>1, DebtsAreDebts
    <3> QED
      BY <3>1, <3>2, <3>3, <3>4
  <2>3. \A o \in Object : L[o] \in Int /\ Is(v, o) \in Int /\ Is(old, o) \in Int
    BY <1>0 DEF Debt, Is
  <2>4. \A o \in Object : L[o] = GivesUp(Holds(g, old), v)[o]
    BY <2>2, <2>3
  <2> QED
    BY <1>0, <1>9, <2>1, <2>4, HoldingTheSame
<1>11. /\ t.expires = drop.expires /\ DOMAIN t.val = DOMAIN drop.val
       /\ \A y \in DOMAIN drop.val : t.val[y].key = drop.val[y].key
  <2>1. /\ t.expires = drop.expires
        /\ t.val = [drop.val EXCEPT ![k] = [drop.val[k] EXCEPT !.v = v]]
    BY <1>6, <1>7 DEF PutValue, Sound, Shape
  <2>2. drop.val[k] \in [key : KeyObject, v : ValueObject]
    BY <1>6, <1>8 DEF Sound, Shape
  <2> QED
    BY <2>1, <2>2
<1>12. Coupled(t)
  BY <1>0, <1>4, <1>6, <1>11 DEF Coupled
<1> QED
  BY <1>0, <1>10, <1>12, Settles DEF L

(* A key object nobody gives back is a leak, and harmless.                 *)
LEMMA LeakKeeps ==
  ASSUME NEW s, Good(s), KeyLeft(s), NEW t, t = CreateKey(s, NewKey(s))
  PROVE  Good(t)
<1> DEFINE key == NewKey(s)
           L   == Lost(s)
           h   == Holds(L, key)
<1>0. L \in Debt /\ Owes(L) /\ Sound(s, L) /\ Coupled(s)
      /\ \A o \in Object : Holds(L, o) \in Debt /\ Owes(Holds(L, o))
  BY GoodIsOwed
<1> HIDE DEF L
<1>1. key \in KeyObject /\ key \in Object /\ s.ref[key] = 0 /\ t = CreateKey(s, key)
  BY NewObjects DEF Object
<1> HIDE DEF key
<1>2. h \in Debt /\ Owes(h)
  BY <1>0, <1>1
<1>3. /\ Sound(t, h) /\ t.val = s.val /\ t.expires = s.expires
      /\ t.ref = [s.ref EXCEPT ![key] = 1]
  BY <1>0, <1>1, CreateKeyKeeps DEF key
<1>4. Coupled(t)
  BY <1>0, <1>3 DEF Coupled
<1> HIDE DEF h
<1> QED
  BY <1>2, <1>3, <1>4, Settles

-----------------------------------------------------------------------------
(* The invariant. *)

ObjectsLeft == KeyLeft(db) /\ ValueLeft(db)

EmptiedSets == emptied \subseteq {o \in ValueObject : db.what[o] = "set"}

IInv ==
  /\ Good(db)
  /\ EmptiedSets
  /\ none \in {"kept", "freed"}
  /\ now \in 0 .. MaxTime
  /\ reply \in Replies
  /\ undefined \in BOOLEAN

LEMMA BecomesKeeps ==
  ASSUME IInv, NEW s, Becomes(s), Good(s)
  PROVE  db' = s /\ Good(db') /\ EmptiedSets'
BY DEF IInv, Becomes, EmptiedSets

LEMMA AnswersKeep ==
  ASSUME IInv, NEW codes \in SUBSET Replies, Answers(codes)
  PROVE  reply' \in Replies /\ undefined' \in BOOLEAN
BY DEF IInv, Answers, Replies

LEMMA InitKeeps == Init => IInv
<1> SUFFICES ASSUME Init
             PROVE  IInv
  OBVIOUS
<1>1. /\ db = [val |-> db.val, expires |-> db.expires, ref |-> db.ref, what |-> db.what]
      /\ DOMAIN db.val = {} /\ DOMAIN db.expires = {}
      /\ db.ref = [o \in Object |-> IF o \in SharedObjects THEN 1 ELSE 0]
      /\ db.what = [o \in ValueObject |-> IF o \in SharedObjects
                                          THEN CHOOSE t \in SharedText : SharedObject[t] = o
                                          ELSE "freed"]
  BY DEF Init
<1>2. \A o \in SharedObjects : (CHOOSE t \in SharedText : SharedObject[t] = o) \in SharedText
  BY DEF SharedObjects
<1>3. Shape(db)
  <2>1. db.ref \in [Object -> Nat]
    BY <1>1
  <2>2. db.what \in [ValueObject -> Content]
    BY <1>1, <1>2, TextAssumption DEF Content
  <2> QED
    BY <1>1, <2>1, <2>2 DEF Shape
<1>4. Alive(db)
  BY <1>1, <1>2, TextAssumption DEF Alive, Object
<1>5. Lost(db) \in Debt /\ Counted(db, Lost(db))
  BY <1>3, LostIsExact
<1>8. Owes(Lost(db))
  <2> SUFFICES ASSUME NEW o \in Object
               PROVE  Lost(db)[o] >= 0
    BY DEF Owes
  <2>1. {k \in DOMAIN db.val : db.val[k].key = o} = {} /\ {k \in DOMAIN db.val : db.val[k].v = o} = {}
        /\ {k \in DOMAIN db.expires : db.expires[k].key = o} = {}
    BY <1>1
  <2>2. KeyCount(db.val, o) = 0 /\ ValueCount(db.val, o) = 0 /\ KeyCount(db.expires, o) = 0
    BY <2>1, FS_EmptySet DEF KeyCount, ValueCount
  <2>3. Pointers(db, o) = Fixed(o)
    BY <2>2, PointersAreCounts DEF Fixed
  <2>4. db.ref[o] = Fixed(o) /\ Fixed(o) \in Nat
    BY <1>1 DEF Fixed
  <2> QED
    BY <2>3, <2>4 DEF Lost
<1>6. Coupled(db)
  BY <1>1 DEF Coupled
<1>7. now \in 0 .. MaxTime
  BY TimeAssumption DEF Init
<1> QED
  BY <1>3, <1>4, <1>5, <1>6, <1>7, <1>8 DEF Init, IInv, Good, Sound, EmptiedSets, Replies

(* A lookup and the answers after it.                                      *)
LEMMA ReadsKeep ==
  ASSUME IInv, NEW k, Lookup(k), NEW codes \in SUBSET Replies,
         Answers(codes), none' \in {"kept", "freed"}
  PROVE  IInv'
<1>1. Good(db') /\ EmptiedSets'
  BY CheckExpiresKeeps, BecomesKeeps DEF IInv, Lookup
<1>2. reply' \in Replies /\ undefined' \in BOOLEAN
  BY AnswersKeep
<1> QED
  BY <1>1, <1>2 DEF IInv, Lookup

(* The answers of get and getset.                                          *)
LEMMA AnswersValueKeeps ==
  ASSUME IInv, NEW k, AnswersValue(k)
  PROVE  reply' \in Replies /\ undefined' \in BOOLEAN /\ none' \in {"kept", "freed"}
<1>1. CASE Answers({"none"}) /\ none' = "freed"
  BY <1>1, AnswersKeep DEF Replies
<1>2. CASE reply' = "value" /\ UNCHANGED <<none, undefined>>
  BY <1>2 DEF IInv, Replies
<1> QED
  BY <1>1, <1>2 DEF AnswersValue

LEMMA py_getKeeps ==
  ASSUME IInv, NEW k \in Name, py_get(k)
  PROVE  IInv'
<1>1. Lookup(k) /\ Good(db') /\ EmptiedSets'
  BY CheckExpiresKeeps, BecomesKeeps DEF IInv, Lookup, py_get
<1>2. CASE AnswersValue(k)
  BY <1>1, <1>2, AnswersValueKeeps DEF IInv, Lookup
<1>3. CASE Answers({"none"}) /\ UNCHANGED none
  BY <1>1, <1>3, ReadsKeep DEF IInv, Replies
<1> QED
  BY <1>2, <1>3 DEF py_get

LEMMA AccessKeeps ==
  ASSUME IInv, NEW k \in Name, NEW types, NEW absent \in Replies, NEW wrong \in Replies,
         NEW found \in SUBSET Replies, Access(k, types, absent, wrong, found)
  PROVE  IInv'
<1>1. PICK codes \in SUBSET Replies : Answers(codes)
  BY DEF Access
<1>2. Lookup(k) /\ UNCHANGED none
  BY DEF Access
<1> QED
  BY <1>1, <1>2, ReadsKeep DEF IInv

LEMMA TakesKeeps ==
  ASSUME IInv, NEW k \in Name, Takes(k)
  PROVE  IInv'
<1>1. db.val[k].v \in ValueObject /\ db.what[db.val[k].v] = "set"
  BY DEF IInv, Good, Sound, Shape, Takes, Visible, get_value
<1>2. EmptiedSets'
  BY <1>1 DEF IInv, EmptiedSets, Takes
<1>3. Good(db')
  BY DEF IInv, Takes
<1> QED
  BY <1>2, <1>3 DEF IInv, Takes, Defined, Replies

LEMMA py_setKeeps ==
  ASSUME IInv, ObjectsLeft, NEW k \in Name, NEW t \in Text, py_set(k, t)
  PROVE  IInv'
<1>1. CASE Defined /\ Becomes(SetValue(db, k, Stored[t])) /\ reply' = "one"
  <2>1. Stored[t] \in Content /\ Stored[t] # "freed"
    BY TextAssumption DEF Content
  <2>2. Good(SetValue(db, k, Stored[t]))
    BY <1>1, <2>1, SetValueKeeps DEF IInv, ObjectsLeft
  <2>3. Good(db') /\ EmptiedSets'
    BY <1>1, <2>2, BecomesKeeps
  <2> QED
    BY <1>1, <2>3 DEF IInv, Defined, Replies
<1>2. CASE /\ Becomes(check_expires(db, k))
           /\ reply' \in {"one", "crash"}
           /\ undefined' = TRUE
           /\ UNCHANGED <<none, now>>
  <2>1. Good(db') /\ EmptiedSets'
    BY <1>2, CheckExpiresKeeps, BecomesKeeps DEF IInv
  <2> QED
    BY <1>2, <2>1 DEF IInv, Replies
<1> QED
  BY <1>1, <1>2 DEF py_set

LEMMA py_getsetKeeps ==
  ASSUME IInv, ObjectsLeft, NEW k \in Name, NEW t \in Text, py_getset(k, t)
  PROVE  IInv'
<1>0. /\ t \in Content /\ t # "freed" /\ Stored[t] \in Content /\ Stored[t] # "freed"
      /\ UNCHANGED now
  BY TextAssumption DEF Content, py_getset
<1> DEFINE got == [decrRefCount(CreateValue(db, NewValue(db), t), db.val[k].v)
                     EXCEPT !.val[k].v = NewValue(db)]
<1>1. CASE k \in DOMAIN db.val /\ Becomes(got) /\ AnswersValue(k)
  <2>1. Good(got)
    BY <1>0, <1>1, GetsetKeeps DEF IInv, ObjectsLeft, PutValue
  <2>2. Good(db') /\ EmptiedSets'
    BY <1>1, <2>1, BecomesKeeps
  <2>3. reply' \in Replies /\ undefined' \in BOOLEAN /\ none' \in {"kept", "freed"}
    BY <1>1, AnswersValueKeeps
  <2> QED
    BY <1>0, <2>2, <2>3 DEF IInv
<1>2. CASE Becomes(SetValue(db, k, Stored[t])) /\ Answers({"none"}) /\ UNCHANGED none
  <2>1. Good(SetValue(db, k, Stored[t]))
    BY <1>0, SetValueKeeps DEF IInv, ObjectsLeft
  <2>2. Good(db') /\ EmptiedSets'
    BY <1>2, <2>1, BecomesKeeps
  <2>3. reply' \in Replies /\ undefined' \in BOOLEAN
    BY <1>2, AnswersKeep DEF Replies
  <2> QED
    BY <1>0, <1>2, <2>2, <2>3 DEF IInv
<1> QED
  BY <1>1, <1>2 DEF py_getset

LEMMA py_strlenKeeps ==
  ASSUME IInv, ObjectsLeft, NEW k \in Name, py_strlen(k)
  PROVE  IInv'
<1> DEFINE s == check_expires(db, k)
<1>1. Good(s) /\ Frees(db, s)
  BY CheckExpiresKeeps DEF IInv
<1>2. KeyLeft(s)
  BY <1>1, LeftAfterFrees DEF ObjectsLeft
<1>3. Defined /\ (Becomes(s) \/ Becomes(CreateKey(s, NewKey(s))))
      /\ reply' \in {"typerr", "number"}
  BY DEF py_strlen
<1> HIDE DEF s
<1>4. Good(CreateKey(s, NewKey(s)))
  BY <1>1, <1>2, LeakKeeps
<1>5. Good(db') /\ EmptiedSets'
  BY <1>1, <1>3, <1>4, BecomesKeeps
<1> QED
  BY <1>3, <1>5 DEF IInv, Defined, Replies

LEMMA PushKeeps ==
  ASSUME IInv, ObjectsLeft, NEW k \in Name, NEW type \in Container, NEW leaky, Push(k, type, leaky)
  PROVE  IInv'
<1> DEFINE s == check_expires(db, k)
<1>1. Good(s) /\ Frees(db, s)
  BY CheckExpiresKeeps DEF IInv
<1>2. KeyLeft(s) /\ ValueLeft(s)
  BY <1>1, LeftAfterFrees DEF ObjectsLeft
<1>3. /\ Defined
      /\ \/ /\ db' = SetValue(s, k, type)
            /\ emptied' = {o \in emptied : db'.what[o] = "set"} \ {db'.val[k].v}
         \/ UNCHANGED db /\ emptied' = emptied \ {db.val[k].v}
         \/ Becomes(s)
         \/ Becomes(CreateKey(s, NewKey(s)))
      /\ reply' \in {"typerr", "ok", "exist"}
  BY DEF Push
<1>4. type \in Content /\ type # "freed"
  BY TextAssumption DEF Content
<1> HIDE DEF s
<1>5. Good(SetValue(s, k, type)) /\ Good(CreateKey(s, NewKey(s)))
  BY <1>1, <1>2, <1>4, LeakKeeps, SetValueKeeps
<1>6. Good(db') /\ EmptiedSets'
  <2>1. CASE /\ db' = SetValue(s, k, type)
             /\ emptied' = {o \in emptied : db'.what[o] = "set"} \ {db'.val[k].v}
    BY <1>5, <2>1 DEF IInv, EmptiedSets
  <2>2. CASE UNCHANGED db /\ emptied' = emptied \ {db.val[k].v}
    BY <2>2 DEF IInv, EmptiedSets
  <2>3. CASE Becomes(s) \/ Becomes(CreateKey(s, NewKey(s)))
    BY <1>1, <1>5, <2>3, BecomesKeeps
  <2> QED
    BY <1>3, <2>1, <2>2, <2>3
<1> QED
  BY <1>3, <1>6 DEF IInv, Defined, Replies

LEMMA py_renameKeeps ==
  ASSUME IInv, ObjectsLeft, NEW k \in Name, NEW l \in Name, py_rename(k, l)
  PROVE  IInv'
<1>1. CASE Defined /\ Becomes(check_expires(db, k)) /\ reply' = "err"
  <2>1. Good(db') /\ EmptiedSets'
    BY <1>1, CheckExpiresKeeps, BecomesKeeps DEF IInv
  <2> QED
    BY <1>1, <2>1 DEF IInv, Defined, Replies
<1>2. CASE /\ Defined /\ Visible(db, k)
           /\ k # l \/ db.ref[db.val[k].v] > 1
           /\ Becomes(Rename(db, k, l))
           /\ reply' = "ok"
  <2>1. Good(Rename(db, k, l))
    BY <1>2, RenameKeeps DEF IInv, ObjectsLeft, Visible
  <2>2. Good(db') /\ EmptiedSets'
    BY <1>2, <2>1, BecomesKeeps
  <2> QED
    BY <1>2, <2>2 DEF IInv, Defined, Replies
<1>3. CASE /\ Becomes(delete_key(db, k))
           /\ reply' \in {"ok", "crash"}
           /\ undefined' = TRUE
           /\ UNCHANGED <<none, now>>
  <2>1. Good(db') /\ EmptiedSets'
    BY <1>3, DeleteKeyKeeps, BecomesKeeps DEF IInv
  <2> QED
    BY <1>3, <2>1 DEF IInv, Replies
<1> QED
  BY <1>1, <1>2, <1>3 DEF py_rename

LEMMA py_expireKeeps ==
  ASSUME IInv, NEW k \in Name, NEW when \in Deadline, py_expire(k, when)
  PROVE  IInv'
<1>1. CASE k \in DOMAIN db.val /\ Becomes(set_expires(db, k, when)) /\ reply' = "ok"
  <2>1. Good(set_expires(db, k, when))
    BY <1>1, SetExpiresKeeps DEF IInv
  <2>2. Good(db') /\ EmptiedSets'
    BY <1>1, <2>1, BecomesKeeps
  <2> QED
    BY <1>1, <2>2 DEF IInv, py_expire, Defined, Replies
<1>2. CASE Becomes(db) /\ reply' = "notexist"
  <2>1. Good(db') /\ EmptiedSets'
    BY <1>2, BecomesKeeps DEF IInv
  <2> QED
    BY <1>2, <2>1 DEF IInv, py_expire, Defined, Replies
<1> QED
  BY <1>1, <1>2 DEF py_expire

LEMMA py_delKeeps ==
  ASSUME IInv, NEW k \in Name, py_del(k)
  PROVE  IInv'
<1>1. Good(db') /\ EmptiedSets'
  BY DeleteKeyKeeps, BecomesKeeps DEF IInv, py_del
<1>2. reply' \in Replies
  BY DEF py_del, Replies
<1> QED
  BY <1>1, <1>2 DEF IInv, py_del, Defined

LEMMA NextKeeps == IInv /\ ObjectsLeft /\ [Next]_vars => IInv'
<1> SUFFICES ASSUME IInv, ObjectsLeft, [Next]_vars
             PROVE  IInv'
  OBVIOUS
<1>1. ASSUME NEW k \in Name, NEW t \in Text, py_set(k, t) \/ py_getset(k, t)
      PROVE  IInv'
  BY <1>1, py_setKeeps, py_getsetKeeps
<1>2. ASSUME NEW k \in Name, py_get(k) \/ Takes(k)
      PROVE  IInv'
  BY <1>2, py_getKeeps, TakesKeeps
<1>3. ASSUME NEW k \in Name, py_exists(k) \/ py_type(k) \/ Count(k)
      PROVE  IInv'
  <2>1. PICK codes \in SUBSET Replies : Answers(codes)
    BY <1>3 DEF py_exists, py_type, Count, Replies
  <2>2. Lookup(k) /\ UNCHANGED none
    BY <1>3 DEF py_exists, py_type, Count
  <2> QED
    BY <2>1, <2>2, ReadsKeep DEF IInv
<1>4. ASSUME NEW k \in Name, NEW types, NEW absent \in Replies, NEW wrong \in Replies,
             NEW found \in SUBSET Replies, Access(k, types, absent, wrong, found)
      PROVE  IInv'
  BY <1>4, AccessKeeps
<1>5. ASSUME NEW k \in Name, py_strlen(k) \/ py_del(k)
      PROVE  IInv'
  BY <1>5, py_strlenKeeps, py_delKeeps
<1>6. ASSUME NEW k \in Name, NEW type \in Container, NEW leaky, Push(k, type, leaky)
      PROVE  IInv'
  BY <1>6, PushKeeps
<1>7. ASSUME NEW k \in Name, NEW l \in Name, py_rename(k, l)
      PROVE  IInv'
  BY <1>7, py_renameKeeps
<1>8. ASSUME NEW k \in Name, NEW when \in Deadline, py_expire(k, when)
      PROVE  IInv'
  BY <1>8, py_expireKeeps
<1>9. CASE Tick
  BY <1>9, TimeAssumption DEF Tick, IInv, EmptiedSets
<1>10. CASE UNCHANGED vars
  BY <1>10 DEF vars, IInv, EmptiedSets
<1>11. "set" \in Container
  BY TextAssumption
<1>12. ASSUME NEW k \in Name,
              \/ py_getrange(k) \/ py_srem(k) \/ py_spop(k) \/ Walk(k)
              \/ \E type \in Container : Element(k, type)
       PROVE  IInv'
  <2>1. CASE Takes(k)
    BY <1>2, <2>1
  <2>2. CASE Access(k, {"set"}, "notexist", "typerr", {IF IsEmpty(k) THEN "none" ELSE "unerr"})
    <3>1. {IF IsEmpty(k) THEN "none" ELSE "unerr"} \in SUBSET Replies
          /\ "notexist" \in Replies /\ "typerr" \in Replies
      BY DEF Replies
    <3> QED
      BY <1>4, <2>2, <3>1
  <2>3. CASE Access(k, {"set"}, "notexist", "typerr", {"notexist"})
    BY <1>4, <2>3 DEF Replies
  <2>4. CASE py_getrange(k)
    BY <1>4, <2>4 DEF py_getrange, Replies
  <2>5. CASE Walk(k)
    BY <1>4, <2>5 DEF Walk, Replies
  <2>6. ASSUME NEW type \in Container, Element(k, type)
        PROVE  IInv'
    BY <1>4, <2>6 DEF Element, Replies
  <2> QED
    BY <1>12, <2>1, <2>2, <2>3, <2>4, <2>5, <2>6 DEF py_srem, py_spop
<1> QED
  BY <1>1, <1>2, <1>3, <1>5, <1>6, <1>7, <1>8, <1>9, <1>10, <1>11, <1>12
     DEF Next, py_sadd, py_push

LEMMA IInvMeans == IInv => TypeOK /\ DeadlinesHaveKeys /\ NoDangling
<1> SUFFICES ASSUME IInv
             PROVE  TypeOK /\ DeadlinesHaveKeys /\ NoDangling
  OBVIOUS
<1>1. TypeOK
  BY DEF IInv, Good, Sound, Shape, TypeOK, EmptiedSets
<1>2. DeadlinesHaveKeys
  BY DEF IInv, Good, Coupled, DeadlinesHaveKeys
<1>3. ASSUME NEW o \in Object
      PROVE  db.ref[o] >= Pointers(db, o)
  <2>1. Lost(db)[o] >= 0 /\ db.ref[o] \in Nat
    BY DEF IInv, Good, Sound, Owes, Shape
  <2>2. Pointers(db, o) \in Nat /\ Lost(db)[o] = db.ref[o] - Pointers(db, o)
    BY PointersAreNumbers DEF IInv, Good, Sound, Lost
  <2> QED
    BY <2>1, <2>2
<1>4. NoDangling
  BY <1>3 DEF IInv, Good, Sound, Alive, NoDangling
<1> QED
  BY <1>1, <1>2, <1>4

(* As long as the allocator finds an object for every command, whatever    *)
(* the commands and their arguments, IInv holds.                           *)
THEOREM Inductive == Spec /\ []ObjectsLeft => []IInv
<1>1. Init => IInv
  BY InitKeeps
<1>2. IInv /\ ObjectsLeft /\ [Next]_vars => IInv'
  BY NextKeeps
<1> QED
  BY <1>1, <1>2, PTL DEF Spec

(* The dictionaries, counts and replies keep their types.                  *)
THEOREM TypeCorrect == Spec /\ []ObjectsLeft => []TypeOK
BY Inductive, IInvMeans, PTL

(* Every deadline is that of a stored key, under the same key object: the  *)
(* seven paths on which db.cpp deletes or replaces a value keep it so.     *)
THEOREM DeadlinesAreKeys == Spec /\ []ObjectsLeft => []DeadlinesHaveKeys
BY Inductive, IInvMeans, PTL

(* No object that is pointed to has been freed by its count, for any       *)
(* number of keys, shared values, emptied sets and lost references.        *)
THEOREM NothingDangles == Spec /\ []ObjectsLeft => []NoDangling
BY Inductive, IInvMeans, PTL

-----------------------------------------------------------------------------
(* What a command leaves alone: the entries of the keys it does not name,  *)
(* the values these share with the key it writes, and their deadlines.     *)
(*                                                                         *)
(* An entry that stays and whose object kept or lost its content has kept  *)
(* it: the object is pointed to, so it cannot be free afterwards.  So of   *)
(* the contents it is enough to know that a command frees them or writes   *)
(* into objects that were free.                                            *)
(*                                                                         *)
(* And what a command loses: nothing, of any object, but where it says so. *)

(* s has the four fields of the keyspace. *)
Fields(s) ==
  /\ s = [val |-> s.val, expires |-> s.expires, ref |-> s.ref, what |-> s.what]
  /\ DOMAIN s.what = ValueObject

(* Contents are kept or freed. *)
Fades(s, t) == \A o \in ValueObject : t.what[o] \in {s.what[o], "freed"}

(* The same, but for the objects that were free. *)
Mild(s, t) == \A o \in ValueObject : s.ref[o] = 0 \/ t.what[o] \in {s.what[o], "freed"}

(* The entries of k are the same, *)
SameEntry(f, g, k) == /\ k \in DOMAIN f <=> k \in DOMAIN g
                      /\ k \in DOMAIN f => g[k] = f[k]
Same(s, t, k) == SameEntry(s.val, t.val, k) /\ SameEntry(s.expires, t.expires, k)

(* and so is its value. *)
Kept(s, t, k) == /\ Same(s, t, k)
                 /\ k \in DOMAIN s.val => t.what[s.val[k].v] = s.what[s.val[k].v]

LEMMA GoodFields == ASSUME NEW s, Good(s) PROVE Fields(s)
BY DEF Good, Sound, Shape, Fields

LEMMA SoundFields == ASSUME NEW s, NEW h, Sound(s, h) PROVE Fields(s)
BY DEF Sound, Shape, Fields

(* A value that stays pointed to is not freed. *)
LEMMA PointedStays ==
  ASSUME NEW s, Good(s), NEW t, Good(t), Mild(s, t), NEW k, Same(s, t, k)
  PROVE  Kept(s, t, k)
<1> SUFFICES ASSUME k \in DOMAIN s.val
             PROVE  t.what[s.val[k].v] = s.what[s.val[k].v]
  BY DEF Kept
<1> DEFINE v == s.val[k].v
<1>1. t.val[k].v = v /\ k \in DOMAIN t.val
  BY DEF Same, SameEntry
<1>2. v \in ValueObject /\ s.ref[v] >= 1
  BY GoodIsOwed, PointedIsCounted
<1>3. t.ref[v] >= 1
  BY <1>1, GoodIsOwed, PointedIsCounted
<1> HIDE DEF v
<1>4. t.what[v] # "freed" /\ s.ref[v] # 0
  BY <1>2, <1>3 DEF Good, Sound, Alive
<1> QED
  BY <1>2, <1>4 DEF Mild, v

LEMMA KeptTwice ==
  ASSUME NEW s, NEW t, NEW u, NEW k, Kept(s, t, k), Kept(t, u, k)
  PROVE  Kept(s, u, k)
BY DEF Kept, Same, SameEntry

-----------------------------------------------------------------------------
(* The functions of the code. *)

LEMMA IncrFrame ==
  ASSUME NEW s, Fields(s), NEW o, NEW t, t = incrRefCount(s, o)
  PROVE  Fields(t) /\ t.val = s.val /\ t.expires = s.expires /\ t.what = s.what
BY DEF Fields, incrRefCount

LEMMA CreateKeyFrame ==
  ASSUME NEW s, Fields(s), NEW o, NEW t, t = CreateKey(s, o)
  PROVE  Fields(t) /\ t.val = s.val /\ t.expires = s.expires /\ t.what = s.what
BY DEF Fields, CreateKey

LEMMA DecrFrame ==
  ASSUME NEW s, Fields(s), NEW o, NEW t, t = decrRefCount(s, o)
  PROVE  Fields(t) /\ t.val = s.val /\ t.expires = s.expires /\ Fades(s, t)
<1>1. CASE s.ref[o] = 1 /\ o \in ValueObject
  <2>1. t = [s EXCEPT !.ref[o] = 0, !.what[o] = "freed"]
    BY <1>1 DEF decrRefCount
  <2>2. /\ Fields(t) /\ t.val = s.val /\ t.expires = s.expires
        /\ t.what = [s.what EXCEPT ![o] = "freed"]
    BY <2>1 DEF Fields
  <2> QED
    BY <2>2 DEF Fades, Fields
<1>2. CASE ~(s.ref[o] = 1 /\ o \in ValueObject)
  <2>1. t = [s EXCEPT !.ref[o] = @ - 1]
    BY <1>2 DEF decrRefCount
  <2> QED
    BY <2>1 DEF Fields, Fades
<1> QED
  BY <1>1, <1>2

LEMMA CreateValueFrame ==
  ASSUME NEW s, Fields(s), NEW o, NEW x, NEW t, t = CreateValue(s, o, x)
  PROVE  /\ Fields(t) /\ t.val = s.val /\ t.expires = s.expires
         /\ \A p \in ValueObject : p = o \/ t.what[p] = s.what[p]
<1>1. t = [s EXCEPT !.ref[o] = 1, !.what[o] = x]
  BY DEF CreateValue
<1>2. /\ Fields(t) /\ t.val = s.val /\ t.expires = s.expires
      /\ t.what = [s.what EXCEPT ![o] = x]
  BY <1>1 DEF Fields
<1> QED
  BY <1>2 DEF Fields

LEMMA DeleteValueFrame ==
  ASSUME NEW s, Fields(s), NEW k, NEW t, t = DeleteValue(s, k)
  PROVE  /\ Fields(t) /\ Fades(s, t) /\ t.expires = s.expires
         /\ DOMAIN t.val = DOMAIN s.val \ {k}
         /\ \A x \in DOMAIN t.val : t.val[x] = s.val[x]
<1>1. CASE k \notin DOMAIN s.val
  BY <1>1 DEF DeleteValue, Fades
<1>2. CASE k \in DOMAIN s.val
  <2> DEFINE a == decrRefCount(s, s.val[k].key)
             b == decrRefCount(a, s.val[k].v)
  <2>1. Fields(a) /\ a.val = s.val /\ a.expires = s.expires /\ Fades(s, a)
    BY DecrFrame
  <2> HIDE DEF a
  <2>2. Fields(b) /\ b.val = a.val /\ b.expires = a.expires /\ Fades(a, b)
    BY <2>1, DecrFrame
  <2>3. t = [b EXCEPT !.val = Without(@, k)]
    BY <1>2 DEF DeleteValue, a
  <2> HIDE DEF b
  <2>4. /\ Fields(t) /\ t.val = Without(b.val, k) /\ t.expires = b.expires /\ t.what = b.what
    BY <2>2, <2>3 DEF Fields
  <2> QED
    BY <2>1, <2>2, <2>4 DEF Fades, Without
<1> QED
  BY <1>1, <1>2

LEMMA RemoveExpiresFrame ==
  ASSUME NEW s, Fields(s), NEW k, NEW t, t = remove_expires(s, k)
  PROVE  /\ Fields(t) /\ Fades(s, t) /\ t.val = s.val
         /\ DOMAIN t.expires = DOMAIN s.expires \ {k}
         /\ \A x \in DOMAIN t.expires : t.expires[x] = s.expires[x]
<1>1. CASE k \notin DOMAIN s.expires
  BY <1>1 DEF remove_expires, Fades
<1>2. CASE k \in DOMAIN s.expires
  <2> DEFINE a == decrRefCount(s, s.expires[k].key)
  <2>1. Fields(a) /\ a.val = s.val /\ a.expires = s.expires /\ Fades(s, a)
    BY DecrFrame
  <2>2. t = [a EXCEPT !.expires = Without(@, k)]
    BY <1>2 DEF remove_expires
  <2> HIDE DEF a
  <2>3. /\ Fields(t) /\ t.expires = Without(a.expires, k) /\ t.val = a.val /\ t.what = a.what
    BY <2>1, <2>2 DEF Fields
  <2> QED
    BY <2>1, <2>3 DEF Fades, Without
<1> QED
  BY <1>1, <1>2

(* What deletes a key from both dictionaries touches no other. *)
LEMMA DeleteKeyFrame ==
  ASSUME NEW s, Fields(s), NEW k, NEW t, t = delete_key(s, k)
  PROVE  /\ Fields(t) /\ Fades(s, t) /\ \A x : x # k => Same(s, t, x)
         /\ k \in DOMAIN s.val => k \notin DOMAIN t.val /\ k \notin DOMAIN t.expires
<1>1. CASE k \notin DOMAIN s.val
  BY <1>1 DEF delete_key, Fades, Same, SameEntry
<1>2. CASE k \in DOMAIN s.val
  <2> DEFINE a == DeleteValue(s, k)
  <2>1. /\ Fields(a) /\ Fades(s, a) /\ a.expires = s.expires
        /\ DOMAIN a.val = DOMAIN s.val \ {k}
        /\ \A x \in DOMAIN a.val : a.val[x] = s.val[x]
    BY DeleteValueFrame
  <2>2. t = remove_expires(a, k)
    BY <1>2 DEF delete_key
  <2> HIDE DEF a
  <2>3. /\ Fields(t) /\ Fades(a, t) /\ t.val = a.val
        /\ DOMAIN t.expires = DOMAIN a.expires \ {k}
        /\ \A x \in DOMAIN t.expires : t.expires[x] = a.expires[x]
    BY <2>1, <2>2, RemoveExpiresFrame
  <2>4. Fades(s, t)
    BY <2>1, <2>3 DEF Fades
  <2> QED
    BY <2>1, <2>3, <2>4 DEF Same, SameEntry
<1> QED
  BY <1>1, <1>2

LEMMA CheckExpiresFrame ==
  ASSUME NEW s, Fields(s), NEW k, NEW t, t = check_expires(s, k)
  PROVE  /\ Fields(t) /\ Fades(s, t) /\ \A x : x # k => Same(s, t, x)
         /\ Expired(s, k) => k \notin DOMAIN t.val /\ k \notin DOMAIN t.expires
         /\ ~Expired(s, k) => t = s
<1>1. CASE ~Expired(s, k)
  BY <1>1 DEF check_expires, Fades, Same, SameEntry
<1>2. CASE Expired(s, k)
  <2> DEFINE a == remove_expires(s, k)
  <2>1. /\ Fields(a) /\ Fades(s, a) /\ a.val = s.val
        /\ DOMAIN a.expires = DOMAIN s.expires \ {k}
        /\ \A x \in DOMAIN a.expires : a.expires[x] = s.expires[x]
    BY RemoveExpiresFrame
  <2>2. t = DeleteValue(a, k)
    BY <1>2 DEF check_expires
  <2> HIDE DEF a
  <2>3. /\ Fields(t) /\ Fades(a, t) /\ t.expires = a.expires
        /\ DOMAIN t.val = DOMAIN a.val \ {k}
        /\ \A x \in DOMAIN t.val : t.val[x] = a.val[x]
    BY <2>1, <2>2, DeleteValueFrame
  <2>4. Fades(s, t)
    BY <2>1, <2>3 DEF Fades
  <2> QED
    BY <1>2, <2>1, <2>3, <2>4 DEF Same, SameEntry
<1> QED
  BY <1>1, <1>2

(* A stored value is written into an object that was free, or shared.      *)
LEMMA ObtainFrame ==
  ASSUME NEW s, Fields(s), NEW x, NEW t, t = Obtain(s, x)
  PROVE  /\ Fields(t) /\ t.val = s.val /\ t.expires = s.expires
         /\ \A p \in ValueObject : p = NewValue(s) \/ t.what[p] = s.what[p]
<1>1. CASE x \in SharedText
  BY <1>1, IncrFrame DEF Obtain
<1>2. CASE x \notin SharedText
  BY <1>2, CreateValueFrame DEF Obtain
<1> QED
  BY <1>1, <1>2

LEMMA set_valueFrame ==
  ASSUME NEW s, NEW h \in Debt, Sound(s, h), Owes(h), ValueLeft(s),
         NEW k, NEW key, NEW x, NEW t, t = set_value(s, k, key, x)
  PROVE  /\ Fields(t) /\ Mild(s, t) /\ \A y : y # k => Same(s, t, y)
         /\ k \in DOMAIN t.val
         /\ k \notin DOMAIN s.val => t.expires = s.expires
<1> DEFINE bare  == IF k \in DOMAIN s.val THEN remove_expires(s, k) ELSE s
           value == Obtained(bare, x)
           held  == Obtain(bare, x)
           new   == NewValue(bare)
<1>1. /\ Fields(bare) /\ Fades(s, bare) /\ bare.val = s.val
      /\ \A y : y # k => SameEntry(s.expires, bare.expires, y)
      /\ k \notin DOMAIN s.val => bare.expires = s.expires
  BY SoundFields, RemoveExpiresFrame DEF Fades, SameEntry
<1>2. /\ Frees(s, bare)
      /\ \A o \in ValueObject : bare.ref[o] = s.ref[o]
  BY RemoveExpiresKeeps DEF Frees
<1>3. new \in ValueObject /\ s.ref[new] = 0
  BY <1>2, LeftAfterFrees, NewObjects
<1>4. t = IF k \in DOMAIN s.val
          THEN [decrRefCount(held, s.val[k].v) EXCEPT !.val[k].v = value]
          ELSE [incrRefCount(held, key) EXCEPT !.val = With(@, k, [key |-> key, v |-> value])]
  BY DEF set_value
<1> HIDE DEF bare, value
<1>5. /\ Fields(held) /\ held.val = bare.val /\ held.expires = bare.expires
      /\ \A p \in ValueObject : p = new \/ held.what[p] = bare.what[p]
  BY <1>1, ObtainFrame
<1> HIDE DEF held, new
<1>6. Mild(s, held)
  BY <1>1, <1>3, <1>5 DEF Mild, Fades
<1>7. CASE k \in DOMAIN s.val
  <2> DEFINE drop == decrRefCount(held, s.val[k].v)
  <2>1. Fields(drop) /\ drop.val = held.val /\ drop.expires = held.expires /\ Fades(held, drop)
    BY <1>5, DecrFrame
  <2>2. t = [drop EXCEPT !.val[k].v = value]
    BY <1>4, <1>7
  <2> HIDE DEF drop
  <2>3. /\ Fields(t) /\ t.expires = drop.expires /\ t.what = drop.what
        /\ DOMAIN t.val = DOMAIN drop.val
        /\ \A y \in DOMAIN drop.val : y # k => t.val[y] = drop.val[y]
    BY <2>1, <2>2 DEF Fields
  <2>4. Mild(s, t)
    BY <1>6, <2>1, <2>3 DEF Mild, Fades
  <2> QED
    BY <1>1, <1>5, <1>7, <2>1, <2>3, <2>4 DEF Same, SameEntry
<1>8. CASE k \notin DOMAIN s.val
  <2> DEFINE twice == incrRefCount(held, key)
             e     == [key |-> key, v |-> value]
  <2>1. Fields(twice) /\ twice.val = held.val /\ twice.expires = held.expires /\ twice.what = held.what
    BY <1>5, IncrFrame
  <2>2. t = [twice EXCEPT !.val = With(@, k, e)]
    BY <1>4, <1>8
  <2> HIDE DEF twice, e
  <2>3. /\ Fields(t) /\ t.expires = twice.expires /\ t.what = twice.what
        /\ t.val = With(twice.val, k, e)
    BY <2>1, <2>2 DEF Fields
  <2>4. Mild(s, t)
    BY <1>6, <2>1, <2>3 DEF Mild
  <2>5. /\ DOMAIN t.val = DOMAIN s.val \cup {k}
        /\ \A y \in DOMAIN s.val : y # k => t.val[y] = s.val[y]
    BY <1>1, <1>5, <2>1, <2>3 DEF With
  <2> QED
    BY <1>1, <1>5, <1>8, <2>1, <2>3, <2>4, <2>5 DEF Same, SameEntry
<1> QED
  BY <1>7, <1>8

LEMMA SetValueFrame ==
  ASSUME NEW s, Good(s), KeyLeft(s), ValueLeft(s),
         NEW k, NEW x, NEW t, t = SetValue(s, k, x)
  PROVE  /\ Mild(s, t) /\ \A y : y # k => Same(s, t, y)
         /\ k \in DOMAIN t.val
         /\ k \notin DOMAIN s.val => t.expires = s.expires
<1> DEFINE key == NewKey(s)
           a   == CreateKey(s, key)
           b   == set_value(a, k, key, x)
           L   == Lost(s)
           h   == Holds(L, key)
<1>0. L \in Debt /\ Sound(s, L) /\ \A o \in Object : Holds(L, o) \in Debt /\ Owes(Holds(L, o))
  BY GoodIsOwed
<1> HIDE DEF L
<1>1. t = decrRefCount(b, key)
  BY DEF SetValue
<1>2. key \in KeyObject /\ key \in Object /\ s.ref[key] = 0 /\ key \notin ValueObject
  BY NewObjects, ObjectAssumption DEF Object
<1>3. h \in Debt /\ Owes(h)
  BY <1>0, <1>2
<1> HIDE DEF key
<1>4. /\ Sound(a, h) /\ a.val = s.val /\ a.expires = s.expires
      /\ a.ref = [s.ref EXCEPT ![key] = 1]
  BY <1>0, <1>2, CreateKeyKeeps
<1>5. a.what = s.what
  BY GoodFields, CreateKeyFrame
<1>6. \A o \in ValueObject : a.ref[o] = s.ref[o]
  BY <1>2, <1>4 DEF Good, Sound, Shape, Object
<1>7. ValueLeft(a)
  BY <1>6 DEF ValueLeft
<1> HIDE DEF a, h
<1>8. /\ Fields(b) /\ Mild(a, b) /\ \A y : y # k => Same(a, b, y)
      /\ k \in DOMAIN b.val
      /\ k \notin DOMAIN a.val => b.expires = a.expires
  BY <1>3, <1>4, <1>7, set_valueFrame
<1> HIDE DEF b
<1>9. t.val = b.val /\ t.expires = b.expires /\ Fades(b, t)
  BY <1>1, <1>8, DecrFrame
<1>10. Mild(s, t)
  BY <1>5, <1>6, <1>8, <1>9 DEF Mild, Fades
<1> QED
  BY <1>4, <1>8, <1>9, <1>10 DEF Same, SameEntry

LEMMA SetExpiresFrame ==
  ASSUME NEW s, Good(s), NEW k \in DOMAIN s.val, NEW when, NEW t, t = set_expires(s, k, when)
  PROVE  /\ Mild(s, t) /\ \A y : y # k => Same(s, t, y)
         /\ t.val = s.val /\ \A y : y \in DOMAIN s.expires => SameEntry(s.expires, t.expires, y)
<1> DEFINE key == s.val[k].key
           a   == incrRefCount(s, key)
           e   == [key |-> key, when |-> when]
<1>1. Fields(a) /\ a.val = s.val /\ a.expires = s.expires /\ a.what = s.what
  BY GoodFields, IncrFrame
<1> HIDE DEF a
<1>2. CASE k \in DOMAIN s.expires
  <2>1. t = a
    BY <1>2 DEF set_expires, a
  <2> QED
    BY <1>1, <2>1 DEF Mild, Same, SameEntry
<1>3. CASE k \notin DOMAIN s.expires
  <2>1. t = [a EXCEPT !.expires = With(@, k, e)]
    BY <1>3 DEF set_expires, a
  <2> HIDE DEF e
  <2>2. t.val = a.val /\ t.what = a.what /\ t.expires = With(a.expires, k, e)
    BY <1>1, <2>1 DEF Fields
  <2>3. \A y : y # k => SameEntry(s.expires, t.expires, y)
    BY <1>1, <2>2 DEF With, SameEntry
  <2> QED
    BY <1>1, <1>3, <2>2, <2>3 DEF Mild, Same, SameEntry
<1> QED
  BY <1>2, <1>3

LEMMA RenameFrame ==
  ASSUME NEW s, Fields(s), NEW k, NEW l, NEW t, t = Rename(s, k, l)
  PROVE  /\ Mild(s, t) /\ \A y : y \notin {k, l} => Same(s, t, y)
         /\ k # l => l \in DOMAIN t.val
<1> DEFINE v     == s.val[k].v
           clear == delete_key(s, l)
           key   == NewKey(clear)
           a     == CreateKey(clear, key)
           e     == [key |-> key, v |-> v]
           named == [a EXCEPT !.val = With(@, l, e)]
           c     == incrRefCount(named, v)
<1>1. t = delete_key(c, k)
  BY DEF Rename
<1>2. Fields(clear) /\ Fades(s, clear) /\ \A y : y # l => Same(s, clear, y)
  BY DeleteKeyFrame
<1> HIDE DEF clear, key
<1>3. Fields(a) /\ a.val = clear.val /\ a.expires = clear.expires /\ a.what = clear.what
  BY <1>2, CreateKeyFrame
<1> HIDE DEF a, e
<1>4. /\ Fields(named) /\ named.val = With(a.val, l, e) /\ named.expires = a.expires
      /\ named.what = a.what
  BY <1>3 DEF Fields
<1> HIDE DEF named
<1>5. Fields(c) /\ c.val = named.val /\ c.expires = named.expires /\ c.what = named.what
  BY <1>4, IncrFrame
<1> HIDE DEF c
<1>6. Fades(c, t) /\ \A y : y # k => Same(c, t, y)
  BY <1>1, <1>5, DeleteKeyFrame
<1>7. \A y : y # l => Same(s, c, y)
  BY <1>2, <1>3, <1>4, <1>5 DEF With, Same, SameEntry
<1>8. l \in DOMAIN c.val
  BY <1>4, <1>5 DEF With
<1>9. Mild(s, t)
  BY <1>2, <1>3, <1>4, <1>5, <1>6 DEF Mild, Fades
<1> QED
  BY <1>6, <1>7, <1>8, <1>9 DEF Same, SameEntry

LEMMA GetsetFrame ==
  ASSUME NEW s, Good(s), ValueLeft(s), NEW k \in DOMAIN s.val, NEW x,
         NEW v, v = NewValue(s),
         NEW t, t = PutValue(decrRefCount(CreateValue(s, v, x), s.val[k].v), k, v)
  PROVE  /\ Mild(s, t) /\ \A y : y # k => Same(s, t, y)
         /\ DOMAIN t.val = DOMAIN s.val /\ t.expires = s.expires
<1> DEFINE a    == CreateValue(s, v, x)
           drop == decrRefCount(a, s.val[k].v)
<1>1. /\ Fields(a) /\ a.val = s.val /\ a.expires = s.expires
      /\ \A p \in ValueObject : p = v \/ a.what[p] = s.what[p]
  BY GoodFields, CreateValueFrame
<1> HIDE DEF a
<1>2. Fields(drop) /\ drop.val = a.val /\ drop.expires = a.expires /\ Fades(a, drop)
  BY <1>1, DecrFrame
<1>3. t = [drop EXCEPT !.val[k].v = v]
  BY DEF PutValue, a
<1> HIDE DEF drop
<1>4. /\ t.expires = drop.expires /\ t.what = drop.what
      /\ DOMAIN t.val = DOMAIN drop.val
      /\ \A y \in DOMAIN drop.val : y # k => t.val[y] = drop.val[y]
  BY <1>2, <1>3 DEF Fields
<1>5. s.ref[v] = 0
  BY NewObjects
<1>6. Mild(s, t)
  BY <1>1, <1>2, <1>4, <1>5 DEF Mild, Fades
<1> QED
  BY <1>1, <1>2, <1>4, <1>6 DEF Same, SameEntry

-----------------------------------------------------------------------------
(* The commands. *)

(* What a key may lose when nothing is written: k was purged as expired.   *)
Purged(k) == Expired(db, k) /\ k \notin DOMAIN db'.val /\ k \notin DOMAIN db'.expires

Quiet       == \A y \in Name : Kept(db, db', y) \/ Purged(y)
QuietBut(K) == \A y \in Name \ K : Kept(db, db', y)

(* A value that is set, or a container that is pushed to, on a key keeps   *)
(* every other; the key stays, or is there now.                            *)
Stays(k) == k \in DOMAIN db.val => k \in DOMAIN db'.val
Stamp(k) == k \in DOMAIN db.expires =>
              \/ k \in DOMAIN db'.expires /\ db'.expires[k].when = db.expires[k].when
              \/ k \notin DOMAIN db'.expires /\ Expired(db, k)

LEMMA FadingKeeps ==
  ASSUME NEW s, Good(s), NEW t, Good(t), Fades(s, t)
  PROVE  \A y : Same(s, t, y) => Kept(s, t, y)
BY PointedStays DEF Fades, Mild

LEMMA PurgeIsQuiet ==
  ASSUME IInv, NEW k, NEW s, s = check_expires(db, k)
  PROVE  /\ Good(s) /\ Frees(db, s)
         /\ \A y : y # k => Kept(db, s, y)
         /\ IF Expired(db, k) THEN k \notin DOMAIN s.val /\ k \notin DOMAIN s.expires ELSE s = db
<1>1. Good(db) /\ Fields(db)
  BY GoodFields DEF IInv
<1>2. Good(s) /\ Frees(db, s)
  BY <1>1, CheckExpiresKeeps
<1>3. /\ Fades(db, s) /\ \A x : x # k => Same(db, s, x)
      /\ Expired(db, k) => k \notin DOMAIN s.val /\ k \notin DOMAIN s.expires
      /\ ~Expired(db, k) => s = db
  BY <1>1, CheckExpiresFrame
<1> QED
  BY <1>1, <1>2, <1>3, FadingKeeps

LEMMA KeptMeans ==
  /\ \A s, y : Kept(s, s, y)
  /\ \A y : Kept(db, db', y) => Stays(y) /\ Stamp(y)
BY DEF Kept, Same, SameEntry, Stays, Stamp

LEMMA LookupIsQuiet ==
  ASSUME IInv, NEW k, Lookup(k)
  PROVE  Quiet
<1>1. /\ \A y : y # k => Kept(db, db', y)
      /\ IF Expired(db, k) THEN k \notin DOMAIN db'.val /\ k \notin DOMAIN db'.expires
         ELSE db' = db
  BY PurgeIsQuiet DEF Lookup, Becomes
<1> QED
  BY <1>1, KeptMeans DEF Quiet, Purged

LEMMA py_strlenIsQuiet ==
  ASSUME IInv, ObjectsLeft, NEW k \in Name, py_strlen(k)
  PROVE  Quiet
<1> DEFINE s == check_expires(db, k)
<1>1. /\ Good(s) /\ Frees(db, s)
      /\ \A y : y # k => Kept(db, s, y)
      /\ IF Expired(db, k) THEN k \notin DOMAIN s.val /\ k \notin DOMAIN s.expires ELSE s = db
  BY PurgeIsQuiet
<1>2. db' = s \/ db' = CreateKey(s, NewKey(s))
  BY DEF py_strlen, Becomes
<1> HIDE DEF s
<1>3. db'.val = s.val /\ db'.expires = s.expires /\ db'.what = s.what
  BY <1>1, <1>2, GoodFields, CreateKeyFrame
<1>4. \A y : Kept(s, db', y)
  BY <1>3 DEF Kept, Same, SameEntry
<1>5. \A y : y # k => Kept(db, db', y)
  BY <1>1, <1>4, KeptTwice
<1>6. CASE Expired(db, k)
  BY <1>1, <1>3, <1>5, <1>6 DEF Quiet, Purged
<1>7. CASE ~Expired(db, k)
  BY <1>1, <1>4, <1>5, <1>7 DEF Quiet
<1> QED
  BY <1>6, <1>7

(* SetValue as a command of its own, or after a purge.                     *)
LEMMA SettingKeeps ==
  ASSUME NEW s, Good(s), KeyLeft(s), ValueLeft(s), NEW k \in Name,
         NEW x \in Content, x # "freed", NEW t, t = SetValue(s, k, x)
  PROVE  /\ \A y : y # k => Kept(s, t, y)
         /\ k \in DOMAIN t.val
         /\ k \notin DOMAIN s.val => t.expires = s.expires
<1>1. Good(t)
  BY SetValueKeeps
<1>2. /\ Mild(s, t) /\ \A y : y # k => Same(s, t, y)
      /\ k \in DOMAIN t.val
      /\ k \notin DOMAIN s.val => t.expires = s.expires
  BY SetValueFrame
<1> QED
  BY <1>1, <1>2, PointedStays

LEMMA py_setLeaves ==
  ASSUME IInv, ObjectsLeft, NEW k \in Name, NEW t \in Text, py_set(k, t)
  PROVE  QuietBut({k}) /\ (Stays(k) \/ Expired(db, k))
<1>1. CASE db' = SetValue(db, k, Stored[t])
  <2>1. Stored[t] \in Content /\ Stored[t] # "freed"
    BY TextAssumption DEF Content
  <2>2. (\A y : y # k => Kept(db, db', y)) /\ k \in DOMAIN db'.val
    BY <1>1, <2>1, SettingKeeps DEF IInv, ObjectsLeft
  <2> QED
    BY <2>2 DEF QuietBut, Stays
<1>2. CASE Expired(db, k) /\ db' = check_expires(db, k)
  BY <1>2, PurgeIsQuiet DEF QuietBut
<1> QED
  BY <1>1, <1>2 DEF py_set, Becomes

LEMMA py_getsetLeaves ==
  ASSUME IInv, ObjectsLeft, NEW k \in Name, NEW t \in Text, py_getset(k, t)
  PROVE  QuietBut({k}) /\ Stays(k) /\ Stamp(k)
<1>0. /\ t \in Content /\ t # "freed" /\ Stored[t] \in Content /\ Stored[t] # "freed"
      /\ Good(db) /\ KeyLeft(db) /\ ValueLeft(db)
  BY TextAssumption DEF Content, IInv, ObjectsLeft
<1>1. CASE /\ k \in DOMAIN db.val
           /\ db' = [decrRefCount(CreateValue(db, NewValue(db), t), db.val[k].v)
                       EXCEPT !.val[k].v = NewValue(db)]
  <2>1. db' = PutValue(decrRefCount(CreateValue(db, NewValue(db), t), db.val[k].v), k, NewValue(db))
    BY <1>1 DEF PutValue
  <2>2. Good(db')
    BY <1>0, <1>1, <2>1, GetsetKeeps
  <2>3. /\ Mild(db, db') /\ \A y : y # k => Same(db, db', y)
        /\ DOMAIN db'.val = DOMAIN db.val /\ db'.expires = db.expires
    <3>1. Good(db) /\ ValueLeft(db) /\ k \in DOMAIN db.val
      BY <1>0, <1>1
    <3>2. Mild(db, db')
      BY <2>1, <3>1, GetsetFrame
    <3>3. \A y : y # k => Same(db, db', y)
      BY <2>1, <3>1, GetsetFrame
    <3>4. DOMAIN db'.val = DOMAIN db.val /\ db'.expires = db.expires
      BY <2>1, <3>1, GetsetFrame
    <3> QED
      BY <3>2, <3>3, <3>4
  <2>4. \A y : y # k => Kept(db, db', y)
    BY <1>0, <2>2, <2>3, PointedStays
  <2> QED
    BY <2>3, <2>4 DEF QuietBut, Stays, Stamp
<1>2. CASE k \notin DOMAIN db.val /\ db' = SetValue(db, k, Stored[t])
  <2>1. (\A y : y # k => Kept(db, db', y)) /\ db'.expires = db.expires
    BY <1>0, <1>2, SettingKeeps
  <2> QED
    BY <1>2, <2>1 DEF QuietBut, Stays, Stamp
<1> QED
  BY <1>1, <1>2 DEF py_getset, Becomes

LEMMA PushLeaves ==
  ASSUME IInv, ObjectsLeft, NEW k \in Name, NEW type \in Container, NEW leaky, Push(k, type, leaky)
  PROVE  QuietBut({k}) /\ Stays(k) /\ Stamp(k)
<1> DEFINE s == check_expires(db, k)
<1>1. /\ Good(s) /\ Frees(db, s)
      /\ \A y : y # k => Kept(db, s, y)
      /\ IF Expired(db, k) THEN k \notin DOMAIN s.val /\ k \notin DOMAIN s.expires ELSE s = db
  BY PurgeIsQuiet
<1>2. KeyLeft(s) /\ ValueLeft(s)
  BY <1>1, LeftAfterFrees DEF ObjectsLeft
<1>3. type \in Content /\ type # "freed"
  BY TextAssumption DEF Content
<1>4. \/ ~Visible(db, k) /\ db' = SetValue(s, k, type)
      \/ Visible(db, k) /\ (db' = db \/ db' = s)
      \/ Visible(db, k) /\ db' = CreateKey(s, NewKey(s))
  BY DEF Push, Becomes
<1> HIDE DEF s
<1>5. CASE ~Visible(db, k) /\ db' = SetValue(s, k, type)
  <2>1. k \notin DOMAIN s.val
    BY <1>1, <1>5 DEF Visible
  <2>2. /\ \A y : y # k => Kept(s, db', y)
        /\ k \in DOMAIN db'.val /\ db'.expires = s.expires
    BY <1>1, <1>2, <1>3, <1>5, <2>1, SettingKeeps
  <2>3. \A y : y # k => Kept(db, db', y)
    BY <1>1, <2>2, KeptTwice
  <2>4. Stamp(k)
    BY <1>1, <2>2 DEF Stamp
  <2> QED
    BY <2>2, <2>3, <2>4 DEF QuietBut, Stays
<1>6. CASE Visible(db, k) /\ (db' = db \/ db' = s \/ db' = CreateKey(s, NewKey(s)))
  <2>1. s = db
    BY <1>1, <1>6 DEF Visible
  <2>2. db'.val = db.val /\ db'.expires = db.expires /\ db'.what = db.what
    BY <1>1, <1>6, <2>1, GoodFields, CreateKeyFrame
  <2>3. \A y : Kept(db, db', y)
    BY <2>2 DEF Kept, Same, SameEntry
  <2> QED
    BY <2>3, KeptMeans DEF QuietBut
<1> QED
  BY <1>4, <1>5, <1>6

LEMMA py_delLeaves ==
  ASSUME IInv, NEW k \in Name, py_del(k)
  PROVE  QuietBut({k})
<1>1. Good(db) /\ Fields(db) /\ db' = delete_key(db, k)
  BY GoodFields DEF IInv, py_del, Becomes
<1>2. Good(db')
  BY <1>1, DeleteKeyKeeps
<1>3. Fades(db, db') /\ \A y : y # k => Same(db, db', y)
  BY <1>1, DeleteKeyFrame
<1> QED
  BY <1>1, <1>2, <1>3, FadingKeeps DEF QuietBut

LEMMA py_renameLeaves ==
  ASSUME IInv, ObjectsLeft, NEW k \in Name, NEW l \in Name, py_rename(k, l)
  PROVE  QuietBut({k, l}) /\ (k # l => Stays(l))
<1>0. Good(db) /\ Fields(db) /\ KeyLeft(db)
  BY GoodFields DEF IInv, ObjectsLeft
<1>1. CASE db' = check_expires(db, k)
  BY <1>1, PurgeIsQuiet, KeptMeans DEF QuietBut
<1>2. CASE /\ Visible(db, k)
           /\ k # l \/ db.ref[db.val[k].v] > 1
           /\ db' = Rename(db, k, l)
  <2>1. Good(db')
    BY <1>0, <1>2, RenameKeeps DEF Visible
  <2>2. /\ Mild(db, db') /\ \A y : y \notin {k, l} => Same(db, db', y)
        /\ k # l => l \in DOMAIN db'.val
    BY <1>0, <1>2, RenameFrame
  <2>3. \A y : y \notin {k, l} => Kept(db, db', y)
    BY <1>0, <2>1, <2>2, PointedStays
  <2> QED
    BY <2>2, <2>3 DEF QuietBut, Stays
<1>3. CASE k = l /\ db' = delete_key(db, k)
  <2>1. Good(db')
    BY <1>0, <1>3, DeleteKeyKeeps
  <2>2. Fades(db, db') /\ \A y : y # k => Same(db, db', y)
    BY <1>0, <1>3, DeleteKeyFrame
  <2> QED
    BY <1>0, <1>3, <2>1, <2>2, FadingKeeps DEF QuietBut
<1> QED
  BY <1>1, <1>2, <1>3 DEF py_rename, Becomes

LEMMA py_expireLeaves ==
  ASSUME IInv, NEW k \in Name, NEW when \in Deadline, py_expire(k, when)
  PROVE  QuietBut({k}) /\ Stays(k) /\ Stamp(k)
<1>1. CASE k \in DOMAIN db.val /\ db' = set_expires(db, k, when)
  <2>1. Good(db) /\ Good(db')
    BY <1>1, SetExpiresKeeps DEF IInv
  <2>2. /\ Mild(db, db') /\ \A y : y # k => Same(db, db', y)
        /\ db'.val = db.val
        /\ \A y : y \in DOMAIN db.expires => SameEntry(db.expires, db'.expires, y)
    BY <1>1, <2>1, SetExpiresFrame
  <2>3. \A y : y # k => Kept(db, db', y)
    BY <2>1, <2>2, PointedStays
  <2> QED
    BY <2>2, <2>3 DEF QuietBut, Stays, Stamp, SameEntry
<1>2. CASE db' = db
  BY <1>2, KeptMeans DEF QuietBut
<1> QED
  BY <1>1, <1>2 DEF py_expire, Becomes

-----------------------------------------------------------------------------
(* The properties. *)

(* The commands that write no entry: lookups, strlen, srem and spop. *)
Reads(k) == Lookup(k) \/ py_strlen(k) \/ Takes(k)

LEMMA Commands ==
  ASSUME Next
  PROVE  \/ \E k \in Name : Reads(k)
         \/ \E k \in Name, t \in Text : py_set(k, t)
         \/ \E k \in Name, t \in Text : py_getset(k, t)
         \/ \E k \in Name : py_del(k)
         \/ \E k \in Name : py_sadd(k)
         \/ \E k \in Name, type \in Container : py_push(k, type)
         \/ \E k, l \in Name : py_rename(k, l)
         \/ \E k \in Name, when \in Deadline : py_expire(k, when)
         \/ Tick
BY DEF Next, Reads, py_get, py_exists, py_type, py_getrange, py_srem, py_spop, Count, Element,
       Walk, Access

LEMMA ReadsAreQuiet ==
  ASSUME IInv, ObjectsLeft, NEW k \in Name, Reads(k)
  PROVE  Quiet
<1>1. Takes(k) => Quiet
  BY KeptMeans DEF Takes, Quiet
<1> QED
  BY <1>1, LookupIsQuiet, py_strlenIsQuiet DEF Reads

(* What a client gets of a key that was kept, or purged.                   *)
LEMMA KeptIsSeen ==
  ASSUME NEW k, Kept(db, db', k) \/ Purged(k), now' = now
  PROVE  Sees(k)' = Sees(k)
<1>1. CASE Kept(db, db', k)
  BY <1>1 DEF Kept, Same, SameEntry, Sees, Visible, Expired, get_value
<1>2. CASE Purged(k)
  BY <1>2 DEF Purged, Sees, Visible
<1> QED
  BY <1>1, <1>2

(* Every step keeps or purges the keys it does not write.                  *)
LEMMA OthersAreKept ==
  ASSUME IInv, ObjectsLeft, Next, NEW y \in Name, ~Tick
  PROVE  Kept(db, db', y) \/ Purged(y) \/ Writes(y)
<1>1. ASSUME NEW k \in Name, Reads(k)
      PROVE  Kept(db, db', y) \/ Purged(y)
  BY <1>1, ReadsAreQuiet DEF Quiet
<1>2. ASSUME NEW k \in Name, NEW t \in Text, py_set(k, t) \/ py_getset(k, t)
      PROVE  Kept(db, db', y) \/ Writes(y)
  <2>1. QuietBut({k})
    BY <1>2, py_setLeaves, py_getsetLeaves
  <2> QED
    BY <1>2, <2>1 DEF QuietBut, Writes
<1>3. ASSUME NEW k \in Name, py_del(k)
      PROVE  Kept(db, db', y) \/ Writes(y)
  BY <1>3, py_delLeaves DEF QuietBut, Writes
<1>4. ASSUME NEW k \in Name, NEW type \in Container, py_sadd(k) \/ py_push(k, type)
      PROVE  Kept(db, db', y) \/ Writes(y)
  <2>1. QuietBut({k})
    BY <1>4, PushLeaves, TextAssumption DEF py_sadd, py_push
  <2> QED
    BY <1>4, <2>1 DEF QuietBut, Writes
<1>5. ASSUME NEW k \in Name, NEW l \in Name, py_rename(k, l)
      PROVE  Kept(db, db', y) \/ Writes(y)
  BY <1>5, py_renameLeaves DEF QuietBut, Writes
<1>6. ASSUME NEW k \in Name, NEW when \in Deadline, py_expire(k, when)
      PROVE  Kept(db, db', y) \/ Writes(y)
  BY <1>6, py_expireLeaves DEF QuietBut, Writes
<1>7. "set" \in Container
  BY TextAssumption
<1> QED
  BY <1>1, <1>2, <1>3, <1>4, <1>5, <1>6, <1>7, Commands

(* The parts of NothingGoesEarly, of the key y.                            *)
ValueGoes(y) == y \in DOMAIN db.val \ DOMAIN db'.val =>
                  Expired(db, y) \/ py_del(y) \/ \E l \in Name : py_rename(y, l)
DeadlineGoes(y) ==
  y \in DOMAIN db.expires =>
    \/ /\ y \in DOMAIN db'.expires
       /\ \/ db'.expires[y].when = db.expires[y].when
          \/ \E when \in Deadline : py_expire(y, when)
    \/ y \notin DOMAIN db'.expires /\ Expired(db, y)
    \/ py_del(y) \/ \E t \in Text : py_set(y, t)
    \/ \E l \in Name : py_rename(y, l) \/ py_rename(l, y)

LEMMA StaysGoes ==
  ASSUME NEW y
  PROVE  /\ Kept(db, db', y) \/ Purged(y) => ValueGoes(y) /\ DeadlineGoes(y)
         /\ Stays(y) \/ Expired(db, y) => ValueGoes(y)
         /\ Stamp(y) => DeadlineGoes(y)
<1>1. Purged(y) => ValueGoes(y) /\ DeadlineGoes(y)
  BY DEF Purged, ValueGoes, DeadlineGoes
<1>2. Stays(y) \/ Expired(db, y) => ValueGoes(y)
  BY DEF Stays, ValueGoes
<1>3. Stamp(y) => DeadlineGoes(y)
  BY DEF Stamp, DeadlineGoes
<1> QED
  BY <1>1, <1>2, <1>3, KeptMeans

LEMMA NothingGoes ==
  ASSUME IInv, ObjectsLeft, Next, NEW y \in Name
  PROVE  ValueGoes(y) /\ DeadlineGoes(y)
<1>1. ASSUME NEW k \in Name, Reads(k)
      PROVE  ValueGoes(y) /\ DeadlineGoes(y)
  BY <1>1, ReadsAreQuiet, StaysGoes DEF Quiet
<1>2. ASSUME NEW K, QuietBut(K), y \notin K
      PROVE  ValueGoes(y) /\ DeadlineGoes(y)
  BY <1>2, StaysGoes DEF QuietBut
<1>3. ASSUME NEW t \in Text, py_set(y, t)
      PROVE  ValueGoes(y) /\ DeadlineGoes(y)
  <2>1. ValueGoes(y)
    BY <1>3, py_setLeaves, StaysGoes
  <2>2. DeadlineGoes(y)
    BY <1>3 DEF DeadlineGoes
  <2> QED
    BY <2>1, <2>2
<1>4. ASSUME QuietBut({y}) /\ Stays(y) /\ Stamp(y)
      PROVE  ValueGoes(y) /\ DeadlineGoes(y)
  BY <1>4, StaysGoes
<1>5. ASSUME NEW k \in Name, NEW t \in Text, py_set(k, t)
      PROVE  ValueGoes(y) /\ DeadlineGoes(y)
  <2>1. QuietBut({k})
    BY <1>5, py_setLeaves
  <2> QED
    BY <1>2, <1>3, <1>5, <2>1
<1>6. ASSUME NEW k \in Name, NEW t \in Text, py_getset(k, t)
      PROVE  ValueGoes(y) /\ DeadlineGoes(y)
  <2>1. QuietBut({k}) /\ Stays(k) /\ Stamp(k)
    BY <1>6, py_getsetLeaves
  <2> QED
    BY <1>2, <1>4, <2>1
<1>7. ASSUME NEW k \in Name, py_del(k)
      PROVE  ValueGoes(y) /\ DeadlineGoes(y)
  <2>1. QuietBut({k})
    BY <1>7, py_delLeaves
  <2>2. py_del(y) => ValueGoes(y) /\ DeadlineGoes(y)
    BY DEF ValueGoes, DeadlineGoes
  <2> QED
    BY <1>2, <1>7, <2>1, <2>2
<1>8. ASSUME NEW k \in Name, NEW type \in Container, py_sadd(k) \/ py_push(k, type)
      PROVE  ValueGoes(y) /\ DeadlineGoes(y)
  <2>1. QuietBut({k}) /\ Stays(k) /\ Stamp(k)
    BY <1>8, PushLeaves, TextAssumption DEF py_sadd, py_push
  <2> QED
    BY <1>2, <1>4, <2>1
<1>9. ASSUME NEW k \in Name, NEW l \in Name, py_rename(k, l)
      PROVE  ValueGoes(y) /\ DeadlineGoes(y)
  <2>1. QuietBut({k, l}) /\ (k # l => Stays(l))
    BY <1>9, py_renameLeaves
  <2>2. CASE y \notin {k, l}
    BY <1>2, <2>1, <2>2
  <2>3. CASE y = k
    BY <1>9, <2>3 DEF ValueGoes, DeadlineGoes
  <2>4. CASE y = l /\ k # l
    <3>1. ValueGoes(y)
      BY <2>1, <2>4, StaysGoes
    <3>2. DeadlineGoes(y)
      BY <1>9, <2>4 DEF DeadlineGoes
    <3> QED
      BY <3>1, <3>2
  <2> QED
    BY <2>2, <2>3, <2>4
<1>10. ASSUME NEW k \in Name, NEW when \in Deadline, py_expire(k, when)
       PROVE  ValueGoes(y) /\ DeadlineGoes(y)
  <2>1. QuietBut({k}) /\ Stays(k) /\ Stamp(k)
    BY <1>10, py_expireLeaves
  <2> QED
    BY <1>2, <1>4, <2>1
<1>11. CASE Tick
  <2>1. Kept(db, db', y)
    BY <1>11, KeptMeans DEF Tick
  <2> QED
    BY <2>1, StaysGoes
<1>12. "set" \in Container
  BY TextAssumption
<1> QED
  BY <1>1, <1>5, <1>6, <1>7, <1>8, <1>9, <1>10, <1>11, <1>12, Commands

(* What no pointer accounts for changes only on the paths that keep the    *)
(* reference they took.                                                    *)
Keeps ==
  \E k \in Name :
    \/ py_strlen(k) /\ reply' # "typerr"
    \/ reply' = "typerr" /\ \E type \in Container : py_push(k, type)
    \/ k \in DOMAIN db.expires /\ \E when \in Deadline : py_expire(k, when)

LEMMA LookupLosesNothing ==
  ASSUME IInv, NEW k, db' = check_expires(db, k)
  PROVE  Lost(db') = Lost(db)
BY CheckExpiresKeeps DEF IInv

LEMMA PushLosesNothing ==
  ASSUME IInv, ObjectsLeft, NEW k \in Name, NEW type \in Container, NEW leaky \in BOOLEAN,
         Push(k, type, leaky)
  PROVE  Lost(db') = Lost(db) \/ (leaky /\ reply' = "typerr")
<1> DEFINE s == check_expires(db, k)
<1>1. Good(s) /\ Lost(s) = Lost(db) /\ Frees(db, s)
  BY CheckExpiresKeeps DEF IInv
<1>2. KeyLeft(s) /\ ValueLeft(s)
  BY <1>1, LeftAfterFrees DEF ObjectsLeft
<1>3. type \in Content /\ type # "freed"
  BY TextAssumption DEF Content
<1>4. \/ db' = SetValue(s, k, type)
      \/ db' = db
      \/ db' = s
      \/ leaky /\ reply' = "typerr"
  BY DEF Push, Becomes
<1> HIDE DEF s
<1>5. CASE db' = SetValue(s, k, type)
  <2>1. Lost(db') = Lost(s)
    BY <1>1, <1>2, <1>3, <1>5, SetValueKeeps
  <2>2. Lost(db') = Lost(db)
    BY <1>1, <2>1
  <2> QED
    BY <2>2
<1>6. CASE db' = s
  <2>1. Lost(db') = Lost(db)
    BY <1>1, <1>6
  <2> QED
    BY <2>1
<1>7. CASE leaky /\ reply' = "typerr"
  BY <1>7
<1> QED
  BY <1>4, <1>5, <1>6, <1>7

LEMMA OnlyKnownPathsLose ==
  ASSUME IInv, ObjectsLeft, Next, ~undefined'
  PROVE  Lost(db') = Lost(db) \/ Keeps
<1>0. Good(db) /\ KeyLeft(db) /\ ValueLeft(db)
  BY DEF IInv, ObjectsLeft
<1>1. ASSUME NEW k \in Name, Reads(k)
      PROVE  Lost(db') = Lost(db) \/ Keeps
  <2>1. CASE db' = check_expires(db, k)
    BY <2>1, LookupLosesNothing
  <2>2. CASE py_strlen(k) /\ reply' = "number"
    BY <2>2 DEF Keeps
  <2>3. db' = check_expires(db, k) \/ db' = db \/ (py_strlen(k) /\ reply' = "number")
    BY <1>1 DEF Reads, Lookup, Becomes, Takes, py_strlen
  <2> QED
    BY <2>1, <2>2, <2>3
<1>2. ASSUME NEW k \in Name, NEW t \in Text, db' = SetValue(db, k, Stored[t])
      PROVE  Lost(db') = Lost(db)
  <2>1. Stored[t] \in Content /\ Stored[t] # "freed"
    BY TextAssumption DEF Content
  <2> QED
    BY <1>0, <1>2, <2>1, SetValueKeeps
<1>3. ASSUME NEW k \in Name, NEW t \in Text, py_set(k, t)
      PROVE  Lost(db') = Lost(db)
  BY <1>2, <1>3 DEF py_set, Becomes
<1>4. ASSUME NEW k \in Name, NEW t \in Text, py_getset(k, t)
      PROVE  Lost(db') = Lost(db)
  <2>1. CASE /\ k \in DOMAIN db.val
             /\ db' = [decrRefCount(CreateValue(db, NewValue(db), t), db.val[k].v)
                         EXCEPT !.val[k].v = NewValue(db)]
    <3>1. db' = PutValue(decrRefCount(CreateValue(db, NewValue(db), t), db.val[k].v), k, NewValue(db))
      BY <2>1 DEF PutValue
    <3>2. t \in Content /\ t # "freed"
      BY TextAssumption DEF Content
    <3> QED
      BY <1>0, <2>1, <3>1, <3>2, GetsetKeeps
  <2> QED
    BY <1>2, <1>4, <2>1 DEF py_getset, Becomes
<1>5. ASSUME NEW k \in Name, py_del(k)
      PROVE  Lost(db') = Lost(db)
  BY <1>0, <1>5, DeleteKeyKeeps DEF py_del, Becomes
<1>6. ASSUME NEW k \in Name, py_sadd(k)
      PROVE  Lost(db') = Lost(db)
  BY <1>6, PushLosesNothing, TextAssumption DEF py_sadd
<1>7. ASSUME NEW k \in Name, NEW type \in Container, py_push(k, type)
      PROVE  Lost(db') = Lost(db) \/ Keeps
  <2>1. Lost(db') = Lost(db) \/ reply' = "typerr"
    BY <1>7, PushLosesNothing DEF py_push
  <2> QED
    BY <1>7, <2>1 DEF Keeps
<1>8. ASSUME NEW k \in Name, NEW l \in Name, py_rename(k, l)
      PROVE  Lost(db') = Lost(db)
  <2>1. CASE db' = check_expires(db, k)
    BY <2>1, LookupLosesNothing
  <2>2. CASE /\ Visible(db, k)
             /\ k # l \/ db.ref[db.val[k].v] > 1
             /\ db' = Rename(db, k, l)
    BY <1>0, <2>2, RenameKeeps DEF Visible
  <2> QED
    BY <1>8, <2>1, <2>2 DEF py_rename, Becomes
<1>9. ASSUME NEW k \in Name, NEW when \in Deadline, py_expire(k, when)
      PROVE  Lost(db') = Lost(db) \/ Keeps
  <2>1. CASE k \in DOMAIN db.expires
    BY <1>9, <2>1 DEF Keeps
  <2>2. CASE k \notin DOMAIN db.expires
    BY <1>0, <1>9, <2>2, SetExpiresKeeps DEF py_expire, Becomes
  <2> QED
    BY <2>1, <2>2
<1>10. CASE Tick
  BY <1>10 DEF Tick
<1> QED
  BY <1>1, <1>3, <1>4, <1>5, <1>6, <1>7, <1>8, <1>9, <1>10, Commands

(* A command changes only what clients see of the keys it names, whatever  *)
(* values the keys share and whatever it purges.                           *)
THEOREM OthersAreUntouched == Spec /\ []ObjectsLeft => OthersUntouched
<1> DEFINE A == db' # db /\ ~undefined' /\ now' = now => \A k \in Name : Sees(k)' # Sees(k) => Writes(k)
<1>1. IInv /\ ObjectsLeft /\ [Next]_vars => [A]_vars
  <2> SUFFICES ASSUME IInv, ObjectsLeft, Next, now' = now, NEW k \in Name
               PROVE  Sees(k)' # Sees(k) => Writes(k)
    OBVIOUS
  <2>1. ~Tick
    BY TimeAssumption DEF Tick, IInv
  <2>2. Kept(db, db', k) \/ Purged(k) \/ Writes(k)
    BY <2>1, OthersAreKept
  <2>3. (Kept(db, db', k) \/ Purged(k)) => Sees(k)' = Sees(k)
    BY KeptIsSeen
  <2> QED
    BY <2>2, <2>3
<1>2. Spec /\ []ObjectsLeft => [][A]_vars
  BY <1>1, Inductive, PTL DEF Spec
<1> QED
  BY <1>2 DEF OthersUntouched

(* No key and no deadline goes before its time, and only expire gives a    *)
(* key another deadline, whatever the commands.                            *)
THEOREM NothingGoesBeforeItsTime == Spec /\ []ObjectsLeft => NothingGoesEarly
<1> DEFINE A == db' # db =>
                /\ \A k \in DOMAIN db.val \ DOMAIN db'.val :
                      Expired(db, k) \/ py_del(k) \/ \E l \in Name : py_rename(k, l)
                /\ \A k \in DOMAIN db.expires :
                      \/ /\ k \in DOMAIN db'.expires
                         /\ \/ db'.expires[k].when = db.expires[k].when
                            \/ \E when \in Deadline : py_expire(k, when)
                      \/ k \notin DOMAIN db'.expires /\ Expired(db, k)
                      \/ py_del(k) \/ \E t \in Text : py_set(k, t)
                      \/ \E l \in Name : py_rename(k, l) \/ py_rename(l, k)
<1>1. IInv /\ ObjectsLeft /\ [Next]_vars => [A]_vars
  <2> SUFFICES ASSUME IInv, ObjectsLeft, Next
               PROVE  A
    OBVIOUS
  <2>1. \A k \in Name : ValueGoes(k) /\ DeadlineGoes(k)
    BY NothingGoes
  <2>2. DOMAIN db.val \subseteq Name /\ DOMAIN db.expires \subseteq Name
    BY DEF IInv, Good, Sound, Shape
  <2> QED
    BY <2>1, <2>2 DEF ValueGoes, DeadlineGoes
<1>2. Spec /\ []ObjectsLeft => [][A]_vars
  BY <1>1, Inductive, PTL DEF Spec
<1> QED
  BY <1>2 DEF NothingGoesEarly

(* Every command gives back the references it took, object by object, but  *)
(* for strlen, the refused hset, lpush, rpush and zadd, and a second       *)
(* expire, whatever the keys share and however the commands are mixed.     *)
THEOREM LossesAreKnown == Spec /\ []ObjectsLeft => LeaksOnlyWhereKnown
<1> DEFINE A == db' # db /\ ~undefined' /\ Lost(db') # Lost(db) =>
                  \E k \in Name :
                    \/ py_strlen(k) /\ reply' # "typerr"
                    \/ reply' = "typerr" /\ \E type \in Container : py_push(k, type)
                    \/ k \in DOMAIN db.expires /\ \E when \in Deadline : py_expire(k, when)
<1>1. IInv /\ ObjectsLeft /\ [Next]_vars => [A]_vars
  <2> SUFFICES ASSUME IInv, ObjectsLeft, Next
               PROVE  A
    OBVIOUS
  <2> QED
    BY OnlyKnownPathsLose DEF Keeps
<1>2. Spec /\ []ObjectsLeft => [][A]_vars
  BY <1>1, Inductive, PTL DEF Spec
<1> QED
  BY <1>2 DEF LeaksOnlyWhereKnown
=============================================================================
