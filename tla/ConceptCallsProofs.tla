------------------------- MODULE ConceptCallsProofs --------------------------
(***************************************************************************)
(* Theorems about calls on remote concepts (module ConceptCalls), for any  *)
(* schema, any number of handles and any calls under way: a concept that   *)
(* has been renamed through its own handle alone knows its name, although  *)
(* it learns of a new one only when its await is over; requests reach what *)
(* they mean; and isDeleted() tells what the server had when it looked.    *)
(***************************************************************************)
EXTENDS ConceptCalls, SequenceTheorems, TLAPS

-----------------------------------------------------------------------------
(* Lists of calls.                                                         *)

IsSequence(s) == s \in Seq(ToSet(s))

LEMMA SequenceOfAny ==
  ASSUME NEW S, NEW s \in Seq(S)
  PROVE  IsSequence(s) /\ Len(s) \in Nat /\ DOMAIN s = 1 .. Len(s)
<1>1. Len(s) \in Nat /\ DOMAIN s = 1 .. Len(s) /\ s = [k \in 1 .. Len(s) |-> s[k]]
  BY LenProperties
<1>2. \A k \in 1 .. Len(s) : s[k] \in ToSet(s)
  BY <1>1 DEF ToSet
<1>3. [k \in 1 .. Len(s) |-> s[k]] \in Seq(ToSet(s))
  BY <1>1, <1>2, IsASeq
<1> QED BY <1>1, <1>3 DEF IsSequence

LEMMA SequenceWithin ==
  ASSUME NEW s, IsSequence(s), NEW S, ToSet(s) \subseteq S
  PROVE  s \in Seq(S)
<1>1. Len(s) \in Nat /\ DOMAIN s = 1 .. Len(s) /\ s = [k \in 1 .. Len(s) |-> s[k]]
  BY LenProperties DEF IsSequence
<1>2. \A k \in 1 .. Len(s) : s[k] \in S
  BY <1>1 DEF ToSet
<1>3. [k \in 1 .. Len(s) |-> s[k]] \in Seq(S)
  BY <1>1, <1>2, IsASeq
<1> QED BY <1>1, <1>3

LEMMA Appended ==
  ASSUME NEW s, IsSequence(s), NEW c
  PROVE  LET t == Append(s, c)
         IN  /\ IsSequence(t) /\ Len(t) = Len(s) + 1
             /\ \A k \in 1 .. Len(s) : t[k] = s[k]
             /\ t[Len(s) + 1] = c
<1> DEFINE S == ToSet(s) \cup {c}
<1>1. s \in Seq(S) /\ c \in S
  BY SequenceWithin
<1> HIDE DEF S
<1>2. /\ Append(s, c) \in Seq(S) /\ Len(Append(s, c)) = Len(s) + 1
      /\ \A k \in 1 .. Len(s) : Append(s, c)[k] = s[k]
      /\ Append(s, c)[Len(s) + 1] = c
  BY <1>1, AppendProperties
<1>3. IsSequence(Append(s, c))
  BY <1>2, SequenceOfAny
<1> QED BY <1>2, <1>3

LEMMA Replaced ==
  ASSUME NEW s, IsSequence(s), NEW i \in DOMAIN s, NEW c
  PROVE  LET t == [s EXCEPT ![i] = c]
         IN  /\ IsSequence(t) /\ Len(t) = Len(s)
             /\ \A k \in 1 .. Len(s) : t[k] = IF k = i THEN c ELSE s[k]
<1> DEFINE S == ToSet(s) \cup {c}
           t == [s EXCEPT ![i] = c]
<1>1. s \in Seq(S) /\ c \in S
  BY SequenceWithin
<1>2. Len(s) \in Nat /\ DOMAIN s = 1 .. Len(s) /\ s \in [1 .. Len(s) -> S]
  BY <1>1, LenProperties
<1>3. t \in [1 .. Len(s) -> S]
  BY <1>1, <1>2
<1>4. /\ t = [k \in 1 .. Len(s) |-> t[k]]
      /\ \A k \in 1 .. Len(s) : t[k] = IF k = i THEN c ELSE s[k]
  BY <1>2, <1>3
<1>5. [k \in 1 .. Len(s) |-> t[k]] \in Seq(S)
  BY <1>2, <1>3, IsASeq
<1>6. t \in Seq(S) /\ DOMAIN t = 1 .. Len(s)
  BY <1>4, <1>5
<1>7. Len(t) = Len(s)
  BY <1>2, <1>6, LenProperties
<1>8. IsSequence(t)
  BY <1>6, SequenceOfAny
<1> QED BY <1>4, <1>7, <1>8

LEMMA Prefixed ==
  ASSUME NEW s, IsSequence(s), NEW i \in DOMAIN s
  PROVE  LET t == SubSeq(s, 1, i - 1)
         IN  /\ IsSequence(t) /\ Len(t) = i - 1
             /\ \A k \in 1 .. i - 1 : t[k] = s[k]
<1>1. Len(s) \in Nat /\ DOMAIN s = 1 .. Len(s) /\ s \in [1 .. Len(s) -> ToSet(s)]
  BY LenProperties DEF IsSequence
<1>2. i \in 1 .. Len(s) /\ 1 \in Int /\ i - 1 \in Int
  BY <1>1
<1>3. \A k \in 1 .. i - 1 : s[k] \in ToSet(s)
  BY <1>1, <1>2
<1>4. /\ SubSeq(s, 1, i - 1) \in Seq(ToSet(s))
      /\ Len(SubSeq(s, 1, i - 1)) = IF 1 <= i - 1 THEN i - 1 - 1 + 1 ELSE 0
      /\ \A k \in 1 .. i - 1 - 1 + 1 : SubSeq(s, 1, i - 1)[k] = s[1 + k - 1]
  BY <1>2, <1>3, SubSeqProperties
<1>5. IsSequence(SubSeq(s, 1, i - 1))
  BY <1>4, SequenceOfAny
<1>6. Len(SubSeq(s, 1, i - 1)) = i - 1
  BY <1>2, <1>4
<1>7. ASSUME NEW k \in 1 .. i - 1
      PROVE  SubSeq(s, 1, i - 1)[k] = s[k]
  <2>1. k \in 1 .. i - 1 - 1 + 1 /\ 1 + k - 1 = k
    BY <1>2
  <2> QED BY <1>4, <2>1
<1> QED BY <1>5, <1>6, <1>7

LEMMA Removed ==
  ASSUME NEW s, IsSequence(s), NEW i \in DOMAIN s
  PROVE  LET t == RemoveAt(s, i)
         IN  /\ IsSequence(t) /\ Len(t) = Len(s) - 1
             /\ \A k \in 1 .. Len(s) - 1 : t[k] = IF k < i THEN s[k] ELSE s[k + 1]
<1> DEFINE S == ToSet(s)
           a == SubSeq(s, 1, i - 1)
           b == SubSeq(s, i + 1, Len(s))
<1>1. Len(s) \in Nat /\ DOMAIN s = 1 .. Len(s) /\ s \in [1 .. Len(s) -> S]
  BY LenProperties DEF IsSequence
<1>2. i \in 1 .. Len(s) /\ i + 1 \in Int /\ Len(s) \in Int
  BY <1>1
<1>3. IsSequence(a) /\ Len(a) = i - 1 /\ \A k \in 1 .. i - 1 : a[k] = s[k]
  BY Prefixed
<1>4. \A k \in i + 1 .. Len(s) : s[k] \in S
  BY <1>1, <1>2
<1>5. /\ b \in Seq(S)
      /\ Len(b) = IF i + 1 <= Len(s) THEN Len(s) - (i + 1) + 1 ELSE 0
      /\ \A k \in 1 .. Len(s) - (i + 1) + 1 : b[k] = s[i + 1 + k - 1]
  BY <1>2, <1>4, SubSeqProperties
<1>6. ToSet(a) \subseteq S
  <2>1. DOMAIN a = 1 .. Len(a)
    BY <1>3, LenProperties DEF IsSequence
  <2>2. \A k \in 1 .. i - 1 : a[k] \in S
    BY <1>1, <1>2, <1>3
  <2> HIDE DEF a, S
  <2> QED BY <1>3, <2>1, <2>2 DEF ToSet
<1>7. a \in Seq(S)
  BY <1>3, <1>6, SequenceWithin
<1>8. Len(b) = Len(s) - i /\ \A k \in 1 .. Len(s) - i : b[k] = s[i + k]
  <2>1. Len(b) = Len(s) - i
    BY <1>2, <1>5
  <2>2. ASSUME NEW k \in 1 .. Len(s) - i
        PROVE  b[k] = s[i + k]
    <3>1. k \in 1 .. Len(s) - (i + 1) + 1 /\ i + 1 + k - 1 = i + k
      BY <1>1, <1>2
    <3> QED BY <1>5, <3>1
  <2> QED BY <2>1, <2>2
<1> HIDE DEF a, b, S
<1>9. /\ a \o b \in Seq(S) /\ Len(a \o b) = Len(a) + Len(b)
      /\ \A k \in 1 .. Len(a) + Len(b) :
            (a \o b)[k] = IF k <= Len(a) THEN a[k] ELSE b[k - Len(a)]
  BY <1>5, <1>7, ConcatProperties
<1>10. IsSequence(a \o b) /\ Len(a \o b) = Len(s) - 1
  <2>1. IsSequence(a \o b)
    BY <1>9, SequenceOfAny
  <2>2. Len(a) + Len(b) = Len(s) - 1
    BY <1>1, <1>2, <1>3, <1>8
  <2> QED BY <1>9, <2>1, <2>2
<1>11. ASSUME NEW k \in 1 .. Len(s) - 1
       PROVE  (a \o b)[k] = IF k < i THEN s[k] ELSE s[k + 1]
  <2>1. k \in 1 .. Len(a) + Len(b)
    BY <1>1, <1>2, <1>3, <1>8
  <2>2. CASE k < i
    BY <1>2, <1>3, <1>9, <2>1, <2>2
  <2>3. CASE ~(k < i)
    <3>1. ~(k <= Len(a)) /\ k - Len(a) \in 1 .. Len(s) - i /\ i + (k - Len(a)) = k + 1
      BY <1>1, <1>2, <1>3, <2>3
    <3> QED BY <1>8, <1>9, <2>1, <2>3, <3>1
  <2> QED BY <2>2, <2>3
<1> QED BY <1>10, <1>11 DEF a, b, RemoveAt

-----------------------------------------------------------------------------
(* The invariant.                                                          *)

\* Is c a setLabel() of h?  Does it wait for the server, or for the end of its
\* await?
IsOwn(h, c) == c.caller = h /\ c.name = "setLabel"
Waits(h, c) == IsOwn(h, c) /\ c.stage = "sent"
IsServed(h, c) == IsOwn(h, c) /\ c.stage = "answered"

\* What h knows of what it means.  "own" is how a request through h names it
\* and "form" how the server names it, which knows it as "name": they agree
\* unless there is one answered setLabel() of h, which makes them agree when it
\* is resumed.  Either every setLabel() that waits names it as h does, or the
\* next one does not name it at all.
Knows(h, s, own, form, name) ==
    /\ \/ /\ own = form
          /\ \A i \in DOMAIN s : ~IsServed(h, s[i])
       \/ /\ own # form
          /\ \E i \in DOMAIN s :
                /\ IsServed(h, s[i]) /\ s[i].request.fields.label = name
                /\ \A j \in DOMAIN s : IsServed(h, s[j]) => j = i
    /\ \/ \A i \in DOMAIN s : ~IsServed(h, s[i])
                                /\ (Waits(h, s[i]) => s[i].request.on = own)
       \/ \A i \in DOMAIN s :
             Waits(h, s[i]) /\ (\A j \in DOMAIN s : j < i => ~Waits(h, s[j]))
                => s[i].request.on # form

Named(h) == meant[h] \notin ThingIds
Form(x) == IF x \in RuleIds THEN OnRule(names[x]) ELSE OnType(Label(ScopeName(x), names[x]))
Own(h) == IF meant[h] \in RuleIds THEN OnRule(concepts[h].label) ELSE OnType(concepts[h].label)

Entities == TypeIds \cup RuleIds
Domains ==
    /\ DOMAIN names = Entities /\ DOMAIN renamers = Entities
    /\ DOMAIN concepts = Handle
    /\ meant \in [Handle -> Entities \cup ThingIds]

IsRule(c) == DOMAIN c = {"class", "remote", "label"} /\ c.class = "Rule"
IsType(c) ==
    /\ DOMAIN c = {"class", "remote", "label", "root"} /\ c.class # "Rule"
    /\ c.label = Label(c.label.scope, c.label.name)
IsThing(c) == DOMAIN c = {"class", "remote", "iid", "type"}
IsConcept(x, c) ==
    /\ c.class \in DOMAIN Methods
    /\ x \in ThingIds => IsThing(c)
    /\ x \in RuleIds => IsRule(c)
    /\ x \in TypeIds => IsType(c)
ConceptsOK == \A h \in Handle : IsConcept(meant[h], concepts[h])

IsCall(c) ==
    /\ DOMAIN c = {"caller", "name", "args", "request", "thrown", "raced", "stage", "answer",
                   "stale", "existed"}
    /\ c.stage \in {"sent", "answered"}
    /\ (c.name = "setLabel") <=> (c.request.message = "setLabel")
    /\ c.request.message = "delete" => c.request.on # OnManager
    /\ c.name = "setLabel" =>
          /\ ~c.thrown /\ c.caller \in Handle
          /\ \/ c.request.on = OnRule(c.request.on.label)
             \/ c.request.on = OnType(Label(c.request.on.scope, c.request.on.label))
\* The server answers in the order of the requests.
AreCalls(s) ==
    /\ IsSequence(s)
    /\ \A i \in DOMAIN s : IsCall(s[i])
    /\ \A i, j \in DOMAIN s : i < j /\ s[i].stage = "sent" => s[j].stage = "sent"
CallsOK == AreCalls(calls)

ScopeKnown(h) == meant[h] \in TypeIds => concepts[h].label.scope = ScopeName(meant[h])
Known(h) ==
    /\ ScopeKnown(h)
    /\ Knows(h, calls, Own(h), Form(meant[h]), names[meant[h]])
AllKnown == \A h \in Handle : Named(h) /\ StillThere(h) => Known(h)

CallInv == Domains /\ ConceptsOK /\ CallsOK /\ AllKnown

-----------------------------------------------------------------------------
(* What keeps the calls and what a concept knows.                          *)

LEMMA KnowsKept ==
  ASSUME NEW h, NEW s, NEW t, NEW f, NEW own, NEW form, NEW name,
         IsSequence(s), IsSequence(t),
         \A k \in DOMAIN t : IsOwn(h, t[k]) => f[k] \in DOMAIN s /\ s[f[k]] = t[k],
         \A k \in DOMAIN s : IsOwn(h, s[k]) => \E m \in DOMAIN t : f[m] = k /\ t[m] = s[k],
         \A k, m \in DOMAIN t : k < m => f[k] < f[m],
         Knows(h, s, own, form, name)
  PROVE  Knows(h, t, own, form, name)
<1>1. DOMAIN s \subseteq Nat /\ DOMAIN t \subseteq Nat
  BY LenProperties DEF IsSequence
<1>2. \A k \in DOMAIN t : IsServed(h, t[k]) => f[k] \in DOMAIN s /\ IsServed(h, s[f[k]])
  BY DEF IsServed
<1>3. \A k, m \in DOMAIN t : f[k] = f[m] /\ f[k] \in DOMAIN s => k = m
  BY <1>1
<1>4. ASSUME own = form, \A i \in DOMAIN s : ~IsServed(h, s[i])
      PROVE  own = form /\ \A i \in DOMAIN t : ~IsServed(h, t[i])
  BY <1>2, <1>4
<1>5. ASSUME own # form, NEW i \in DOMAIN s, IsServed(h, s[i]),
             s[i].request.fields.label = name, \A j \in DOMAIN s : IsServed(h, s[j]) => j = i
      PROVE  \E k \in DOMAIN t : /\ IsServed(h, t[k]) /\ t[k].request.fields.label = name
                                 /\ \A j \in DOMAIN t : IsServed(h, t[j]) => j = k
  <2>1. PICK k \in DOMAIN t : f[k] = i /\ t[k] = s[i]
    BY <1>5 DEF IsServed
  <2>2. ASSUME NEW j \in DOMAIN t, IsServed(h, t[j])
        PROVE  j = k
    BY <1>2, <1>3, <1>5, <2>1, <2>2
  <2> QED BY <1>5, <2>1, <2>2
<1>6. ASSUME \A i \in DOMAIN s : ~IsServed(h, s[i])
                                   /\ (Waits(h, s[i]) => s[i].request.on = own),
             NEW i \in DOMAIN t
      PROVE  ~IsServed(h, t[i]) /\ (Waits(h, t[i]) => t[i].request.on = own)
  BY <1>2, <1>6 DEF Waits
<1>7. ASSUME \A i \in DOMAIN s :
                Waits(h, s[i]) /\ (\A j \in DOMAIN s : j < i => ~Waits(h, s[j]))
                   => s[i].request.on # form,
             NEW i \in DOMAIN t, Waits(h, t[i]), \A j \in DOMAIN t : j < i => ~Waits(h, t[j])
      PROVE  t[i].request.on # form
  <2>1. f[i] \in DOMAIN s /\ s[f[i]] = t[i]
    BY <1>7 DEF Waits
  <2>2. ASSUME NEW j \in DOMAIN s, j < f[i], Waits(h, s[j])
        PROVE  FALSE
    <3>1. PICK m \in DOMAIN t : f[m] = j /\ t[m] = s[j]
      BY <2>2 DEF Waits
    <3>2. ~(m < i)
      BY <1>7, <2>2, <3>1
    <3>3. m = i \/ i < m
      BY <1>1, <3>2
    <3>4. ~(f[i] < f[m]) /\ f[m] # f[i]
      BY <1>1, <2>1, <2>2, <3>1
    <3> QED BY <3>3, <3>4
  <2> QED BY <1>7, <2>1, <2>2
<1>8. \/ own = form /\ \A i \in DOMAIN t : ~IsServed(h, t[i])
      \/ own # form /\ \E k \in DOMAIN t :
            /\ IsServed(h, t[k]) /\ t[k].request.fields.label = name
            /\ \A j \in DOMAIN t : IsServed(h, t[j]) => j = k
  BY <1>4, <1>5 DEF Knows
<1> QED BY <1>6, <1>7, <1>8, Zenon DEF Knows

LEMMA RemovedKnows ==
  ASSUME NEW h, NEW s, NEW i \in DOMAIN s, NEW own, NEW form, NEW name,
         IsSequence(s), ~IsOwn(h, s[i]), Knows(h, s, own, form, name)
  PROVE  Knows(h, RemoveAt(s, i), own, form, name)
<1> DEFINE t == RemoveAt(s, i)
           f == [k \in 1 .. Len(s) |-> IF k < i THEN k ELSE k + 1]
<1>1. Len(s) \in Nat /\ DOMAIN s = 1 .. Len(s)
  BY LenProperties DEF IsSequence
<1>2. /\ IsSequence(t) /\ Len(t) = Len(s) - 1
      /\ \A k \in 1 .. Len(s) - 1 : t[k] = IF k < i THEN s[k] ELSE s[k + 1]
  BY Removed
<1>3. DOMAIN t = 1 .. Len(s) - 1
  BY <1>2, LenProperties DEF IsSequence
<1> HIDE DEF t
<1>4. \A k \in DOMAIN t : f[k] \in DOMAIN s /\ s[f[k]] = t[k]
  BY <1>1, <1>2, <1>3
<1>5. ASSUME NEW k \in DOMAIN s, IsOwn(h, s[k])
      PROVE  \E m \in DOMAIN t : f[m] = k /\ t[m] = s[k]
  <2>1. k # i
    BY <1>5
  <2>2. CASE k < i
    <3>1. k \in DOMAIN t /\ f[k] = k
      BY <1>1, <1>3, <2>2
    <3> QED BY <1>4, <3>1
  <2>3. CASE i < k
    <3>1. k - 1 \in DOMAIN t /\ f[k - 1] = k
      BY <1>1, <1>3, <2>3
    <3> QED BY <1>4, <3>1
  <2> QED BY <1>1, <2>1, <2>2, <2>3
<1>6. \A k, m \in DOMAIN t : k < m => f[k] < f[m]
  BY <1>1, <1>3
<1> HIDE DEF f
<1>7. Knows(h, t, own, form, name)
  BY <1>2, <1>4, <1>5, <1>6, KnowsKept
<1> QED BY <1>7 DEF t

LEMMA AppendedKnows ==
  ASSUME NEW h, NEW s, NEW c, NEW own, NEW form, NEW name,
         IsSequence(s), ~IsOwn(h, c), Knows(h, s, own, form, name)
  PROVE  Knows(h, Append(s, c), own, form, name)
<1> DEFINE t == Append(s, c)
           f == [k \in 1 .. Len(s) + 1 |-> k]
<1>1. Len(s) \in Nat /\ DOMAIN s = 1 .. Len(s)
  BY LenProperties DEF IsSequence
<1>2. /\ IsSequence(t) /\ Len(t) = Len(s) + 1
      /\ \A k \in 1 .. Len(s) : t[k] = s[k]
      /\ t[Len(s) + 1] = c
  BY Appended
<1>3. DOMAIN t = 1 .. Len(s) + 1
  BY <1>2, LenProperties DEF IsSequence
<1> HIDE DEF t
<1>4. ASSUME NEW k \in DOMAIN t, IsOwn(h, t[k])
      PROVE  f[k] \in DOMAIN s /\ s[f[k]] = t[k]
  BY <1>1, <1>2, <1>3, <1>4
<1>5. \A k \in DOMAIN s : k \in DOMAIN t /\ f[k] = k /\ t[k] = s[k]
  BY <1>1, <1>2, <1>3
<1>6. \A k, m \in DOMAIN t : k < m => f[k] < f[m]
  BY <1>3
<1> HIDE DEF f
<1>7. Knows(h, t, own, form, name)
  BY <1>2, <1>4, <1>5, <1>6, KnowsKept
<1> QED BY <1>7 DEF t

LEMMA ReplacedKnows ==
  ASSUME NEW h, NEW s, NEW i \in DOMAIN s, NEW c, NEW own, NEW form, NEW name,
         IsSequence(s), ~IsOwn(h, s[i]), ~IsOwn(h, c), Knows(h, s, own, form, name)
  PROVE  Knows(h, [s EXCEPT ![i] = c], own, form, name)
<1> DEFINE t == [s EXCEPT ![i] = c]
           f == [k \in 1 .. Len(s) |-> k]
<1>1. Len(s) \in Nat /\ DOMAIN s = 1 .. Len(s)
  BY LenProperties DEF IsSequence
<1>2. /\ IsSequence(t) /\ Len(t) = Len(s)
      /\ \A k \in 1 .. Len(s) : t[k] = IF k = i THEN c ELSE s[k]
  BY Replaced
<1>3. DOMAIN t = 1 .. Len(s)
  BY <1>2, LenProperties DEF IsSequence
<1> HIDE DEF t
<1>4. ASSUME NEW k \in DOMAIN t, IsOwn(h, t[k])
      PROVE  f[k] \in DOMAIN s /\ s[f[k]] = t[k]
  BY <1>1, <1>2, <1>3, <1>4
<1>5. ASSUME NEW k \in DOMAIN s, IsOwn(h, s[k])
      PROVE  k \in DOMAIN t /\ f[k] = k /\ t[k] = s[k]
  BY <1>1, <1>2, <1>3, <1>5
<1>6. \A k, m \in DOMAIN t : k < m => f[k] < f[m]
  BY <1>3
<1> HIDE DEF f
<1>7. Knows(h, t, own, form, name)
  BY <1>2, <1>4, <1>5, <1>6, KnowsKept
<1> QED BY <1>7 DEF t

LEMMA CallsWithout ==
  ASSUME NEW s, NEW i \in DOMAIN s, AreCalls(s)
  PROVE  AreCalls(RemoveAt(s, i))
<1> DEFINE t == RemoveAt(s, i)
           from(k) == IF k < i THEN k ELSE k + 1
<1>1. IsSequence(s) /\ Len(s) \in Nat /\ DOMAIN s = 1 .. Len(s)
  BY LenProperties DEF AreCalls, IsSequence
<1>2. /\ IsSequence(t) /\ Len(t) = Len(s) - 1
      /\ \A k \in 1 .. Len(s) - 1 : t[k] = IF k < i THEN s[k] ELSE s[k + 1]
  BY <1>1, Removed
<1>3. DOMAIN t = 1 .. Len(s) - 1
  BY <1>2, LenProperties DEF IsSequence
<1> HIDE DEF t
<1>4. \A k \in DOMAIN t : from(k) \in DOMAIN s /\ t[k] = s[from(k)]
  BY <1>1, <1>2, <1>3
<1>5. \A k, m \in DOMAIN t : k < m => from(k) < from(m)
  BY <1>1, <1>3
<1> HIDE DEF from
<1>6. \A k \in DOMAIN t : IsCall(t[k])
  BY <1>4 DEF AreCalls
<1>7. \A k, m \in DOMAIN t : k < m /\ t[k].stage = "sent" => t[m].stage = "sent"
  BY <1>4, <1>5 DEF AreCalls
<1>8. AreCalls(t)
  BY <1>2, <1>6, <1>7 DEF AreCalls
<1> QED BY <1>8 DEF t

LEMMA CallsWith ==
  ASSUME NEW s, NEW c, AreCalls(s), IsCall(c), c.stage = "sent"
  PROVE  AreCalls(Append(s, c))
<1> DEFINE t == Append(s, c)
<1>1. IsSequence(s) /\ Len(s) \in Nat /\ DOMAIN s = 1 .. Len(s)
  BY LenProperties DEF AreCalls, IsSequence
<1>2. /\ IsSequence(t) /\ Len(t) = Len(s) + 1
      /\ \A k \in 1 .. Len(s) : t[k] = s[k]
      /\ t[Len(s) + 1] = c
  BY <1>1, Appended
<1>3. DOMAIN t = 1 .. Len(s) + 1
  BY <1>2, LenProperties DEF IsSequence
<1> HIDE DEF t
<1>4. \A k \in DOMAIN t : (k \in DOMAIN s /\ t[k] = s[k]) \/ (k = Len(s) + 1 /\ t[k] = c)
  BY <1>1, <1>2, <1>3
<1>5. \A k \in DOMAIN t : IsCall(t[k])
  BY <1>4 DEF AreCalls
<1>6. ASSUME NEW k \in DOMAIN t, NEW m \in DOMAIN t, k < m, t[k].stage = "sent"
      PROVE  t[m].stage = "sent"
  <2>1. k \in DOMAIN s
    BY <1>1, <1>3, <1>6
  <2> QED BY <1>4, <1>6, <2>1, <1>2, <1>1 DEF AreCalls
<1>7. AreCalls(t)
  BY <1>2, <1>5, <1>6 DEF AreCalls
<1> QED BY <1>7 DEF t

LEMMA CallsAnswered ==
  ASSUME NEW s, NEW i \in DOMAIN s, NEW c, AreCalls(s), IsCall(c), c.stage = "answered",
         \A j \in 1 .. (i - 1) : s[j].stage # "sent"
  PROVE  AreCalls([s EXCEPT ![i] = c])
<1> DEFINE t == [s EXCEPT ![i] = c]
<1>1. IsSequence(s) /\ Len(s) \in Nat /\ DOMAIN s = 1 .. Len(s)
  BY LenProperties DEF AreCalls, IsSequence
<1>2. /\ IsSequence(t) /\ Len(t) = Len(s)
      /\ \A k \in 1 .. Len(s) : t[k] = IF k = i THEN c ELSE s[k]
  BY <1>1, Replaced
<1>3. DOMAIN t = 1 .. Len(s)
  BY <1>2, LenProperties DEF IsSequence
<1> HIDE DEF t
<1>4. \A k \in DOMAIN t : IsCall(t[k])
  BY <1>1, <1>2, <1>3 DEF AreCalls
<1>5. ASSUME NEW k \in DOMAIN t, NEW m \in DOMAIN t, k < m, t[k].stage = "sent"
      PROVE  t[m].stage = "sent"
  <2>1. k # i /\ s[k].stage = "sent"
    BY <1>2, <1>3, <1>5
  <2>2. ~(k < i)
    BY <1>1, <1>3, <2>1
  <2>3. m # i
    BY <1>1, <1>3, <1>5, <2>2
  <2>4. s[m].stage = "sent"
    BY <1>1, <1>3, <1>5, <2>1 DEF AreCalls
  <2> QED BY <1>2, <1>3, <2>3, <2>4
<1>6. AreCalls(t)
  BY <1>2, <1>4, <1>5 DEF AreCalls
<1> QED BY <1>6 DEF t

LEMMA CallsBefore ==
  ASSUME NEW s, NEW i \in DOMAIN s, AreCalls(s)
  PROVE  AreCalls(SubSeq(s, 1, i - 1))
<1> DEFINE t == SubSeq(s, 1, i - 1)
<1>1. IsSequence(s) /\ Len(s) \in Nat /\ DOMAIN s = 1 .. Len(s)
  BY LenProperties DEF AreCalls, IsSequence
<1>2. IsSequence(t) /\ Len(t) = i - 1 /\ \A k \in 1 .. i - 1 : t[k] = s[k]
  BY <1>1, Prefixed
<1>3. DOMAIN t = 1 .. i - 1
  BY <1>2, LenProperties DEF IsSequence
<1> HIDE DEF t
<1>4. \A k \in DOMAIN t : k \in DOMAIN s /\ t[k] = s[k]
  BY <1>1, <1>2, <1>3
<1>5. AreCalls(t)
  BY <1>2, <1>4 DEF AreCalls
<1> QED BY <1>5 DEF t

-----------------------------------------------------------------------------
(* Requests.                                                               *)

LEMMA BuilderChosen ==
  ASSUME NEW method, NEW overload, NEW args
  PROVE  BuilderOf(method, overload, args)[1] \in BuildersOf(method.builder)
<1> DEFINE name == method.builder[2]
<1>1. CASE name = "getOwns"
  <2>1. GetOwns(args)[1] \in {"getOwns", "getOwnsByType"}
    BY DEF GetOwns
  <2>2. BuilderOf(method, overload, args) = GetOwns(args)
    BY <1>1 DEF BuilderOf
  <2>3. BuildersOf(method.builder) = {"getOwns", "getOwnsByType"}
    BY <1>1 DEF BuildersOf
  <2> QED BY <2>1, <2>2, <2>3
<1>2. CASE name = "setOwns"
  <2>1. SetOwns(overload, args)[1] \in {"setOwns", "setOwnsOverridden"}
    BY DEF SetOwns
  <2>2. BuilderOf(method, overload, args) = SetOwns(overload, args)
    BY <1>2 DEF BuilderOf
  <2>3. BuildersOf(method.builder) = {"setOwns", "setOwnsOverridden"}
    BY <1>2 DEF BuildersOf
  <2> QED BY <2>1, <2>2, <2>3
<1>3. CASE name = "setPlays"
  <2>1. BuilderOf(method, overload, args) = SetPlays(args)
    BY <1>3 DEF BuilderOf
  <2>2. BuildersOf(method.builder) = {"setPlays", "setPlaysOverridden"}
    BY <1>3 DEF BuildersOf
  <2> QED BY <2>1, <2>2 DEF SetPlays
<1>4. CASE name = "getRelates"
  <2>1. BuilderOf(method, overload, args) = GetRelates(args)
    BY <1>4 DEF BuilderOf
  <2>2. BuildersOf(method.builder) = {"getRelates", "getRelatesByRole"}
    BY <1>4 DEF BuildersOf
  <2> QED BY <2>1, <2>2 DEF GetRelates
<1>5. CASE name = "setRelates"
  <2>1. BuilderOf(method, overload, args) = SetRelates(args)
    BY <1>5 DEF BuilderOf
  <2>2. BuildersOf(method.builder) = {"setRelates", "setRelatesOverridden"}
    BY <1>5 DEF BuildersOf
  <2> QED BY <2>1, <2>2 DEF SetRelates
<1>6. CASE name = "getHas"
  <2>1. BuilderOf(method, overload, args) = GetHas(overload, args)
    BY <1>6 DEF BuilderOf
  <2>2. BuildersOf(method.builder) = {"getHas", "getHasByType"}
    BY <1>6 DEF BuildersOf
  <2>3. GetHas(overload, args)[1] \in {"getHas", "getHasByType"}
    BY DEF GetHas
  <2> QED BY <2>1, <2>2, <2>3
<1>7. CASE name \notin {"getOwns", "setOwns", "setPlays", "getRelates", "setRelates", "getHas"}
  <2>1. CASE method.builder = <<"Attribute", "getOwners">>
    <3>1. BuilderOf(method, overload, args) = GetOwnersOf(args)
      BY <1>7, <2>1 DEF BuilderOf
    <3>2. BuildersOf(method.builder) = {"getOwners", "getOwnersByType"}
      BY <1>7, <2>1 DEF BuildersOf
    <3> QED BY <3>1, <3>2 DEF GetOwnersOf
  <2>2. CASE method.builder # <<"Attribute", "getOwners">>
    <3>1. name \in BuildersOf(method.builder)
      BY DEF BuildersOf
    <3>2. BuilderOf(method, overload, args)[1] = name
      <4>1. CASE method.builder = <<"AttributeType", "getOwners">>
        <5>1. BuilderOf(method, overload, args) = GetOwners(args)
          BY <1>7, <2>2, <4>1 DEF BuilderOf
        <5> QED BY <4>1, <5>1 DEF GetOwners
      <4>2. CASE method.builder = <<"Relation", "getPlayers">> \/ name = "getRelations"
        <5>1. BuilderOf(method, overload, args) = OrNone(name, args)
          BY <1>7, <2>2, <4>2 DEF BuilderOf
        <5> QED BY <5>1 DEF OrNone
      <4>3. CASE /\ method.builder # <<"AttributeType", "getOwners">>
                 /\ ~(method.builder = <<"Relation", "getPlayers">> \/ name = "getRelations")
        <5>1. BuilderOf(method, overload, args) = <<name, args>>
          BY <1>7, <2>2, <4>3 DEF BuilderOf
        <5> QED BY <5>1
      <4> QED BY <4>1, <4>2, <4>3
    <3> QED BY <3>1, <3>2
  <2> QED BY <2>1, <2>2
<1> QED BY <1>1, <1>2, <1>3, <1>4, <1>5, <1>6, <1>7

\* The builder that a method takes.
Chosen(method, name, concept, overload, args) ==
    BuilderOf(method, overload, Asked(method, name, concept, args))[1]

LEMMA RequestBuilt ==
  ASSUME NEW method, NEW name, NEW concept, NEW overload, NEW args
  PROVE  LET request == Request(method, name, concept, overload, args)
             b == Chosen(method, name, concept, overload, args)
         IN  /\ b \in BuildersOf(method.builder)
             /\ request.message = Builders[method.builder[1]][b].message
             /\ request.on = On(<<method.builder[1], b>>, concept)
<1>1. Chosen(method, name, concept, overload, args) \in BuildersOf(method.builder)
  BY BuilderChosen DEF Chosen
<1>2. Request(method, name, concept, overload, args).message
        = Builders[method.builder[1]][Chosen(method, name, concept, overload, args)].message
  BY DEF Request, Build, Chosen
<1>3. Request(method, name, concept, overload, args).on
        = On(<<method.builder[1], Chosen(method, name, concept, overload, args)>>, concept)
  BY DEF Request, Build, Chosen
<1> QED BY <1>1, <1>2, <1>3

LEMMA SetLabelRequest ==
  ASSUME NEW method, NEW name, NEW concept, NEW overload, NEW args,
         method.builder \in {<<"Rule", "setLabel">>, <<"Type", "setLabel">>}
  PROVE  /\ Request(method, name, concept, overload, args).message = "setLabel"
         /\ Request(method, name, concept, overload, args).on
              = IF method.builder[1] = "Rule" THEN OnRule(concept.label) ELSE OnType(concept.label)
<1>1. BuildersOf(method.builder) = {"setLabel"}
  BY DEF BuildersOf
<1>2. /\ Request(method, name, concept, overload, args).message
           = Builders[method.builder[1]]["setLabel"].message
      /\ Request(method, name, concept, overload, args).on
           = On(<<method.builder[1], "setLabel">>, concept)
  <2>1. Chosen(method, name, concept, overload, args) = "setLabel"
    BY <1>1, RequestBuilt
  <2> QED BY <2>1, RequestBuilt
<1>3. /\ Builders["Rule"]["setLabel"].message = "setLabel"
      /\ Builders["Type"]["setLabel"].message = "setLabel"
  BY DEF Builders, TypeBuilders, RuleBuilders, Builder
<1>4. CASE method.builder = <<"Rule", "setLabel">>
  BY <1>2, <1>3, <1>4 DEF On
<1>5. CASE method.builder = <<"Type", "setLabel">>
  BY <1>2, <1>3, <1>5 DEF On
<1> QED BY <1>4, <1>5

LEMMA SentIsCall ==
  ASSUME ConceptsOK, NEW caller \in Handle \cup DOMAIN Managers,
         NEW name \in DOMAIN MethodsOf(caller), NEW overload, NEW args
  PROVE  LET call == Sent(caller, name, overload, args,
                          Request(MethodsOf(caller)[name], name, ConceptOf(caller), overload, args))
         IN  /\ IsCall(call)
             /\ call.stage = "sent" /\ call.caller = caller /\ call.name = name
             /\ name = "setLabel" =>
                   /\ caller \in Handle
                   /\ call.request.on = IF concepts[caller].class = "Rule"
                                        THEN OnRule(concepts[caller].label)
                                        ELSE OnType(concepts[caller].label)
<1> DEFINE method == MethodsOf(caller)[name]
           request == Request(method, name, ConceptOf(caller), overload, args)
           call == Sent(caller, name, overload, args, request)
<1>1. PICK class : /\ SetLabelAlone(MethodsOf(caller), class)
                   /\ caller \in Handle => class = concepts[caller].class
                   /\ caller \notin Handle => "setLabel" \notin DOMAIN MethodsOf(caller)
  <2>1. CASE caller \in Handle
    <3>1. concepts[caller].class \in DOMAIN Methods
      BY <2>1 DEF ConceptsOK, IsConcept
    <3> QED BY <2>1, <3>1, MethodAssumption DEF MethodsOf
  <2>2. CASE caller \notin Handle
    BY <2>2, MethodAssumption DEF MethodsOf
  <2> QED BY <2>1, <2>2
<1>2. /\ call.stage = "sent" /\ call.caller = caller /\ call.name = name
      /\ call.request = request /\ call.thrown = ThrowsLate(name, overload, args)
      /\ DOMAIN call = {"caller", "name", "args", "request", "thrown", "raced", "stage",
                        "answer", "stale", "existed"}
  BY DEF Sent
<1> HIDE DEF call, method
<1>3. CASE name = "setLabel"
  <2>1. caller \in Handle /\ class = concepts[caller].class /\ ConceptOf(caller) = concepts[caller]
    BY <1>1, <1>3 DEF ConceptOf
  <2>2. method.builder = <<IF class = "Rule" THEN "Rule" ELSE "Type", "setLabel">>
    BY <1>1, <1>3 DEF SetLabelAlone, method
  <2>3. /\ request.message = "setLabel"
        /\ request.on = IF class = "Rule" THEN OnRule(concepts[caller].label)
                                          ELSE OnType(concepts[caller].label)
    <3>1. /\ request.message = "setLabel"
          /\ request.on = IF method.builder[1] = "Rule" THEN OnRule(ConceptOf(caller).label)
                                                        ELSE OnType(ConceptOf(caller).label)
      BY <2>2, SetLabelRequest
    <3> QED BY <2>1, <2>2, <3>1
  <2> HIDE DEF request
  <2>4. \/ request.on = OnRule(request.on.label)
        \/ request.on = OnType(Label(request.on.scope, request.on.label))
    BY <2>3 DEF OnRule, OnType, Label
  <2>5. ~call.thrown
    BY <1>2, <1>3 DEF ThrowsLate
  <2>6. IsCall(call)
    BY <1>2, <1>3, <2>1, <2>3, <2>4, <2>5 DEF IsCall
  <2> QED BY <1>2, <2>1, <2>3, <2>6 DEF call, request, method
<1>4. CASE name # "setLabel"
  <2>1. \A b \in BuildersOf(method.builder) :
           LET message == Builders[method.builder[1]][b].message
           IN  /\ message # "setLabel"
               /\ message = "delete" => method.builder[1] \notin DOMAIN Managers
    BY <1>1, <1>4 DEF SetLabelAlone, method
  <2>2. /\ request.message # "setLabel"
        /\ request.message = "delete" => request.on # OnManager
    <3>1. Chosen(method, name, ConceptOf(caller), overload, args) \in BuildersOf(method.builder)
      BY RequestBuilt
    <3>2. /\ request.message = Builders[method.builder[1]][
                  Chosen(method, name, ConceptOf(caller), overload, args)].message
          /\ request.on = On(<<method.builder[1],
                  Chosen(method, name, ConceptOf(caller), overload, args)>>, ConceptOf(caller))
      BY RequestBuilt
    <3>3. /\ request.message # "setLabel"
          /\ request.message = "delete" => method.builder[1] \notin DOMAIN Managers
      BY <2>1, <3>1, <3>2
    <3>4. ASSUME method.builder[1] \notin DOMAIN Managers
          PROVE  request.on # OnManager
      <4>1. method.builder[1] \notin {"ConceptManager", "LogicManager"}
        BY <3>4 DEF Managers
      <4>2. request.on.kind # "manager"
        BY <3>2, <4>1 DEF On, OnRule, OnThing, OnType
      <4> QED BY <4>2 DEF OnManager
    <3> QED BY <3>3, <3>4
  <2> HIDE DEF request
  <2>3. IsCall(call)
    BY <1>2, <1>4, <2>2 DEF IsCall
  <2> QED BY <1>2, <1>4, <2>3 DEF call, request, method
<1> QED BY <1>3, <1>4

LEMMA RelatesRequest ==
  ASSUME NEW concept, NEW name
  PROVE  Request(RelationTypeMethods.getRelates, "getRelates", concept, <<"name">>,
                 <<name>>).message \notin {"setLabel", "delete"}
<1> DEFINE method == RelationTypeMethods.getRelates
<1>1. method.builder = <<"RelationType", "getRelates">>
  BY DEF RelationTypeMethods, Stream, Execute
<1>2. BuildersOf(method.builder) = {"getRelates", "getRelatesByRole"}
  BY <1>1 DEF BuildersOf
<1>3. \A b \in {"getRelates", "getRelatesByRole"} :
         Builders["RelationType"][b].message \notin {"setLabel", "delete"}
  BY DEF Builders, RelationTypeBuilders, Builder
<1> HIDE DEF method
<1>4. \A b \in BuildersOf(method.builder) :
         Builders[method.builder[1]][b].message \notin {"setLabel", "delete"}
  BY <1>1, <1>2, <1>3
<1>5. Request(method, "getRelates", concept, <<"name">>, <<name>>).message \notin {"setLabel", "delete"}
  BY <1>4, RequestBuilt, Zenon
<1> QED BY <1>5 DEF method

-----------------------------------------------------------------------------
(* The server and the concepts.                                            *)

\* What the server takes a setLabel() to be about is what the request names.
LEMMA SubjectForm ==
  ASSUME NEW on, Subject(on) # Null,
         on = OnRule(on.label) \/ on = OnType(Label(on.scope, on.label))
  PROVE  /\ Subject(on) \in Entities
         /\ names[Subject(on)] # Null
         /\ on = Form(Subject(on))
<1>1. CASE on = OnRule(on.label)
  <2>1. on.kind = "rule" /\ Subject(on) = RuleNamed(on.label)
    BY <1>1 DEF OnRule, Subject
  <2>2. /\ Subject(on) \in RuleIds /\ on.label # Null
        /\ names[Subject(on)] = on.label
    BY <2>1 DEF RuleNamed, OrNull
  <2> QED BY <1>1, <2>2 DEF Form, Entities
<1>2. CASE on = OnType(Label(on.scope, on.label))
  <2>1. on.kind = "type" /\ Subject(on) = TypeNamed(on.scope, on.label)
    BY <1>2 DEF OnType, Subject
  <2>2. /\ Subject(on) \in TypeIds /\ names[Subject(on)] # Null
        /\ names[Subject(on)] = on.label /\ ScopeName(Subject(on)) = on.scope
    BY <2>1 DEF TypeNamed, OrNull, Existing
  <2>3. Subject(on) \notin RuleIds
    BY <2>2, SchemaAssumption
  <2> QED BY <1>2, <2>2, <2>3 DEF Form, Entities
<1> QED BY <1>1, <1>2

LEMMA AnyClass ==
  /\ {"Rule", "RoleType", "ThingType", "EntityType", "RelationType", "Entity", "Relation"}
       \subseteq DOMAIN Methods
  /\ \A v \in ValueTypes : AttributeTypeClassOf[v] \in DOMAIN Methods
  /\ \A v \in DOMAIN AttributeClassOf : AttributeClassOf[v] \in DOMAIN Methods
BY MethodAssumption, Zenon

LEMMA FirstTypes ==
  ASSUME Init, NEW t \in TypeIds
  PROVE  /\ TypeProto(t) \in Protos /\ TypeProto(t) # Null
         /\ IsConcept(t, AsRemote(TypeOf(TypeProto(t))))
         /\ AsRemote(TypeOf(TypeProto(t))).label = Label(ScopeName(t), names[t])
<1> DEFINE p == TypeProto(t)
           c == TypeOf(p)
<1>1. \A u \in TypeIds : u \notin RuleIds /\ u \notin ThingIds
                           /\ names[u] = Schema[u].name
  BY SchemaAssumption DEF Init
<1>2. names[t] \in LabelsOrNull /\ ScopeName(t) \in LabelsOrNull
  <2>1. \A u \in TypeIds : names[u] \in LabelsOrNull
    BY <1>1, Zenon DEF LabelsOrNull, Labels
  <2> QED BY <2>1, SchemaAssumption DEF ScopeName, LabelsOrNull
<1>3. p \in Protos
  BY <1>2, SchemaAssumption DEF TypeProto, Protos, Roots
<1>4. p # Null
  BY <1>3, SchemaAssumption
<1>5. /\ p.label = names[t] /\ p.scope = ScopeName(t)
      /\ p.encoding = Schema[t].encoding /\ p.valueType = Schema[t].valueType
  BY DEF TypeProto
<1>6. /\ p.encoding \in Encodings /\ p.valueType \in ValueTypes
      /\ p.encoding # "ROLE_TYPE" => ScopeName(t) = Null
  BY <1>5, SchemaAssumption DEF ScopeName
<1> HIDE DEF p
<1>7. \E class \in DOMAIN Methods :
         /\ class # "Rule"
         /\ c = NewType(class, Label(ScopeName(t), names[t]), p.root)
  <2>1. CASE p.encoding = "ROLE_TYPE"
    <3>1. c = NewType("RoleType", Label(ScopeName(t), names[t]), p.root)
      BY <1>4, <1>5, <2>1 DEF TypeOf, RoleTypeOf
    <3> QED BY <3>1, AnyClass
  <2>2. CASE p.encoding # "ROLE_TYPE"
    <3>1. c = ThingTypeOf(p) /\ ScopeName(t) = Null
      BY <1>4, <1>6, <2>2 DEF TypeOf
    <3>2. CASE p.encoding = "ENTITY_TYPE"
      <4>1. c = NewType("EntityType", Label(ScopeName(t), names[t]), p.root)
        BY <1>4, <1>5, <3>1, <3>2 DEF ThingTypeOf, EntityTypeOf
      <4> QED BY <4>1, AnyClass
    <3>3. CASE p.encoding = "RELATION_TYPE"
      <4>1. c = NewType("RelationType", Label(ScopeName(t), names[t]), p.root)
        BY <1>4, <1>5, <3>1, <3>3 DEF ThingTypeOf, RelationTypeOf
      <4> QED BY <4>1, AnyClass
    <3>4. CASE p.encoding = "ATTRIBUTE_TYPE"
      <4>1. c = NewType(AttributeTypeClassOf[p.valueType], Label(ScopeName(t), names[t]), p.root)
        BY <1>4, <1>5, <1>6, <3>1, <3>4 DEF ThingTypeOf, AttributeTypeOf
      <4>2. AttributeTypeClassOf[p.valueType] # "Rule"
        BY <1>6 DEF ValueTypes, AttributeTypeClassOf
      <4> QED BY <1>6, <4>1, <4>2, AnyClass
    <3>5. CASE p.encoding = "THING_TYPE"
      <4>1. c = NewType("ThingType", Label(ScopeName(t), names[t]), p.root)
        BY <1>4, <1>5, <3>1, <3>5 DEF ThingTypeOf
      <4> QED BY <4>1, AnyClass
    <3> QED BY <1>6, <2>2, <3>2, <3>3, <3>4, <3>5 DEF Encodings
  <2> QED BY <2>1, <2>2
<1> HIDE DEF c
<1>8. PICK class \in DOMAIN Methods :
         /\ class # "Rule"
         /\ c = NewType(class, Label(ScopeName(t), names[t]), p.root)
  BY <1>7
<1>9. /\ AsRemote(c).class = class /\ AsRemote(c).label = Label(ScopeName(t), names[t])
      /\ IsType(AsRemote(c))
  BY <1>8 DEF NewType, AsRemote, IsType, Label
<1>10. IsConcept(t, AsRemote(c)) /\ AsRemote(c).label = Label(ScopeName(t), names[t])
  BY <1>1, <1>8, <1>9 DEF IsConcept
<1> QED BY <1>3, <1>4, <1>10 DEF p, c

LEMMA FirstThings ==
  ASSUME Init, NEW i \in ThingIds
  PROVE  IsConcept(i, AsRemote(ThingOf(ProtoOfThing(i))))
<1> DEFINE p == ProtoOfThing(i)
           c == ThingOf(p)
<1>1. Instance[i] \in TypeIds /\ i \notin TypeIds /\ i \notin RuleIds
  BY SchemaAssumption
<1>2. p \in [iid : ThingIds, type : Protos]
  BY <1>1, FirstTypes DEF ProtoOfThing
<1>3. p # Null
  BY <1>2, SchemaAssumption
<1>4. /\ p.type.encoding = Schema[Instance[i]].encoding
      /\ p.type.valueType = Schema[Instance[i]].valueType
  BY DEF ProtoOfThing, TypeProto
<1>5. \/ p.type.encoding \in {"ENTITY_TYPE", "RELATION_TYPE"}
      \/ p.type.encoding = "ATTRIBUTE_TYPE" /\ p.type.valueType \in DOMAIN AttributeClassOf
  BY <1>4, SchemaAssumption
<1> HIDE DEF p
<1>6. \E class \in DOMAIN Methods : \E iid, type : c = NewThing(class, iid, type)
  <2>1. CASE p.type.encoding = "ENTITY_TYPE"
    <3>1. c = NewThing("Entity", p.iid, EntityTypeOf(p.type))
      BY <1>3, <2>1 DEF ThingOf, EntityOf
    <3> QED BY <3>1, AnyClass, Zenon
  <2>2. CASE p.type.encoding = "RELATION_TYPE"
    <3>1. c = NewThing("Relation", p.iid, RelationTypeOf(p.type))
      BY <1>3, <2>2 DEF ThingOf, RelationOf
    <3> QED BY <3>1, AnyClass, Zenon
  <2>3. CASE p.type.encoding = "ATTRIBUTE_TYPE" /\ p.type.valueType \in DOMAIN AttributeClassOf
    <3>1. c = NewThing(AttributeClassOf[p.type.valueType], p.iid, AttributeTypeOf(p.type))
      BY <1>3, <2>3 DEF ThingOf, AttributeOf
    <3> QED BY <2>3, <3>1, AnyClass, Zenon
  <2> QED BY <1>5, <2>1, <2>2, <2>3
<1> HIDE DEF c
<1>7. PICK class \in DOMAIN Methods : \E iid, type : c = NewThing(class, iid, type)
  BY <1>6
<1>8. IsThing(AsRemote(c)) /\ AsRemote(c).class \in DOMAIN Methods
  BY <1>7 DEF NewThing, AsRemote, IsThing
<1>9. IsConcept(i, AsRemote(c))
  BY <1>1, <1>8 DEF IsConcept
<1> QED BY <1>9 DEF p, c

LEMMA FirstRules ==
  ASSUME Init, NEW r \in RuleIds
  PROVE  /\ IsConcept(r, AsRemote(RuleOf(RuleProto(r))))
         /\ AsRemote(RuleOf(RuleProto(r))).label = names[r]
<1>1. r \notin TypeIds /\ r \notin ThingIds
  BY SchemaAssumption
<1>2. /\ IsRule(AsRemote(RuleOf(RuleProto(r))))
      /\ AsRemote(RuleOf(RuleProto(r))).label = names[r]
  BY DEF AsRemote, RuleOf, RuleProto, IsRule
<1>3. AsRemote(RuleOf(RuleProto(r))).class \in DOMAIN Methods
  BY <1>2, AnyClass DEF IsRule
<1> QED BY <1>1, <1>2, <1>3 DEF IsConcept

LEMMA InitCallInv == Init => CallInv
<1> SUFFICES ASSUME Init PROVE CallInv
  OBVIOUS
<1>1. Domains
  BY SchemaAssumption DEF Init, Domains, Entities
<1>2. ASSUME NEW h \in Handle
      PROVE  /\ IsConcept(meant[h], concepts[h])
             /\ meant[h] \in TypeIds => concepts[h].label = Label(ScopeName(meant[h]), names[meant[h]])
             /\ meant[h] \in RuleIds => concepts[h].label = names[meant[h]]
  <2>1. CASE meant[h] \in RuleIds
    <3>1. concepts[h] = AsRemote(RuleOf(RuleProto(meant[h]))) /\ meant[h] \notin TypeIds
      BY <2>1, SchemaAssumption DEF Init
    <3> QED BY <2>1, <3>1, FirstRules
  <2>2. CASE meant[h] \in ThingIds
    <3>1. /\ concepts[h] = AsRemote(ThingOf(ProtoOfThing(meant[h])))
          /\ meant[h] \notin TypeIds /\ meant[h] \notin RuleIds
      BY <2>2, SchemaAssumption DEF Init
    <3> QED BY <2>2, <3>1, FirstThings
  <2>3. CASE meant[h] \in TypeIds
    <3>1. concepts[h] = AsRemote(TypeOf(TypeProto(meant[h]))) /\ meant[h] \notin RuleIds
      BY <2>3, SchemaAssumption DEF Init
    <3> QED BY <2>3, <3>1, FirstTypes
  <2> QED BY <1>1, <2>1, <2>2, <2>3 DEF Domains, Entities
<1>3. CallsOK
  BY EmptySeq DEF Init, CallsOK, AreCalls, IsSequence
<1>4. ASSUME NEW h \in Handle, Named(h)
      PROVE  Known(h)
  <2>1. Own(h) = Form(meant[h])
    BY <1>1, <1>2, <1>4 DEF Own, Form, Named, Domains, Entities
  <2>2. ScopeKnown(h)
    <3>1. meant[h] \in TypeIds => concepts[h].label = Label(ScopeName(meant[h]), names[meant[h]])
      BY <1>2
    <3> QED BY <3>1 DEF ScopeKnown, Label
  <2>3. DOMAIN calls = {}
    BY DEF Init
  <2> QED BY <2>1, <2>2, <2>3 DEF Known, Knows
<1> QED BY <1>1, <1>2, <1>3, <1>4 DEF CallInv, ConceptsOK, AllKnown

-----------------------------------------------------------------------------
(* Steps that leave the server and the concepts as they are.               *)

LEMMA CallsStep ==
  ASSUME CallInv, UNCHANGED <<names, alive, concepts, meant, renamers>>, AreCalls(calls'),
         \A h \in Handle : Named(h) /\ StillThere(h)
            => Knows(h, calls', Own(h), Form(meant[h]), names[meant[h]])
  PROVE  CallInv'
<1>1. /\ names' = names /\ alive' = alive /\ concepts' = concepts
      /\ meant' = meant /\ renamers' = renamers
  OBVIOUS
<1>2. Domains' /\ ConceptsOK'
  BY <1>1 DEF CallInv, Domains, ConceptsOK
<1>3. ASSUME NEW h \in Handle, Named(h)', StillThere(h)'
      PROVE  Known(h)'
  <2>1. Named(h) /\ StillThere(h)
    BY <1>1, <1>3 DEF Named, StillThere, Exists, LostTrack
  <2>2. ScopeKnown(h) /\ Knows(h, calls, Own(h), Form(meant[h]), names[meant[h]])
    BY <2>1 DEF CallInv, AllKnown, Known
  <2>3. Knows(h, calls', Own(h), Form(meant[h]), names[meant[h]])
    BY <2>1
  <2>4. /\ Own(h)' = Own(h) /\ Form(meant[h])' = Form(meant[h])
        /\ names[meant[h]]' = names[meant[h]] /\ ScopeKnown(h)'
    BY <1>1, <2>2 DEF Own, Form, ScopeName, ScopeKnown
  <2>5. Knows(h, calls, Own(h), Form(meant[h]), names[meant[h]])'
    BY <2>3, <2>4, Zenon
  <2> QED BY <2>4, <2>5, Zenon DEF Known
<1> QED BY <1>2, <1>3 DEF CallInv, CallsOK, AllKnown

LEMMA AppendedOwn ==
  ASSUME NEW h, NEW s, NEW c, NEW own, NEW form, NEW name,
         IsSequence(s), Waits(h, c), c.request.on = own, Knows(h, s, own, form, name)
  PROVE  Knows(h, Append(s, c), own, form, name)
<1> DEFINE t == Append(s, c)
<1>1. Len(s) \in Nat /\ DOMAIN s = 1 .. Len(s)
  BY LenProperties DEF IsSequence
<1>2. /\ IsSequence(t) /\ Len(t) = Len(s) + 1
      /\ \A k \in 1 .. Len(s) : t[k] = s[k]
      /\ t[Len(s) + 1] = c
  BY Appended
<1>3. DOMAIN t = 1 .. Len(s) + 1
  BY <1>2, LenProperties DEF IsSequence
<1> SUFFICES Knows(h, t, own, form, name)
  OBVIOUS
<1> HIDE DEF t
<1>4. ~IsServed(h, c)
  BY DEF Waits, IsServed
<1>5. \A k \in DOMAIN t : \/ k \in DOMAIN s /\ t[k] = s[k]
                          \/ t[k] = c /\ \A j \in DOMAIN s : j < k
  BY <1>1, <1>2, <1>3
<1>6. \A k \in DOMAIN s : k \in DOMAIN t /\ t[k] = s[k]
  BY <1>1, <1>2, <1>3
<1>7. \/ own = form /\ \A i \in DOMAIN t : ~IsServed(h, t[i])
      \/ own # form /\ \E i \in DOMAIN t :
            /\ IsServed(h, t[i]) /\ t[i].request.fields.label = name
            /\ \A j \in DOMAIN t : IsServed(h, t[j]) => j = i
  <2>1. CASE own = form /\ \A i \in DOMAIN s : ~IsServed(h, s[i])
    BY <1>4, <1>5, <2>1
  <2>2. ASSUME own # form, NEW i \in DOMAIN s,
               IsServed(h, s[i]), s[i].request.fields.label = name,
               \A j \in DOMAIN s : IsServed(h, s[j]) => j = i
        PROVE  \E k \in DOMAIN t :
                  /\ IsServed(h, t[k]) /\ t[k].request.fields.label = name
                  /\ \A j \in DOMAIN t : IsServed(h, t[j]) => j = k
    <3>1. \A j \in DOMAIN t : IsServed(h, t[j]) => j = i
      BY <1>4, <1>5, <2>2
    <3>2. i \in DOMAIN t /\ t[i] = s[i]
      BY <1>6
    <3> QED BY <2>2, <3>1, <3>2
  <2> QED BY <2>1, <2>2 DEF Knows
<1>8. CASE \A i \in DOMAIN s : ~IsServed(h, s[i]) /\ (Waits(h, s[i]) => s[i].request.on = own)
  <2>1. \A i \in DOMAIN t : ~IsServed(h, t[i]) /\ (Waits(h, t[i]) => t[i].request.on = own)
    BY <1>4, <1>5, <1>8
  <2> QED BY <1>7, <2>1, Zenon DEF Knows
<1>9. CASE \A i \in DOMAIN s :
              Waits(h, s[i]) /\ (\A j \in DOMAIN s : j < i => ~Waits(h, s[j]))
                 => s[i].request.on # form
  <2>1. CASE own = form /\ \A j \in DOMAIN s : ~Waits(h, s[j])
    <3>1. \A i \in DOMAIN s : ~IsServed(h, s[i])
      BY <2>1 DEF Knows
    <3> QED BY <1>8, <2>1, <3>1
  <2>2. CASE own # form \/ \E j \in DOMAIN s : Waits(h, s[j])
    <3>1. ASSUME NEW i \in DOMAIN t, Waits(h, t[i]), \A j \in DOMAIN t : j < i => ~Waits(h, t[j])
          PROVE  t[i].request.on # form
      <4>1. CASE i \in DOMAIN s /\ t[i] = s[i]
        <5>1. \A j \in DOMAIN s : j < i => ~Waits(h, s[j])
          BY <1>6, <3>1
        <5> QED BY <1>9, <3>1, <4>1, <5>1
      <4>2. CASE t[i] = c /\ \A j \in DOMAIN s : j < i
        <5>1. \A j \in DOMAIN s : ~Waits(h, s[j])
          BY <1>6, <3>1, <4>2
        <5> QED BY <2>2, <4>2, <5>1
      <4> QED BY <1>5, <4>1, <4>2
    <3> QED BY <1>7, <3>1, Zenon DEF Knows
  <2> QED BY <2>1, <2>2
<1> QED BY <1>8, <1>9, Zenon DEF Knows

LEMMA RefusedKnows ==
  ASSUME NEW h, NEW s, NEW i \in DOMAIN s, NEW own, NEW form, NEW name, AreCalls(s),
         s[i].stage = "sent", \A j \in 1 .. (i - 1) : s[j].stage # "sent",
         Knows(h, s, own, form, name)
  PROVE  Knows(h, SubSeq(s, 1, i - 1), own, form, name)
<1> DEFINE t == SubSeq(s, 1, i - 1)
<1>1. IsSequence(s) /\ Len(s) \in Nat /\ DOMAIN s = 1 .. Len(s)
  BY LenProperties DEF AreCalls, IsSequence
<1>2. IsSequence(t) /\ Len(t) = i - 1 /\ \A k \in 1 .. i - 1 : t[k] = s[k]
  BY <1>1, Prefixed
<1>3. DOMAIN t = 1 .. i - 1
  BY <1>2, LenProperties DEF IsSequence
<1> HIDE DEF t
<1>4. \A k \in DOMAIN t : k \in DOMAIN s /\ t[k] = s[k] /\ ~Waits(h, t[k])
  BY <1>1, <1>2, <1>3 DEF Waits
<1>5. ASSUME NEW k \in DOMAIN s, IsServed(h, s[k])
      PROVE  k \in DOMAIN t /\ t[k] = s[k]
  <2>1. s[k].stage # "sent"
    BY <1>5 DEF IsServed
  <2>2. ~(i < k) /\ k # i
    BY <2>1 DEF AreCalls
  <2> QED BY <1>1, <1>2, <1>3, <2>2
<1>6. \/ own = form /\ \A k \in DOMAIN t : ~IsServed(h, t[k])
      \/ own # form /\ \E k \in DOMAIN t :
            /\ IsServed(h, t[k]) /\ t[k].request.fields.label = name
            /\ \A j \in DOMAIN t : IsServed(h, t[j]) => j = k
  <2>1. CASE own = form /\ \A k \in DOMAIN s : ~IsServed(h, s[k])
    BY <1>4, <2>1
  <2>2. ASSUME own # form, NEW k \in DOMAIN s,
               IsServed(h, s[k]), s[k].request.fields.label = name,
               \A j \in DOMAIN s : IsServed(h, s[j]) => j = k
        PROVE  \E m \in DOMAIN t :
                  /\ IsServed(h, t[m]) /\ t[m].request.fields.label = name
                  /\ \A j \in DOMAIN t : IsServed(h, t[j]) => j = m
    <3>1. k \in DOMAIN t /\ t[k] = s[k]
      BY <1>5, <2>2
    <3>2. \A j \in DOMAIN t : IsServed(h, t[j]) => j = k
      BY <1>4, <2>2
    <3> QED BY <2>2, <3>1, <3>2
  <2> QED BY <2>1, <2>2 DEF Knows
<1>7. Knows(h, t, own, form, name)
  BY <1>4, <1>6, Zenon DEF Knows
<1> QED BY <1>7 DEF t

LEMMA CallCallInv ==
  ASSUME CallInv, NEW caller \in Handle \cup DOMAIN Managers,
         NEW name \in DOMAIN MethodsOf(caller), Call(caller, name)
  PROVE  CallInv'
<1>1. PICK overload, args :
         calls' = Append(calls, Sent(caller, name, overload, args,
                      Request(MethodsOf(caller)[name], name, ConceptOf(caller), overload, args)))
  BY DEF Call
<1> DEFINE c == Sent(caller, name, overload, args,
                     Request(MethodsOf(caller)[name], name, ConceptOf(caller), overload, args))
<1>2. /\ IsCall(c) /\ c.stage = "sent" /\ c.caller = caller /\ c.name = name
      /\ name = "setLabel" => /\ caller \in Handle
                              /\ c.request.on = IF concepts[caller].class = "Rule"
                                                THEN OnRule(concepts[caller].label)
                                                ELSE OnType(concepts[caller].label)
  BY SentIsCall DEF CallInv
<1>3. calls' = Append(calls, c)
  BY <1>1
<1> HIDE DEF c
<1>4. UNCHANGED <<names, alive, concepts, meant, renamers>>
  BY DEF Call
<1>5. AreCalls(calls')
  BY <1>2, <1>3, CallsWith DEF CallInv, CallsOK
<1>6. ASSUME NEW h \in Handle, Named(h), StillThere(h)
      PROVE  Knows(h, calls', Own(h), Form(meant[h]), names[meant[h]])
  <2>1. Knows(h, calls, Own(h), Form(meant[h]), names[meant[h]]) /\ IsSequence(calls)
    BY <1>6 DEF CallInv, AllKnown, Known, CallsOK, AreCalls
  <2>2. CASE ~IsOwn(h, c)
    BY <1>3, <2>1, <2>2, AppendedKnows
  <2>3. CASE IsOwn(h, c)
    <3>1. h = caller /\ name = "setLabel" /\ Waits(h, c)
      BY <1>2, <2>3 DEF IsOwn, Waits
    <3>2. IsConcept(meant[h], concepts[h]) /\ meant[h] \in Entities
      BY <1>6 DEF CallInv, ConceptsOK, Domains, Named
    <3>3. c.request.on = Own(h)
      BY <1>2, <3>1, <3>2 DEF IsConcept, IsRule, IsType, Own, Entities
    <3> QED BY <1>3, <2>1, <3>1, <3>3, AppendedOwn
  <2> QED BY <2>2, <2>3
<1> QED BY <1>4, <1>5, <1>6, CallsStep

\* c is call with its answer.
IsAnswer(c, call, answer) ==
    /\ c.stage = "answered" /\ c.caller = call.caller /\ c.name = call.name
    /\ c.request = call.request /\ c.args = call.args /\ c.raced = call.raced /\ c.answer = answer
    /\ c.stale <=> /\ call.caller \in Handle
                   /\ call.raced \/ LostTrack(call.caller) \/ Supplanted(call.caller)
    /\ c.existed \in BOOLEAN
    /\ c.existed <=> (call.caller \in Handle => Exists(meant[call.caller]))

\* An answered call is the same call.
LEMMA AnsweredCall ==
  ASSUME NEW i \in DOMAIN calls, IsSequence(calls), IsCall(calls[i]), ~calls[i].thrown, NEW answer
  PROVE  \E c : /\ Answered(i, answer) = [calls EXCEPT ![i] = c]
                /\ IsCall(c) /\ IsAnswer(c, calls[i], answer)
<1> DEFINE call == calls[i]
           stale == call.caller \in Handle /\ (call.raced \/ LostTrack(call.caller)
                                                           \/ Supplanted(call.caller))
           existed == call.caller \in Handle => Exists(meant[call.caller])
           c == [call EXCEPT !.stage = "answered", !.answer = answer, !.stale = stale,
                             !.existed = existed]
<1>1. Answered(i, answer) = [calls EXCEPT ![i] = c]
  BY DEF Answered
<1>2. /\ DOMAIN c = DOMAIN call /\ c.stage = "answered"
      /\ c.caller = call.caller /\ c.name = call.name
      /\ c.request = call.request /\ c.thrown = call.thrown
      /\ c.args = call.args /\ c.raced = call.raced /\ c.answer = answer
      /\ c.stale = stale /\ c.existed = existed
  <2> HIDE DEF stale, existed, call
  <2> QED BY DEF IsCall, call
<1> HIDE DEF c
<1>3. IsCall(c)
  BY <1>2 DEF IsCall
<1>4. IsAnswer(c, calls[i], answer)
  <2>1. existed \in BOOLEAN
    OBVIOUS
  <2> QED BY <1>2, <2>1 DEF IsAnswer
<1> QED BY <1>1, <1>3, <1>4

LEMMA AnsweredKnows ==
  ASSUME NEW i \in DOMAIN calls, CallsOK, First(i), NEW answer,
         calls' = Answered(i, answer)
  PROVE  /\ AreCalls(calls')
         /\ \A h, own, form, name : ~IsOwn(h, calls[i]) /\ Knows(h, calls, own, form, name)
                                      => Knows(h, calls', own, form, name)
<1>1. /\ IsSequence(calls) /\ AreCalls(calls) /\ IsCall(calls[i])
      /\ \A j \in 1 .. (i - 1) : calls[j].stage # "sent"
  BY DEF CallsOK, AreCalls, First
<1>2. CASE calls[i].thrown
  <2>1. calls' = RemoveAt(calls, i)
    BY <1>2 DEF Answered
  <2> QED BY <1>1, <2>1, CallsWithout, RemovedKnows
<1>3. CASE ~calls[i].thrown
  <2>1. PICK c : /\ Answered(i, answer) = [calls EXCEPT ![i] = c]
                 /\ IsCall(c) /\ c.stage = "answered"
                 /\ c.caller = calls[i].caller /\ c.name = calls[i].name
                 /\ c.request = calls[i].request
    BY <1>1, <1>3, AnsweredCall DEF IsAnswer
  <2>2. calls' = [calls EXCEPT ![i] = c]
    BY <2>1
  <2>3. AreCalls(calls')
    <3>1. AreCalls([calls EXCEPT ![i] = c])
      BY <1>1, <2>1, CallsAnswered, Zenon
    <3> QED BY <2>2, <3>1
  <2>4. ASSUME NEW h, NEW own, NEW form, NEW name, ~IsOwn(h, calls[i]),
               Knows(h, calls, own, form, name)
        PROVE  Knows(h, calls', own, form, name)
    <3>1. ~IsOwn(h, c)
      BY <2>1, <2>4 DEF IsOwn
    <3>2. Knows(h, [calls EXCEPT ![i] = c], own, form, name)
      BY <1>1, <2>4, <3>1, ReplacedKnows, Zenon
    <3> QED BY <2>2, <3>2
  <2> QED BY <2>3, <2>4
<1> QED BY <1>2, <1>3

LEMMA ServeOtherCallInv ==
  ASSUME CallInv, NEW i \in DOMAIN calls, ServeOther(i)
  PROVE  CallInv'
<1>1. PICK answer : calls' = Answered(i, answer)
  BY DEF ServeOther
<1>2. /\ First(i) /\ calls[i].request.message # "setLabel"
      /\ UNCHANGED <<names, alive, concepts, meant, renamers>>
  BY DEF ServeOther
<1>3. CallsOK /\ calls[i].name # "setLabel"
  BY <1>2 DEF CallInv, CallsOK, AreCalls, IsCall
<1>4. AreCalls(calls')
  BY <1>1, <1>2, <1>3, AnsweredKnows
<1>5. ASSUME NEW h \in Handle, Named(h), StillThere(h)
      PROVE  Knows(h, calls', Own(h), Form(meant[h]), names[meant[h]])
  <2>1. Knows(h, calls, Own(h), Form(meant[h]), names[meant[h]])
    BY <1>5 DEF CallInv, AllKnown, Known
  <2>2. ~IsOwn(h, calls[i])
    BY <1>3 DEF IsOwn
  <2> QED BY <1>1, <1>2, <1>3, <2>1, <2>2, AnsweredKnows
<1> QED BY <1>2, <1>4, <1>5, CallsStep

LEMMA RefuseCallInv ==
  ASSUME CallInv, NEW i \in DOMAIN calls, Refuse(i)
  PROVE  CallInv'
<1>1. /\ calls' = SubSeq(calls, 1, i - 1)
      /\ calls[i].stage = "sent" /\ \A j \in 1 .. (i - 1) : calls[j].stage # "sent"
      /\ UNCHANGED <<names, alive, concepts, meant, renamers>>
  BY DEF Refuse, First
<1>2. AreCalls(calls)
  BY DEF CallInv, CallsOK
<1>3. AreCalls(calls')
  BY <1>1, <1>2, CallsBefore
<1>4. ASSUME NEW h \in Handle, Named(h), StillThere(h)
      PROVE  Knows(h, calls', Own(h), Form(meant[h]), names[meant[h]])
  <2>1. Knows(h, calls, Own(h), Form(meant[h]), names[meant[h]])
    BY <1>4 DEF CallInv, AllKnown, Known
  <2> QED BY <1>1, <1>2, <2>1, RefusedKnows
<1> QED BY <1>1, <1>3, <1>4, CallsStep

LEMMA ResumeHalfwayCallInv ==
  ASSUME CallInv, NEW i \in DOMAIN calls, ResumeHalfway(i)
  PROVE  CallInv'
<1> DEFINE call == calls[i]
           relation == ConvertOne(MethodOf(call), call.answer)
           request == Request(RelationTypeMethods.getRelates, "getRelates", relation, <<"name">>,
                              <<concepts[call.caller].label.name>>)
           raced == call.raced \/ Renaming(call.caller)
           c == [call EXCEPT !.request = request, !.stage = "sent", !.answer = Null,
                             !.raced = raced]
           rest == RemoveAt(calls, i)
<1>1. /\ UNCHANGED <<names, alive, concepts, meant, renamers>>
      /\ call.name = "isDeleted"
      /\ calls' = rest \o IF open THEN <<c>> ELSE <<>>
  BY DEF ResumeHalfway, Halfway
<1>2. AreCalls(calls) /\ IsSequence(calls) /\ IsCall(call)
  BY DEF CallInv, CallsOK, AreCalls
<1>3. request.message \notin {"setLabel", "delete"}
  BY RelatesRequest
<1>4. DOMAIN c = DOMAIN call /\ c.stage = "sent" /\ c.name = call.name /\ c.request = request
  <2> HIDE DEF request, raced, call
  <2> QED BY <1>2 DEF IsCall
<1> HIDE DEF c, request
<1>5. IsCall(c) /\ c.name = "isDeleted"
  BY <1>1, <1>2, <1>3, <1>4 DEF IsCall
<1>6. AreCalls(rest) /\ IsSequence(rest)
  BY <1>2, CallsWithout DEF AreCalls
<1> HIDE DEF rest, call
<1>7. calls' = rest \/ calls' = Append(rest, c)
  <2>1. CASE open
    <3>1. rest \in Seq(ToSet(rest) \cup {c}) /\ c \in ToSet(rest) \cup {c}
      BY <1>6, SequenceWithin
    <3>2. Append(rest, c) = rest \o <<c>>
      BY <3>1, AppendIsConcat
    <3> QED BY <1>1, <2>1, <3>2
  <2>2. CASE ~open
    <3>1. rest \o <<>> = rest
      BY <1>6, ConcatEmptySeq DEF IsSequence
    <3> QED BY <1>1, <2>2, <3>1
  <2> QED BY <2>1, <2>2
<1>8. AreCalls(calls')
  BY <1>4, <1>5, <1>6, <1>7, CallsWith
<1>9. ASSUME NEW h \in Handle, Named(h), StillThere(h)
      PROVE  Knows(h, calls', Own(h), Form(meant[h]), names[meant[h]])
  <2>1. Knows(h, calls, Own(h), Form(meant[h]), names[meant[h]])
    BY <1>9 DEF CallInv, AllKnown, Known
  <2>2. ~IsOwn(h, calls[i]) /\ ~IsOwn(h, c)
    BY <1>1, <1>5 DEF IsOwn, call
  <2>3. Knows(h, rest, Own(h), Form(meant[h]), names[meant[h]])
    BY <1>2, <2>1, <2>2, RemovedKnows DEF rest
  <2>4. Knows(h, Append(rest, c), Own(h), Form(meant[h]), names[meant[h]])
    BY <1>6, <2>2, <2>3, AppendedKnows
  <2> QED BY <1>7, <2>3, <2>4
<1> QED BY <1>1, <1>8, <1>9, CallsStep

-----------------------------------------------------------------------------
(* The end of an await, and a cast.                                        *)

LEMMA ResumedKnows ==
  ASSUME NEW h, NEW s, NEW i \in DOMAIN s, NEW own, NEW form, NEW name,
         IsSequence(s), IsServed(h, s[i]), Knows(h, s, own, form, name)
  PROVE  /\ s[i].request.fields.label = name
         /\ Knows(h, RemoveAt(s, i), form, form, name)
<1> DEFINE t == RemoveAt(s, i)
           from(k) == IF k < i THEN k ELSE k + 1
<1>1. Len(s) \in Nat /\ DOMAIN s = 1 .. Len(s)
  BY LenProperties DEF IsSequence
<1>2. /\ IsSequence(t) /\ Len(t) = Len(s) - 1
      /\ \A k \in 1 .. Len(s) - 1 : t[k] = IF k < i THEN s[k] ELSE s[k + 1]
  BY Removed
<1>3. DOMAIN t = 1 .. Len(s) - 1
  BY <1>2, LenProperties DEF IsSequence
<1>4. s[i].request.fields.label = name /\ \A j \in DOMAIN s : IsServed(h, s[j]) => j = i
  BY DEF Knows
<1> SUFFICES Knows(h, t, form, form, name)
  BY <1>4
<1> HIDE DEF t
<1>5. \A k \in DOMAIN t : from(k) \in DOMAIN s /\ from(k) # i /\ t[k] = s[from(k)]
  BY <1>1, <1>2, <1>3
<1>6. ASSUME NEW k \in DOMAIN s, k # i
      PROVE  \E m \in DOMAIN t : from(m) = k /\ t[m] = s[k]
  <2>1. CASE k < i
    <3>1. k \in DOMAIN t /\ from(k) = k
      BY <1>1, <1>3, <2>1
    <3> QED BY <1>5, <3>1
  <2>2. CASE i < k
    <3>1. k - 1 \in DOMAIN t /\ from(k - 1) = k
      BY <1>1, <1>3, <2>2
    <3> QED BY <1>5, <3>1
  <2> QED BY <1>1, <1>6, <2>1, <2>2
<1>7. \A k, m \in DOMAIN t : from(m) < from(k) => m < k
  BY <1>1, <1>3
<1> HIDE DEF from
<1>8. \A k \in DOMAIN t : ~IsServed(h, t[k])
  BY <1>4, <1>5
<1>9. \A k \in DOMAIN s :
         Waits(h, s[k]) /\ (\A j \in DOMAIN s : j < k => ~Waits(h, s[j]))
            => s[k].request.on # form
  BY Zenon DEF Knows
<1>10. ASSUME NEW k \in DOMAIN t, Waits(h, t[k]), \A j \in DOMAIN t : j < k => ~Waits(h, t[j])
       PROVE  t[k].request.on # form
  <2>1. ASSUME NEW j \in DOMAIN s, j < from(k), Waits(h, s[j])
        PROVE  FALSE
    <3>1. j # i
      BY <2>1 DEF Waits, IsServed
    <3>2. PICK m \in DOMAIN t : from(m) = j /\ t[m] = s[j]
      BY <1>6, <3>1
    <3> QED BY <1>7, <1>10, <2>1, <3>2
  <2> QED BY <1>5, <1>9, <1>10, <2>1
<1> QED BY <1>8, <1>10, Zenon DEF Knows

LEMMA ResumeCallInv ==
  ASSUME CallInv, NEW i \in DOMAIN calls, Resume(i)
  PROVE  CallInv'
<1> DEFINE call == calls[i]
<1>1. /\ calls' = RemoveAt(calls, i) /\ call.stage = "answered"
      /\ UNCHANGED <<names, alive, meant, renamers>>
  BY DEF Resume
<1>2. AreCalls(calls) /\ IsSequence(calls) /\ IsCall(call)
  BY DEF CallInv, CallsOK, AreCalls
<1>3. AreCalls(calls')
  BY <1>1, <1>2, CallsWithout
<1>4. CASE call.name # "setLabel"
  <2>1. concepts' = concepts
    BY <1>4 DEF Resume
  <2>2. ASSUME NEW h \in Handle, Named(h), StillThere(h)
        PROVE  Knows(h, calls', Own(h), Form(meant[h]), names[meant[h]])
    <3>1. Knows(h, calls, Own(h), Form(meant[h]), names[meant[h]])
      BY <2>2 DEF CallInv, AllKnown, Known
    <3>2. ~IsOwn(h, calls[i])
      BY <1>4 DEF IsOwn
    <3> QED BY <1>1, <1>2, <3>1, <3>2, RemovedKnows
  <2> QED BY <1>1, <1>3, <2>1, <2>2, CallsStep
<1>5. CASE call.name = "setLabel"
  <2>0. PICK g, label : g = call.caller /\ label = call.request.fields.label
    OBVIOUS
  <2>1. g \in Handle /\ IsServed(g, call)
    BY <1>1, <1>2, <1>5, <2>0 DEF IsCall, IsServed, IsOwn
  <2>2. concepts' = [concepts EXCEPT ![g] = Relabelled(concepts[g], label)]
    BY <1>5, <2>0 DEF Resume
  <2> HIDE DEF call
  <2>3. DOMAIN concepts = Handle
    BY DEF CallInv, Domains
  <2>4. /\ DOMAIN concepts' = Handle /\ concepts[g]' = Relabelled(concepts[g], label)
        /\ \A h \in Handle : h # g => concepts[h]' = concepts[h]
    BY <2>1, <2>2, <2>3
  <2>5. Domains'
    BY <1>1, <2>4 DEF CallInv, Domains
  <2>6. IsConcept(meant[g], concepts[g])
    BY <2>1 DEF CallInv, ConceptsOK
  <2>7. /\ IsConcept(meant[g], Relabelled(concepts[g], label))
        /\ meant[g] \in RuleIds => Relabelled(concepts[g], label).label = label
        /\ meant[g] \in TypeIds =>
              Relabelled(concepts[g], label).label = Label(concepts[g].label.scope, label)
    <3> DEFINE c == concepts[g]
    <3> HIDE DEF c
    <3>1. IsConcept(meant[g], c)
      BY <2>6 DEF c
    <3>2. SUFFICES /\ IsConcept(meant[g], Relabelled(c, label))
                   /\ meant[g] \in RuleIds => Relabelled(c, label).label = label
                   /\ meant[g] \in TypeIds => Relabelled(c, label).label = Label(c.label.scope, label)
      BY DEF c
    <3>3. CASE meant[g] \in RuleIds
      <4>1. meant[g] \notin TypeIds /\ meant[g] \notin ThingIds
        BY <3>3, SchemaAssumption
      <4>2. Relabelled(c, label) = [c EXCEPT !.label = label]
        BY <3>1, <3>3 DEF IsConcept, IsRule, Relabelled
      <4> QED BY <3>1, <3>3, <4>1, <4>2 DEF IsConcept, IsRule
    <3>4. CASE meant[g] \in TypeIds
      <4>1. meant[g] \notin RuleIds /\ meant[g] \notin ThingIds
        BY <3>4, SchemaAssumption
      <4>2. Relabelled(c, label) = [c EXCEPT !.label = Label(c.label.scope, label)]
        BY <3>1, <3>4 DEF IsConcept, IsType, Relabelled
      <4>3. /\ Relabelled(c, label).label = Label(c.label.scope, label)
            /\ Relabelled(c, label).class = c.class
            /\ DOMAIN Relabelled(c, label) = DOMAIN c
        BY <3>1, <3>4, <4>2 DEF IsConcept, IsType
      <4> QED BY <3>1, <3>4, <4>1, <4>3 DEF IsConcept, IsType, Label
    <3>5. CASE meant[g] \in ThingIds
      <4>1. meant[g] \notin RuleIds /\ meant[g] \notin TypeIds
        BY <3>5, SchemaAssumption
      <4>2. DOMAIN c = {"class", "remote", "iid", "type"}
        BY <3>1, <3>5 DEF IsConcept, IsThing
      <4>3. DOMAIN Relabelled(c, label) = DOMAIN c /\ Relabelled(c, label).class = c.class
        BY <4>2 DEF Relabelled
      <4> QED BY <3>1, <3>5, <4>1, <4>2, <4>3 DEF IsConcept, IsThing
    <3> QED BY <2>1, <3>3, <3>4, <3>5 DEF CallInv, Domains, Entities
  <2>8. ConceptsOK'
    <3> SUFFICES ASSUME NEW h \in Handle PROVE IsConcept(meant[h], concepts[h])'
      BY DEF ConceptsOK
    <3>1. CASE h = g
      <4>1. IsConcept(meant[g], concepts[g])' <=> IsConcept(meant[g], concepts[g]')
        BY <1>1 DEF IsConcept
      <4> QED BY <2>4, <2>7, <3>1, <4>1
    <3>2. CASE h # g
      <4>1. concepts[h]' = concepts[h] /\ IsConcept(meant[h], concepts[h])
        BY <2>4, <3>2 DEF CallInv, ConceptsOK
      <4> QED BY <1>1, <4>1 DEF IsConcept
    <3> QED BY <3>1, <3>2
  <2>9. ASSUME NEW h \in Handle, Named(h)', StillThere(h)'
        PROVE  Known(h)'
    <3>1. Named(h) /\ StillThere(h)
      BY <1>1, <2>9 DEF Named, StillThere, Exists, LostTrack
    <3>2. ScopeKnown(h) /\ Knows(h, calls, Own(h), Form(meant[h]), names[meant[h]])
      BY <3>1 DEF CallInv, AllKnown, Known
    <3>3. Form(meant[h])' = Form(meant[h]) /\ names[meant[h]]' = names[meant[h]]
      BY <1>1 DEF Form, ScopeName
    <3>4. CASE h = g
      <4>1. IsServed(h, calls[i])
        BY <2>1, <3>4 DEF call
      <4>2. /\ label = names[meant[h]]
            /\ Knows(h, calls', Form(meant[h]), Form(meant[h]), names[meant[h]])
        BY <1>1, <1>2, <3>2, <4>1, <2>0, ResumedKnows DEF call
      <4>3. Own(h)' = Form(meant[h]) /\ ScopeKnown(h)'
        <5>1. meant[h] \in Entities /\ meant[h]' = meant[h]
          BY <1>1, <3>1 DEF CallInv, Domains, Named
        <5>2. CASE meant[h] \in RuleIds
          <6>1. meant[h] \notin TypeIds
            BY <5>2, SchemaAssumption
          <6> QED BY <2>4, <2>7, <3>4, <4>2, <5>1, <5>2, <6>1 DEF Own, Form, ScopeKnown
        <5>3. CASE meant[h] \in TypeIds
          <6>1. meant[h] \notin RuleIds
            BY <5>3, SchemaAssumption
          <6>2. concepts[h]'.label = Label(ScopeName(meant[h]), names[meant[h]])
            BY <2>4, <2>7, <3>2, <3>4, <4>2, <5>3 DEF ScopeKnown
          <6>3. ScopeName(meant[h])' = ScopeName(meant[h])
            BY <1>1 DEF ScopeName
          <6> QED BY <5>1, <5>3, <6>1, <6>2, <6>3 DEF Own, Form, ScopeKnown, Label
        <5> QED BY <5>1, <5>2, <5>3 DEF Entities
      <4>4. Knows(h, calls, Own(h), Form(meant[h]), names[meant[h]])'
        BY <3>3, <4>2, <4>3, Zenon
      <4> QED BY <4>3, <4>4, Zenon DEF Known
    <3>5. CASE h # g
      <4>1. ~IsOwn(h, calls[i])
        BY <2>0, <3>5 DEF IsOwn, call
      <4>2. Knows(h, calls', Own(h), Form(meant[h]), names[meant[h]])
        BY <1>1, <1>2, <3>2, <4>1, RemovedKnows
      <4>3. Own(h)' = Own(h) /\ ScopeKnown(h)'
        BY <1>1, <2>4, <3>2, <3>5 DEF Own, ScopeKnown, ScopeName
      <4>4. Knows(h, calls, Own(h), Form(meant[h]), names[meant[h]])'
        BY <3>3, <4>2, <4>3, Zenon
      <4> QED BY <4>3, <4>4, Zenon DEF Known
    <3> QED BY <3>4, <3>5
  <2> QED BY <1>3, <2>5, <2>8, <2>9 DEF CallInv, CallsOK, AllKnown
<1> QED BY <1>4, <1>5

LEMMA CastCallInv ==
  ASSUME CallInv, NEW h \in Handle, NEW class \in DOMAIN Superclass, Cast(h, class)
  PROVE  CallInv'
<1>1. UNCHANGED <<names, alive, calls, meant, renamers>>
  BY DEF Cast
<1>2. concepts' = [concepts EXCEPT ![h] = [concepts[h] EXCEPT !.class = class]]
      /\ IsOfValueType(concepts[h], class)
  <2>1. ~Throws(As(concepts[h], class)) /\ As(concepts[h], class) # concepts[h]
    BY DEF Cast
  <2>2. Error("INVALID_CONCEPT_CASTING") # Null
    BY NullIsNoError DEF ErrorCodes
  <2>3. Throws(Error("INVALID_CONCEPT_CASTING"))
    BY <2>2 DEF Throws, Error
  <2>4. ~Is(concepts[h], class)
    BY <2>1 DEF As
  <2>5. IsOfValueType(concepts[h], class)
    BY <2>1, <2>3, <2>4 DEF As
  <2>6. As(concepts[h], class) = [concepts[h] EXCEPT !.class = class]
    BY <2>4, <2>5 DEF As
  <2> QED BY <2>5, <2>6 DEF Cast
<1>3. DOMAIN concepts = Handle /\ IsConcept(meant[h], concepts[h]) /\ meant[h] \in Entities \cup ThingIds
  BY DEF CallInv, Domains, ConceptsOK
<1>4. meant[h] \notin RuleIds /\ class # "Rule" /\ class \in DOMAIN Methods
  <2>1. Superclass[class] = "AttributeType" /\ "AttributeType" \in Lineage[concepts[h].class]
    BY <1>2 DEF IsOfValueType, Is
  <2> QED BY <1>3, <2>1, MethodAssumption DEF IsConcept, IsRule
<1>5. PICK c : c = concepts[h]
  OBVIOUS
<1>6. DOMAIN c = {"class", "remote", "label", "root"} \/ DOMAIN c = {"class", "remote", "iid", "type"}
  BY <1>3, <1>4, <1>5 DEF IsConcept, IsType, IsThing, Entities
<1>7. PICK d : d = [c EXCEPT !.class = class]
  OBVIOUS
<1>8. /\ DOMAIN d = DOMAIN c /\ d.class = class
      /\ DOMAIN c = {"class", "remote", "label", "root"} => d.label = c.label
  BY <1>6, <1>7
<1>9. /\ DOMAIN concepts' = Handle /\ concepts[h]' = d
      /\ \A g \in Handle : g # h => concepts[g]' = concepts[g]
  BY <1>2, <1>3, <1>5, <1>7
<1>10. IsConcept(meant[h], d)
  BY <1>3, <1>4, <1>5, <1>8 DEF IsConcept, IsType, IsThing
<1>11. Domains'
  BY <1>1, <1>9 DEF CallInv, Domains
<1>12. ConceptsOK'
  <2> SUFFICES ASSUME NEW g \in Handle PROVE IsConcept(meant[g], concepts[g])'
    BY DEF ConceptsOK
  <2>1. CASE g = h
    BY <1>1, <1>9, <1>10, <2>1 DEF IsConcept
  <2>2. CASE g # h
    <3>1. concepts[g]' = concepts[g] /\ IsConcept(meant[g], concepts[g])
      BY <1>9, <2>2 DEF CallInv, ConceptsOK
    <3> QED BY <1>1, <3>1 DEF IsConcept
  <2> QED BY <2>1, <2>2
<1>13. ASSUME NEW g \in Handle, Named(g)', StillThere(g)'
       PROVE  Known(g)'
  <2>1. Named(g) /\ StillThere(g) /\ meant[g]' = meant[g]
    BY <1>1, <1>13 DEF Named, StillThere, Exists, LostTrack
  <2>2. ScopeKnown(g) /\ Knows(g, calls, Own(g), Form(meant[g]), names[meant[g]])
    BY <2>1 DEF CallInv, AllKnown, Known
  <2>3. concepts[g]'.label = concepts[g].label
    <3>1. CASE g = h
      <4>1. IsType(c)
        BY <1>3, <1>4, <1>5, <2>1, <3>1 DEF Named, IsConcept, Entities
      <4> QED BY <1>5, <1>8, <1>9, <3>1, <4>1 DEF IsType
    <3>2. CASE g # h
      BY <1>9, <3>2
    <3> QED BY <3>1, <3>2
  <2>4. /\ Own(g)' = Own(g) /\ Form(meant[g])' = Form(meant[g])
        /\ names[meant[g]]' = names[meant[g]] /\ ScopeKnown(g)' /\ calls' = calls
    BY <1>1, <2>1, <2>2, <2>3 DEF Own, Form, ScopeName, ScopeKnown
  <2>5. Knows(g, calls, Own(g), Form(meant[g]), names[meant[g]])'
    BY <2>2, <2>4, Zenon
  <2> QED BY <2>4, <2>5, Zenon DEF Known
<1>14. CallsOK'
  BY <1>1 DEF CallInv, CallsOK
<1> QED BY <1>11, <1>12, <1>13, <1>14 DEF CallInv, AllKnown

-----------------------------------------------------------------------------
(* The steps of the server that change names.                              *)

\* What is left of a handle that has not lost track.
LEMMA OnTrack ==
  ASSUME Domains, NEW h \in Handle, Named(h), StillThere(h)
  PROVE  /\ meant[h] \in Entities /\ names[meant[h]] # Null
         /\ renamers[meant[h]] \subseteq {h}
         /\ ScopeOf(meant[h]) # Null => renamers[ScopeOf(meant[h])] = {}
         /\ \A x \in Entities : x # meant[h] => h \notin renamers[x]
<1>1. meant[h] \in Entities /\ meant[h] \notin ThingIds
  BY DEF Domains, Named
<1>2. names[meant[h]] # Null
  BY <1>1 DEF StillThere, Exists
<1>3. ~LostTrack(h)
  BY DEF StillThere
<1> QED BY <1>1, <1>2, <1>3 DEF LostTrack, Domains

LEMMA ServedKnows ==
  ASSUME NEW h, NEW s, NEW i \in DOMAIN s, NEW c, NEW own, NEW form, NEW name,
         NEW newForm, NEW newName, IsSequence(s), Waits(h, s[i]),
         \A j \in 1 .. (i - 1) : s[j].stage # "sent",
         IsServed(h, c), c.request.fields.label = newName,
         s[i].request.on = form, newForm # form, Knows(h, s, own, form, name)
  PROVE  Knows(h, [s EXCEPT ![i] = c], own, newForm, newName)
<1> DEFINE t == [s EXCEPT ![i] = c]
<1>1. Len(s) \in Nat /\ DOMAIN s = 1 .. Len(s)
  BY LenProperties DEF IsSequence
<1>2. /\ IsSequence(t) /\ Len(t) = Len(s)
      /\ \A k \in 1 .. Len(s) : t[k] = IF k = i THEN c ELSE s[k]
  BY Replaced
<1>3. DOMAIN t = 1 .. Len(s)
  BY <1>2, LenProperties DEF IsSequence
<1> SUFFICES Knows(h, t, own, newForm, newName)
  OBVIOUS
<1> HIDE DEF t
<1>4. \A j \in DOMAIN s : j < i => ~Waits(h, s[j])
  BY <1>1 DEF Waits
<1>5. \A j \in DOMAIN s : ~IsServed(h, s[j]) /\ (Waits(h, s[j]) => s[j].request.on = own)
  BY <1>4, Zenon DEF Knows
<1>6. own = form
  BY <1>5
<1>7. \A j \in DOMAIN t : IsServed(h, t[j]) => j = i
  BY <1>1, <1>2, <1>3, <1>5
<1>8. i \in DOMAIN t /\ t[i] = c
  BY <1>1, <1>2, <1>3
<1>9. \A j \in DOMAIN t : Waits(h, t[j]) => t[j].request.on = own
  <2>1. ~Waits(h, c)
    BY DEF Waits, IsServed
  <2> QED BY <1>1, <1>2, <1>3, <1>5, <2>1
<1>10. own # newForm
  BY <1>6
<1>11. \E k \in DOMAIN t : /\ IsServed(h, t[k]) /\ t[k].request.fields.label = newName
                           /\ \A j \in DOMAIN t : IsServed(h, t[j]) => j = k
  BY <1>7, <1>8
<1>12. \A j \in DOMAIN t : Waits(h, t[j]) => t[j].request.on # newForm
  BY <1>9, <1>10
<1> QED BY <1>10, <1>11, <1>12, Zenon DEF Knows

LEMMA ServeRenameCallInv ==
  ASSUME CallInv, NEW i \in DOMAIN calls, ServeRename(i)
  PROVE  CallInv'
<1>1. PICK call, x, label, g :
         /\ call = calls[i] /\ x = Subject(call.request.on)
         /\ label = call.request.fields.label /\ g = call.caller
  OBVIOUS
<1>2. /\ First(i) /\ call.request.message = "setLabel"
      /\ call.request.on # OnManager => x # Null
      /\ x \in RuleIds => RuleNamed(label) = Null
      /\ x \in TypeIds => TypeNamed(ScopeName(x), label) = Null
      /\ names' = [names EXCEPT ![x] = label]
      /\ renamers' = [renamers EXCEPT ![x] = @ \cup {g}]
      /\ calls' = Answered(i, Null)
      /\ concepts' = concepts /\ meant' = meant /\ alive' = alive
  BY <1>1 DEF ServeRename, Understood
<1>3. Domains /\ ConceptsOK /\ CallsOK /\ IsSequence(calls) /\ IsCall(call)
  BY <1>1 DEF CallInv, CallsOK, AreCalls
<1>4. /\ call.name = "setLabel" /\ ~call.thrown /\ g \in Handle /\ call.stage = "sent"
      /\ \/ call.request.on = OnRule(call.request.on.label)
         \/ call.request.on = OnType(Label(call.request.on.scope, call.request.on.label))
  BY <1>1, <1>2, <1>3 DEF IsCall, First
<1>5. call.request.on # OnManager
  <2>1. call.request.on.kind \in {"rule", "type"}
    BY <1>4 DEF OnRule, OnType
  <2> QED BY <2>1 DEF OnManager
<1>6. x \in Entities /\ names[x] # Null /\ call.request.on = Form(x)
  BY <1>1, <1>2, <1>4, <1>5, SubjectForm
<1>7. PICK c : /\ Answered(i, Null) = [calls EXCEPT ![i] = c]
               /\ IsCall(c) /\ c.stage = "answered"
               /\ c.caller = g /\ c.name = "setLabel" /\ c.request = call.request
  BY <1>1, <1>3, <1>4, AnsweredCall DEF IsAnswer
<1>8. \A j \in 1 .. (i - 1) : calls[j].stage # "sent"
  BY <1>2 DEF First
<1>9. AreCalls(calls')
  BY <1>2, <1>3, AnsweredKnows
<1>10. Domains'
  BY <1>2, <1>3 DEF Domains
<1>11. ConceptsOK'
  BY <1>2, <1>3 DEF ConceptsOK
<1>12. /\ names'[x] = label /\ renamers'[x] = renamers[x] \cup {g}
       /\ \A y \in Entities : y # x => names'[y] = names[y] /\ renamers'[y] = renamers[y]
  BY <1>2, <1>3, <1>6 DEF Domains
<1>13. label # names[x]
  <2>1. CASE x \in RuleIds
    <3>1. RuleNamed(names[x]) # Null
      BY <1>6, <2>1, SchemaAssumption DEF RuleNamed, OrNull
    <3> QED BY <1>2, <2>1, <3>1
  <2>2. CASE x \in TypeIds
    <3>1. TypeNamed(ScopeName(x), names[x]) # Null
      BY <1>6, <2>2, SchemaAssumption DEF TypeNamed, OrNull, Existing
    <3> QED BY <1>2, <2>2, <3>1
  <2> QED BY <1>6, <2>1, <2>2 DEF Entities
<1>14. ASSUME NEW h \in Handle, Named(h)', StillThere(h)'
       PROVE  Known(h)'
  <2>1. /\ meant[h]' = meant[h] /\ meant[h] \in Entities /\ names'[meant[h]] # Null
        /\ renamers'[meant[h]] \subseteq {h}
        /\ ScopeOf(meant[h]) # Null => renamers'[ScopeOf(meant[h])] = {}
        /\ \A y \in Entities : y # meant[h] => h \notin renamers'[y]
    <3>1. /\ meant'[h] \in Entities /\ names'[meant'[h]] # Null
          /\ renamers'[meant'[h]] \subseteq {h}
          /\ ScopeOf(meant'[h]) # Null => renamers'[ScopeOf(meant'[h])] = {}
          /\ \A y \in Entities : y # meant'[h] => h \notin renamers'[y]
      <4>1. meant'[h] \in Entities /\ meant'[h] \notin ThingIds
        BY <1>10, <1>14 DEF Domains, Named
      <4>2. names'[meant'[h]] # Null
        BY <1>14, <4>1 DEF StillThere, Exists
      <4>3. ~LostTrack(h)'
        BY <1>14 DEF StillThere
      <4> QED BY <1>10, <4>1, <4>2, <4>3 DEF LostTrack, Domains, ScopeOf
    <3> QED BY <1>2, <3>1
  <2>2. ScopeOf(meant[h]) # x
    BY <1>6, <1>12, <2>1, SchemaAssumption DEF Entities
  <2>3. ScopeOf(meant[h]) \in TypeIds \cup {Null}
    BY <2>1, SchemaAssumption DEF ScopeOf
  <2>4. StillThere(h) /\ Named(h)
    <3>1. meant[h] \notin ThingIds
      BY <2>1, SchemaAssumption DEF Entities
    <3>2. names[meant[h]] # Null
      BY <1>6, <1>12, <2>1
    <3>3. renamers[meant[h]] \subseteq {h}
      BY <1>12, <2>1
    <3>4. ScopeOf(meant[h]) # Null => renamers[ScopeOf(meant[h])] = {}
      BY <1>12, <2>1, <2>2, <2>3 DEF Entities
    <3>5. \A y \in Entities : y # meant[h] => h \notin renamers[y]
      BY <1>12, <2>1
    <3> QED BY <1>3, <3>1, <3>2, <3>3, <3>4, <3>5
            DEF StillThere, Exists, LostTrack, Named, Domains
  <2>5. ScopeKnown(h) /\ Knows(h, calls, Own(h), Form(meant[h]), names[meant[h]])
    BY <2>4 DEF CallInv, AllKnown, Known
  <2>6. meant[h] \in TypeIds => ScopeName(meant[h])' = ScopeName(meant[h])
    BY <1>2, <1>12, <2>1, <2>2, <2>3, SchemaAssumption DEF ScopeName, ScopeOf, Entities
  <2>7. ScopeKnown(h)' /\ Own(h)' = Own(h)
    BY <1>2, <2>5, <2>6 DEF ScopeKnown, Own
  <2>8. CASE x = meant[h]
    <3>1. g = h
      BY <1>12, <2>1, <2>8
    <3>2. Form(meant[h])' # Form(meant[h])
      BY <1>2, <1>12, <1>13, <2>1, <2>6, <2>8, SchemaAssumption
         DEF Form, OnRule, OnType, Label, Entities
    <3>3. IsServed(h, c) /\ c.request.fields.label = label
      BY <1>1, <1>7, <3>1 DEF IsServed, IsOwn
    <3>4. Waits(h, calls[i]) /\ calls[i].request.on = Form(meant[h])
      BY <1>1, <1>4, <1>6, <2>8, <3>1 DEF Waits, IsOwn
    <3>5. PICK form : form = Form(meant[h])'
      OBVIOUS
    <3>6. Knows(h, [calls EXCEPT ![i] = c], Own(h), form, label)
      BY <1>3, <1>8, <2>5, <3>2, <3>3, <3>4, <3>5, ServedKnows
    <3>7. calls' = [calls EXCEPT ![i] = c] /\ names[meant[h]]' = label
      BY <1>2, <1>7, <1>12, <2>8
    <3>8. Knows(h, calls, Own(h), Form(meant[h]), names[meant[h]])'
      BY <2>7, <3>5, <3>6, <3>7, Zenon
    <3> QED BY <2>7, <3>8, Zenon DEF Known
  <2>9. CASE x # meant[h]
    <3>1. g # h
      BY <1>6, <1>12, <2>1, <2>9
    <3>2. names[meant[h]]' = names[meant[h]] /\ Form(meant[h])' = Form(meant[h])
      BY <1>2, <1>12, <2>1, <2>6, <2>9 DEF Form, Entities
    <3>3. ~IsOwn(h, calls[i])
      BY <1>1, <3>1 DEF IsOwn
    <3>4. Knows(h, calls', Own(h), Form(meant[h]), names[meant[h]])
      BY <1>2, <1>3, <2>5, <3>3, AnsweredKnows
    <3>5. Knows(h, calls, Own(h), Form(meant[h]), names[meant[h]])'
      BY <2>7, <3>2, <3>4, Zenon
    <3> QED BY <2>7, <3>5, Zenon DEF Known
  <2> QED BY <2>8, <2>9
<1> QED BY <1>9, <1>10, <1>11, <1>14 DEF CallInv, CallsOK, AllKnown

LEMMA ServeDeleteCallInv ==
  ASSUME CallInv, NEW i \in DOMAIN calls, ServeDelete(i)
  PROVE  CallInv'
<1>1. PICK call, x : call = calls[i] /\ x = Subject(call.request.on)
  OBVIOUS
<1>2. /\ First(i) /\ call.request.message = "delete"
      /\ call.request.on # OnManager => x # Null
      /\ names' = [y \in DOMAIN names |-> IF y = x \/ ScopeOf(y) = x THEN Null ELSE names[y]]
      /\ calls' = Answered(i, Null)
      /\ concepts' = concepts /\ meant' = meant /\ renamers' = renamers
  BY <1>1 DEF ServeDelete, Understood
<1>3. Domains /\ ConceptsOK /\ CallsOK /\ IsCall(call)
  BY <1>1 DEF CallInv, CallsOK, AreCalls
<1>4. call.name # "setLabel" /\ x # Null
  BY <1>2, <1>3 DEF IsCall
<1>5. AreCalls(calls')
  BY <1>2, <1>3, AnsweredKnows
<1>6. Domains' /\ ConceptsOK'
  BY <1>2, <1>3 DEF Domains, ConceptsOK
<1>7. ASSUME NEW h \in Handle, Named(h)', StillThere(h)'
      PROVE  Known(h)'
  <2>1. meant[h]' = meant[h] /\ meant[h] \in Entities /\ meant[h] \notin ThingIds
    BY <1>2, <1>3, <1>7 DEF Named, Domains
  <2>2. names'[meant[h]] # Null /\ ~LostTrack(h)
    BY <1>2, <1>7, <2>1 DEF StillThere, Exists, LostTrack
  <2>3. /\ meant[h] # x /\ ScopeOf(meant[h]) # x
        /\ names'[meant[h]] = names[meant[h]]
    BY <1>2, <1>3, <2>1, <2>2 DEF Domains
  <2>4. Named(h) /\ StillThere(h)
    BY <2>1, <2>2, <2>3 DEF Named, StillThere, Exists
  <2>5. ScopeKnown(h) /\ Knows(h, calls, Own(h), Form(meant[h]), names[meant[h]])
    BY <2>4 DEF CallInv, AllKnown, Known
  <2>6. ASSUME meant[h] \in TypeIds
        PROVE  ScopeName(meant[h])' = ScopeName(meant[h])
    <3>1. CASE Schema[meant[h]].scope = Null
      BY <2>1, <3>1 DEF ScopeName
    <3>2. CASE Schema[meant[h]].scope # Null
      <4> DEFINE s == Schema[meant[h]].scope
      <4>1. s \in TypeIds /\ Schema[s].encoding = "RELATION_TYPE"
        BY <2>6, <3>2, SchemaAssumption
      <4>2. Schema[s].scope = Null
        BY <4>1, SchemaAssumption
      <4>3. s # x /\ ScopeOf(s) # x
        BY <1>4, <2>3, <2>6, <4>1, <4>2 DEF ScopeOf
      <4>4. PICK u : u = s
        OBVIOUS
      <4>5. names'[u] = names[u]
        BY <1>2, <1>3, <4>1, <4>3, <4>4 DEF Domains, Entities
      <4> QED BY <2>1, <3>2, <4>4, <4>5 DEF ScopeName
    <3> QED BY <3>1, <3>2
  <2>7. /\ ScopeKnown(h)' /\ Own(h)' = Own(h) /\ names[meant[h]]' = names[meant[h]]
        /\ Form(meant[h])' = Form(meant[h])
    BY <1>2, <2>1, <2>3, <2>5, <2>6 DEF ScopeKnown, Own, Form, Entities
  <2>8. ~IsOwn(h, calls[i])
    BY <1>1, <1>4 DEF IsOwn
  <2>9. Knows(h, calls', Own(h), Form(meant[h]), names[meant[h]])
    BY <1>2, <1>3, <2>5, <2>8, AnsweredKnows
  <2>10. Knows(h, calls, Own(h), Form(meant[h]), names[meant[h]])'
    BY <2>7, <2>9, Zenon
  <2> QED BY <2>7, <2>10, Zenon DEF Known
<1> QED BY <1>5, <1>6, <1>7 DEF CallInv, CallsOK, AllKnown

-----------------------------------------------------------------------------
(* The theorems.                                                           *)

LEMMA NextCallInv == CallInv /\ [Next]_vars => CallInv'
<1> SUFFICES ASSUME CallInv, [Next]_vars PROVE CallInv'
  OBVIOUS
<1>1. ASSUME NEW h \in Handle, NEW class \in DOMAIN Superclass, Cast(h, class)
      PROVE  CallInv'
  BY <1>1, CastCallInv
<1>2. ASSUME NEW caller \in Handle \cup DOMAIN Managers, NEW name \in DOMAIN MethodsOf(caller),
             Call(caller, name)
      PROVE  CallInv'
  BY <1>2, CallCallInv
<1>3. ASSUME NEW i \in DOMAIN calls, ServeRename(i)
      PROVE  CallInv'
  BY <1>3, ServeRenameCallInv
<1>4. ASSUME NEW i \in DOMAIN calls, ServeDelete(i)
      PROVE  CallInv'
  BY <1>4, ServeDeleteCallInv
<1>5. ASSUME NEW i \in DOMAIN calls, ServeOther(i)
      PROVE  CallInv'
  BY <1>5, ServeOtherCallInv
<1>6. ASSUME NEW i \in DOMAIN calls, Refuse(i)
      PROVE  CallInv'
  BY <1>6, RefuseCallInv
<1>7. ASSUME NEW i \in DOMAIN calls, ResumeHalfway(i)
      PROVE  CallInv'
  BY <1>7, ResumeHalfwayCallInv
<1>8. ASSUME NEW i \in DOMAIN calls, Resume(i)
      PROVE  CallInv'
  BY <1>8, ResumeCallInv
<1>9. CASE UNCHANGED vars
  <2>1. /\ UNCHANGED <<names, alive, concepts, meant, renamers>> /\ calls' = calls
    BY <1>9 DEF vars
  <2>2. AreCalls(calls')
    BY <2>1 DEF CallInv, CallsOK
  <2>3. \A h \in Handle : Named(h) /\ StillThere(h)
           => Knows(h, calls', Own(h), Form(meant[h]), names[meant[h]])
    BY <2>1 DEF CallInv, AllKnown, Known
  <2> QED BY <2>1, <2>2, <2>3, CallsStep
<1> QED BY <1>1, <1>2, <1>3, <1>4, <1>5, <1>6, <1>7, <1>8, <1>9 DEF Next

\* The server's answers reach the calls in the order of the requests, every
\* concept stays what it is, and a handle whose type or rule nobody else has
\* renamed knows what the server knows, or has one answered setLabel() that
\* will tell it.
THEOREM CallInvariance == Spec => []CallInv
<1>1. Init => CallInv
  BY InitCallInv
<1>2. CallInv /\ [Next]_vars => CallInv'
  BY NextCallInv
<1> QED BY <1>1, <1>2, PTL DEF Spec

\* Whatever the order in which calls are made, answered, refused and resumed,
\* a concept that only its own handle has renamed is left with the name it has
\* on the server (TypeImpl.ts:148).
THEOREM LabelsFollow == Spec => []LabelFollowsOwnRenames
<1>1. CallInv => LabelFollowsOwnRenames
  <2> SUFFICES ASSUME CallInv, NEW h \in Handle, Named(h), StillThere(h), ~Renaming(h)
               PROVE  IF meant[h] \in RuleIds THEN concepts[h].label = names[meant[h]]
                      ELSE concepts[h].label = Label(ScopeName(meant[h]), names[meant[h]])
    BY DEF LabelFollowsOwnRenames, Named
  <2>1. \A i \in DOMAIN calls : ~IsServed(h, calls[i])
    BY DEF Renaming, IsServed, IsOwn
  <2>2. Own(h) = Form(meant[h])
    BY <2>1 DEF CallInv, AllKnown, Known, Knows
  <2>3. IsConcept(meant[h], concepts[h]) /\ meant[h] \in Entities
    BY DEF CallInv, ConceptsOK, Domains, Named
  <2> QED BY <2>2, <2>3 DEF Own, Form, OnRule, OnType, Label, IsConcept, IsType, Entities
<1> QED BY <1>1, CallInvariance, PTL

-----------------------------------------------------------------------------
(* The names on the server.                                                *)

\* No two types of a scope and no two rules have the same name, and a role is
\* there only while its relation type is.
ServerInv ==
    /\ \A x \in Entities : names[x] \in Labels \cup {Null}
    /\ \A t, u \in Existing : names[t] = names[u] /\ ScopeName(t) = ScopeName(u) => t = u
    /\ \A r, s \in RuleIds : names[r] = names[s] /\ names[r] # Null => r = s
    /\ \A t \in Existing : ScopeOf(t) # Null => names[ScopeOf(t)] # Null

\* What setLabel() asks for is a label.
AskedLabels ==
    \A i \in DOMAIN calls : calls[i].name = "setLabel" => calls[i].request.fields.label \in Labels

LEMMA Scopes ==
  ASSUME NEW t \in TypeIds
  PROVE  /\ ScopeOf(t) \in TypeIds \cup {Null} /\ t \notin RuleIds /\ t \notin ThingIds /\ t # Null
         /\ ScopeName(t) = IF ScopeOf(t) = Null THEN Null ELSE names[ScopeOf(t)]
         /\ ScopeOf(t) # Null => ScopeOf(ScopeOf(t)) = Null
         /\ ScopeOf(t) # Null <=> Schema[t].encoding = "ROLE_TYPE"
<1>1. ScopeOf(t) = Schema[t].scope
  BY DEF ScopeOf
<1>2. ASSUME ScopeOf(t) # Null
      PROVE  ScopeOf(ScopeOf(t)) = Null
  <2>1. Schema[t].scope \in TypeIds /\ Schema[Schema[t].scope].encoding = "RELATION_TYPE"
    BY <1>1, <1>2, SchemaAssumption
  <2>2. Schema[Schema[t].scope].scope = Null
    BY <2>1, SchemaAssumption
  <2> QED BY <1>1, <2>1, <2>2 DEF ScopeOf
<1>3. t \notin RuleIds /\ t \notin ThingIds /\ t # Null
  BY SchemaAssumption
<1>4. /\ Schema[t].scope \in TypeIds \cup {Null}
      /\ Schema[t].scope # Null <=> Schema[t].encoding = "ROLE_TYPE"
  BY SchemaAssumption
<1> QED BY <1>1, <1>2, <1>3, <1>4 DEF ScopeName

LEMMA InitServerInv == Init => ServerInv
<1> SUFFICES ASSUME Init PROVE ServerInv
  OBVIOUS
<1>1. /\ \A t \in TypeIds : names[t] = Schema[t].name /\ names[t] \in Labels
      /\ \A r \in RuleIds : names[r] = Rule[r] /\ names[r] \in Labels
  <2>1. \A t \in TypeIds : t \notin RuleIds /\ names[t] = Schema[t].name
    BY SchemaAssumption DEF Init
  <2>2. \A r \in RuleIds : names[r] = Rule[r]
    BY DEF Init
  <2> QED BY <2>1, <2>2, Zenon DEF Labels
<1>2. Null \notin Labels
  BY SchemaAssumption
<1>3. \A x \in Entities : names[x] \in Labels \cup {Null}
  BY <1>1 DEF Entities
<1>4. ASSUME NEW t \in Existing, NEW u \in Existing,
             names[t] = names[u], ScopeName(t) = ScopeName(u)
      PROVE  t = u
  <2>1. t \in TypeIds /\ u \in TypeIds
    BY DEF Existing
  <2>2. /\ ScopeOf(t) \in TypeIds \cup {Null} /\ ScopeOf(u) \in TypeIds \cup {Null}
        /\ ScopeName(t) = IF ScopeOf(t) = Null THEN Null ELSE names[ScopeOf(t)]
        /\ ScopeName(u) = IF ScopeOf(u) = Null THEN Null ELSE names[ScopeOf(u)]
        /\ ScopeOf(t) # Null => ScopeOf(ScopeOf(t)) = Null
        /\ ScopeOf(u) # Null => ScopeOf(ScopeOf(u)) = Null
    BY <2>1, Scopes
  <2>3. ScopeOf(t) = ScopeOf(u)
    <3>1. CASE ScopeOf(t) = Null \/ ScopeOf(u) = Null
      BY <1>1, <1>2, <1>4, <2>2, <3>1
    <3>2. CASE ScopeOf(t) # Null /\ ScopeOf(u) # Null
      <4>1. PICK a, b : a = ScopeOf(t) /\ b = ScopeOf(u)
        OBVIOUS
      <4>2. a \in TypeIds /\ b \in TypeIds /\ names[a] = names[b]
        BY <1>4, <2>2, <3>2, <4>1
      <4>3. Schema[a].name = Schema[b].name /\ Schema[a].scope = Schema[b].scope
        BY <1>1, <2>2, <3>2, <4>1, <4>2 DEF ScopeOf
      <4> QED BY <4>1, <4>2, <4>3, SchemaAssumption
    <3> QED BY <3>1, <3>2
  <2>4. Schema[t].name = Schema[u].name /\ Schema[t].scope = Schema[u].scope
    BY <1>1, <1>4, <2>1, <2>3 DEF ScopeOf
  <2> QED BY <2>1, <2>4, SchemaAssumption
<1>5. \A r, s \in RuleIds : names[r] = names[s] /\ names[r] # Null => r = s
  BY <1>1, SchemaAssumption
<1>6. \A t \in Existing : ScopeOf(t) # Null => names[ScopeOf(t)] # Null
  BY <1>1, <1>2, Scopes DEF Existing
<1> QED BY <1>3, <1>4, <1>5, <1>6 DEF ServerInv

LEMMA OrNullEmpty ==
  ASSUME NEW S, Null \notin S, OrNull(S) = Null
  PROVE  S = {}
BY DEF OrNull

\* A new label is taken by nothing else of its scope.
LEMMA ServeRenameServerInv ==
  ASSUME CallInv, ServerInv, AskedLabels, NEW i \in DOMAIN calls, ServeRename(i)
  PROVE  ServerInv'
<1>1. PICK x, label, on : /\ x = Subject(calls[i].request.on) /\ on = calls[i].request.on
                          /\ label = calls[i].request.fields.label
  OBVIOUS
<1>2. /\ calls[i].request.message = "setLabel"
      /\ on # OnManager => x # Null
      /\ x \in RuleIds => RuleNamed(label) = Null
      /\ x \in TypeIds => TypeNamed(ScopeName(x), label) = Null
      /\ names' = [names EXCEPT ![x] = label]
  BY <1>1 DEF ServeRename, Understood
<1>3. Domains /\ IsCall(calls[i])
  BY DEF CallInv, CallsOK, AreCalls
<1>4. /\ calls[i].name = "setLabel"
      /\ on = OnRule(on.label) \/ on = OnType(Label(on.scope, on.label))
  BY <1>1, <1>2, <1>3 DEF IsCall
<1>5. on # OnManager
  BY <1>4 DEF OnRule, OnType, OnManager
<1>6. x \in Entities /\ names[x] # Null
  BY <1>1, <1>2, <1>4, <1>5, SubjectForm
<1>7. label \in Labels /\ label # Null
  BY <1>1, <1>4, SchemaAssumption DEF AskedLabels
<1>8. names'[x] = label /\ \A y \in Entities : y # x => names'[y] = names[y]
  BY <1>2, <1>3, <1>6 DEF Domains
<1>9. \A y \in Entities : names'[y] \in Labels \cup {Null} /\ (names'[y] # Null <=> names[y] # Null)
  BY <1>6, <1>7, <1>8 DEF ServerInv
<1>10. Existing' = Existing /\ Existing \subseteq TypeIds
  BY <1>9 DEF Existing, Entities
<1>11. \A t \in TypeIds : ScopeName(t)' = IF ScopeOf(t) = Null THEN Null ELSE names'[ScopeOf(t)]
  BY DEF ScopeName, ScopeOf
<1>12. ASSUME x \in TypeIds
       PROVE  \A t \in Existing : ScopeName(t) = ScopeName(x) => names[t] # label
  <2>1. {t \in Existing : names[t] = label /\ ScopeName(t) = ScopeName(x)} = {}
    <3>1. Null \notin {t \in Existing : names[t] = label /\ ScopeName(t) = ScopeName(x)}
      BY <1>10, SchemaAssumption
    <3> QED BY <1>2, <1>12, <3>1, OrNullEmpty DEF TypeNamed
  <2> QED BY <2>1
<1>13. ASSUME x \in RuleIds
       PROVE  \A r \in RuleIds : names[r] # label
  <2>1. {r \in RuleIds : label # Null /\ names[r] = label} = {}
    <3>1. Null \notin {r \in RuleIds : label # Null /\ names[r] = label}
      BY SchemaAssumption
    <3> QED BY <1>2, <1>13, <3>1, OrNullEmpty DEF RuleNamed
  <2> QED BY <1>7, <2>1
<1>14. ASSUME NEW t \in Existing, NEW u \in Existing,
              names'[t] = names'[u], ScopeName(t)' = ScopeName(u)'
       PROVE  t = u
  <2>1. /\ t \in TypeIds /\ u \in TypeIds /\ t \in Entities /\ u \in Entities
        /\ t \notin RuleIds /\ u \notin RuleIds
    BY <1>10, Scopes DEF Entities
  <2>2. PICK a, b : a = ScopeOf(t) /\ b = ScopeOf(u)
    OBVIOUS
  <2>3. /\ a \in TypeIds \cup {Null} /\ b \in TypeIds \cup {Null}
        /\ ScopeName(t) = IF a = Null THEN Null ELSE names[a]
        /\ ScopeName(u) = IF b = Null THEN Null ELSE names[b]
        /\ a # Null => ScopeOf(a) = Null /\ names[a] # Null
        /\ b # Null => ScopeOf(b) = Null /\ names[b] # Null
    BY <2>1, <2>2, Scopes DEF ServerInv
  <2>4. /\ a \in TypeIds => a \in Existing /\ a \in Entities /\ ScopeName(a) = Null
        /\ b \in TypeIds => b \in Existing /\ b \in Entities /\ ScopeName(b) = Null
    BY <2>3, SchemaAssumption, Scopes DEF Existing, Entities
  <2>5. (IF a = Null THEN Null ELSE names'[a]) = (IF b = Null THEN Null ELSE names'[b])
    BY <1>11, <1>14, <2>1, <2>2
  <2>6. ScopeName(t) = ScopeName(u)
    <3>1. CASE a = Null \/ b = Null
      <4>1. (a # Null => names'[a] # Null) /\ (b # Null => names'[b] # Null)
        BY <1>9, <2>3, <2>4
      <4>2. a = Null /\ b = Null
        BY <2>5, <3>1, <4>1
      <4> QED BY <2>3, <4>2
    <3>2. CASE a \in TypeIds /\ b \in TypeIds
      <4>1. names'[a] = names'[b]
        BY <2>5, <3>2, SchemaAssumption
      <4>0. a # Null /\ b # Null
        BY <3>2, SchemaAssumption
      <4>2. CASE x = a \/ x = b
        <5>1. x \in TypeIds /\ ScopeName(x) = Null
          BY <2>4, <3>2, <4>2
        <5>2. names[a] # label /\ names[b] # label
          BY <1>12, <2>4, <3>2, <5>1
        <5>3. a = b
          BY <1>8, <2>4, <3>2, <4>1, <4>2, <5>2
        <5> QED BY <2>3, <5>3
      <4>3. CASE x # a /\ x # b
        <5>1. names[a] = names[b]
          BY <1>8, <2>4, <3>2, <4>1, <4>3
        <5> QED BY <2>3, <4>0, <5>1
      <4> QED BY <4>2, <4>3
    <3> QED BY <2>3, <3>1, <3>2
  <2>7. CASE x = t \/ x = u
    <3>1. names[t] # label /\ names[u] # label
      BY <1>12, <2>1, <2>6, <2>7
    <3> QED BY <1>8, <1>14, <2>1, <2>7, <3>1
  <2>8. CASE x # t /\ x # u
    BY <1>8, <1>14, <2>1, <2>6, <2>8 DEF ServerInv
  <2> QED BY <2>7, <2>8
<1>15. ASSUME NEW r \in RuleIds, NEW s \in RuleIds, names'[r] = names'[s], names'[r] # Null
       PROVE  r = s
  <2>1. r \in Entities /\ s \in Entities
    BY DEF Entities
  <2>2. CASE x = r \/ x = s
    <3>1. names[r] # label /\ names[s] # label
      BY <1>13, <2>2
    <3> QED BY <1>8, <1>15, <2>1, <2>2, <3>1
  <2>3. CASE x # r /\ x # s
    BY <1>8, <1>15, <2>1, <2>3 DEF ServerInv
  <2> QED BY <2>2, <2>3
<1>16. ASSUME NEW t \in Existing, ScopeOf(t) # Null
       PROVE  names'[ScopeOf(t)] # Null
  <2>1. ScopeOf(t) \in Entities /\ names[ScopeOf(t)] # Null
    BY <1>10, <1>16, Scopes DEF ServerInv, Entities
  <2> QED BY <1>9, <2>1
<1> QED BY <1>9, <1>10, <1>14, <1>15, <1>16 DEF ServerInv

LEMMA ServeDeleteServerInv ==
  ASSUME CallInv, ServerInv, NEW i \in DOMAIN calls, ServeDelete(i)
  PROVE  ServerInv'
<1>1. PICK x : x = Subject(calls[i].request.on)
  OBVIOUS
<1>2. /\ calls[i].request.on # OnManager => x # Null
      /\ calls[i].request.message = "delete"
      /\ names' = [y \in DOMAIN names |-> IF y = x \/ ScopeOf(y) = x THEN Null ELSE names[y]]
  BY <1>1 DEF ServeDelete, Understood
<1>3. Domains /\ x # Null
  BY <1>2 DEF CallInv, CallsOK, AreCalls, IsCall
<1>4. \A y \in Entities : names'[y] = IF y = x \/ ScopeOf(y) = x THEN Null ELSE names[y]
  BY <1>2, <1>3 DEF Domains
<1>5. ASSUME NEW t \in Existing'
      PROVE  /\ t \in Existing /\ names'[t] = names[t] /\ ScopeName(t)' = ScopeName(t)
             /\ t # x /\ ScopeOf(t) # x
  <2>1. t \in TypeIds /\ names'[t] # Null
    BY DEF Existing
  <2>2. names'[t] = names[t] /\ t # x /\ ScopeOf(t) # x
    BY <1>4, <2>1 DEF Entities
  <2>3. ScopeName(t)' = ScopeName(t)
    <3>1. PICK a : a = ScopeOf(t)
      OBVIOUS
    <3>2. /\ a \in TypeIds \cup {Null} /\ (a # Null => ScopeOf(a) = Null)
          /\ ScopeName(t) = IF a = Null THEN Null ELSE names[a]
      BY <2>1, <3>1, Scopes
    <3>3. ScopeName(t)' = IF a = Null THEN Null ELSE names'[a]
      BY <2>1, <3>1 DEF ScopeName, ScopeOf
    <3>4. a # Null => names'[a] = names[a]
      BY <1>3, <1>4, <2>2, <3>1, <3>2 DEF Entities
    <3> QED BY <3>2, <3>3, <3>4
  <2> QED BY <2>1, <2>2, <2>3 DEF Existing
<1>6. \A y \in Entities : names'[y] \in Labels \cup {Null}
  BY <1>4 DEF ServerInv
<1>7. \A r \in RuleIds : names'[r] # Null => names'[r] = names[r]
  BY <1>4 DEF Entities
<1>8. ASSUME NEW t \in Existing', ScopeOf(t) # Null
      PROVE  names'[ScopeOf(t)] # Null
  <2>1. PICK a : a = ScopeOf(t)
    OBVIOUS
  <2>2. t \in Existing /\ a # x /\ t \in TypeIds
    BY <1>5, <1>8, <2>1 DEF Existing
  <2>3. a \in TypeIds /\ ScopeOf(a) = Null /\ names[a] # Null
    BY <1>8, <2>1, <2>2, Scopes DEF ServerInv
  <2> QED BY <1>3, <1>4, <2>1, <2>2, <2>3 DEF Entities
<1>9. \A t, u \in Existing' : names'[t] = names'[u] /\ ScopeName(t)' = ScopeName(u)' => t = u
  BY <1>5 DEF ServerInv
<1>10. \A r, s \in RuleIds : names'[r] = names'[s] /\ names'[r] # Null => r = s
  BY <1>7 DEF ServerInv
<1> QED BY <1>6, <1>8, <1>9, <1>10 DEF ServerInv

LEMMA ServerInvKept ==
  ASSUME ServerInv, names' = names
  PROVE  ServerInv'
<1>1. Existing' = Existing /\ \A t : ScopeName(t)' = ScopeName(t)
  BY DEF Existing, ScopeName
<1> QED BY <1>1 DEF ServerInv

-----------------------------------------------------------------------------
(* What a request names.                                                   *)

\* c waits for the server, and no setLabel() of its handles was under way when
\* it was made.
Fresh(c) == c.stage = "sent" /\ ~c.raced

\* No setLabel() of its handles comes before it.
OnTime(s) ==
    \A i \in DOMAIN s : Fresh(s[i]) =>
        \A h \in HandlesOf(s[i].caller, s[i].args) :
            \A j \in DOMAIN s : j < i => ~IsOwn(h, s[j])

IsRole(x) == x \in TypeIds /\ Schema[x].encoding = "ROLE_TYPE"

\* The class of a concept is of the kind of what it stands for.
Kinds == {"Rule", "Thing", "RoleType", "ThingType"}
KindOf(x) ==
    IF x \in RuleIds THEN "Rule" ELSE IF x \in ThingIds THEN "Thing"
    ELSE IF IsRole(x) THEN "RoleType" ELSE "ThingType"
Exact(x, c) ==
    /\ KindOf(x) \in Lineage[c.class]
    /\ x \in ThingIds => c \in Things /\ c.iid = x
    /\ x \in TypeIds => /\ c \in Types /\ c.label.name \in Labels
                        /\ ~IsRole(x) => c.label.scope = Null
    /\ x \in RuleIds => c \in Rules
AllExact == \A h \in Handle : Exact(meant[h], concepts[h])

\* How a request about h names it, and a reference among its fields does.
OnOf(h) == IF meant[h] \in ThingIds THEN OnThing(meant[h]) ELSE Own(h)
RefersTo(reference, h) ==
    \/ meant[h] \in ThingIds /\ "iid" \in DOMAIN reference /\ reference.iid = meant[h]
    \/ /\ meant[h] \in TypeIds /\ "iid" \notin DOMAIN reference
       /\ Label(reference.scope, reference.label) = concepts[h].label
Says(c) ==
    /\ c.caller \in Handle /\ c.request.on # OnManager
          /\ c.request.message # "getRelatesForRoleLabel" => c.request.on = OnOf(c.caller)
    /\ \A h \in ToSet(c.args) \cap Handle :
          \E reference \in References(c.request) : RefersTo(reference, h)

\* What isDeleted() asks for.  A role it looks for in two halves, of which the
\* first asks for the relation type.
FirstHalf(c) ==
    c.request.message = "getThingType" /\ c.request.fields.label = concepts[c.caller].label.scope
SecondHalf(c) ==
    /\ c.request.message = "getRelatesForRoleLabel"
    /\ c.request.on = OnType(Label(Null, concepts[c.caller].label.scope))
    /\ c.request.fields.label = concepts[c.caller].label.name
Looks(c) ==
    LET x == meant[c.caller]
        concept == concepts[c.caller]
        request == c.request
    IN  /\ x \in RuleIds => request.message = "getRule" /\ request.fields.label = concept.label
        /\ x \in ThingIds => request.message = "getThing" /\ request.fields.iid = x
        /\ x \in TypeIds /\ ~IsRole(x) =>
              request.message = "getThingType" /\ request.fields.label = concept.label.name
        /\ IsRole(x) => FirstHalf(c) \/ SecondHalf(c)

\* What a call has asked for.
WellAsked(c) ==
    /\ c.name = "setLabel" => c.request.fields.label \in Labels
    /\ c.name = "isDeleted" =>
          /\ c.caller \in Handle /\ c.args = <<>>
          /\ "isDeleted" \in DOMAIN Methods[concepts[c.caller].class]
          /\ IsRole(meant[c.caller]) =>
                FirstHalf(c) \/ c.request.message = "getRelatesForRoleLabel"
          /\ Fresh(c) => Looks(c)
    /\ Fresh(c) => Says(c)

\* What the first half of isDeleted() has found, and what isDeleted() tells.
FoundType(c) ==
    c.answer = Null \/ \E t \in TypeIds :
        /\ ~IsRole(t) /\ c.answer \in Protos /\ c.answer.label = c.request.fields.label
        /\ c.answer.encoding = Schema[t].encoding /\ c.answer.valueType = Schema[t].valueType
Told(c) ==
    ~Halfway(c) /\ ~c.stale =>
        Outcome(c) = {IF Is(concepts[c.caller], "ThingType") THEN c.existed ELSE ~c.existed}
WellAnswered(c) ==
    c.name = "isDeleted" /\ c.stage = "answered" =>
        /\ c.request.message = "getThingType" => FoundType(c)
        /\ Told(c)

RequestInv ==
    /\ AllExact /\ OnTime(calls)
    /\ \A i \in DOMAIN calls : WellAsked(calls[i]) /\ WellAnswered(calls[i])

\* Every call in t was in s, in the same order: it is the same or has been
\* answered.
SameCall(c, d) ==
    /\ d.caller = c.caller /\ d.name = c.name /\ d.args = c.args /\ d.raced = c.raced
    /\ d.request = c.request /\ (d.stage = "sent" => c.stage = "sent")
Follows(s, t, f) ==
    /\ \A k \in DOMAIN t : f[k] \in DOMAIN s /\ SameCall(s[f[k]], t[k])
    /\ \A k, m \in DOMAIN t : k < m => f[k] < f[m]

LEMMA OnTimeFollows ==
  ASSUME NEW s, NEW t, NEW f, Follows(s, t, f), OnTime(s)
  PROVE  OnTime(t)
<1> SUFFICES ASSUME NEW i \in DOMAIN t, Fresh(t[i]),
                    NEW h \in HandlesOf(t[i].caller, t[i].args),
                    NEW j \in DOMAIN t, j < i, IsOwn(h, t[j])
             PROVE  FALSE
  BY DEF OnTime
<1>1. /\ f[i] \in DOMAIN s /\ SameCall(s[f[i]], t[i])
      /\ f[j] \in DOMAIN s /\ SameCall(s[f[j]], t[j]) /\ f[j] < f[i]
  BY DEF Follows
<1>2. Fresh(s[f[i]]) /\ h \in HandlesOf(s[f[i]].caller, s[f[i]].args) /\ IsOwn(h, s[f[j]])
  BY <1>1 DEF SameCall, Fresh, IsOwn
<1> QED BY <1>1, <1>2 DEF OnTime

LEMMA OnTimeAppended ==
  ASSUME NEW s, NEW c, IsSequence(s), OnTime(s),
         Fresh(c) => \A h \in HandlesOf(c.caller, c.args) : \A j \in DOMAIN s : ~IsOwn(h, s[j])
  PROVE  OnTime(Append(s, c))
<1> DEFINE t == Append(s, c)
<1>1. Len(s) \in Nat /\ DOMAIN s = 1 .. Len(s)
  BY LenProperties DEF IsSequence
<1>2. /\ IsSequence(t) /\ Len(t) = Len(s) + 1
      /\ \A k \in 1 .. Len(s) : t[k] = s[k]
      /\ t[Len(s) + 1] = c
  BY Appended
<1>3. DOMAIN t = 1 .. Len(s) + 1
  BY <1>2, LenProperties DEF IsSequence
<1> SUFFICES OnTime(t)
  OBVIOUS
<1> HIDE DEF t
<1> SUFFICES ASSUME NEW i \in DOMAIN t, Fresh(t[i]),
                    NEW h \in HandlesOf(t[i].caller, t[i].args),
                    NEW j \in DOMAIN t, j < i, IsOwn(h, t[j])
             PROVE  FALSE
  BY DEF OnTime
<1>4. j \in DOMAIN s /\ t[j] = s[j]
  BY <1>1, <1>2, <1>3
<1>5. CASE i \in DOMAIN s
  <2>1. t[i] = s[i]
    BY <1>1, <1>2, <1>5
  <2> QED BY <1>4, <1>5, <2>1 DEF OnTime
<1>6. CASE i \notin DOMAIN s
  <2>1. t[i] = c
    BY <1>1, <1>2, <1>3, <1>6
  <2> QED BY <1>4, <2>1
<1> QED BY <1>5, <1>6

LEMMA RemovedFollows ==
  ASSUME NEW s, NEW i \in DOMAIN s, IsSequence(s)
  PROVE  /\ \E f : Follows(s, RemoveAt(s, i), f)
         /\ \A k \in DOMAIN RemoveAt(s, i) : \E m \in DOMAIN s : m # i /\ RemoveAt(s, i)[k] = s[m]
<1> DEFINE t == RemoveAt(s, i)
           f == [k \in 1 .. Len(s) |-> IF k < i THEN k ELSE k + 1]
<1>1. Len(s) \in Nat /\ DOMAIN s = 1 .. Len(s)
  BY LenProperties DEF IsSequence
<1>2. /\ IsSequence(t) /\ Len(t) = Len(s) - 1
      /\ \A k \in 1 .. Len(s) - 1 : t[k] = IF k < i THEN s[k] ELSE s[k + 1]
  BY Removed
<1>3. DOMAIN t = 1 .. Len(s) - 1
  BY <1>2, LenProperties DEF IsSequence
<1> SUFFICES /\ \E g : Follows(s, t, g)
             /\ \A k \in DOMAIN t : \E m \in DOMAIN s : m # i /\ t[k] = s[m]
  OBVIOUS
<1> HIDE DEF t
<1>4. \A k \in DOMAIN t : f[k] \in DOMAIN s /\ s[f[k]] = t[k] /\ f[k] # i
  BY <1>1, <1>2, <1>3
<1>5. \A k, m \in DOMAIN t : k < m => f[k] < f[m]
  BY <1>1, <1>3
<1> HIDE DEF f
<1>6. Follows(s, t, f)
  BY <1>4, <1>5 DEF Follows, SameCall
<1> QED BY <1>4, <1>6

LEMMA ReplacedFollows ==
  ASSUME NEW s, NEW i \in DOMAIN s, NEW c, IsSequence(s), SameCall(s[i], c)
  PROVE  /\ \E f : Follows(s, [s EXCEPT ![i] = c], f)
         /\ \A k \in DOMAIN [s EXCEPT ![i] = c] :
               \/ [s EXCEPT ![i] = c][k] = c
               \/ \E m \in DOMAIN s : m # i /\ [s EXCEPT ![i] = c][k] = s[m]
<1> DEFINE t == [s EXCEPT ![i] = c]
           f == [k \in 1 .. Len(s) |-> k]
<1>1. Len(s) \in Nat /\ DOMAIN s = 1 .. Len(s)
  BY LenProperties DEF IsSequence
<1>2. /\ IsSequence(t) /\ Len(t) = Len(s)
      /\ \A k \in 1 .. Len(s) : t[k] = IF k = i THEN c ELSE s[k]
  BY Replaced
<1>3. DOMAIN t = 1 .. Len(s)
  BY <1>2, LenProperties DEF IsSequence
<1> SUFFICES /\ \E g : Follows(s, t, g)
             /\ \A k \in DOMAIN t : t[k] = c \/ \E m \in DOMAIN s : m # i /\ t[k] = s[m]
  OBVIOUS
<1> HIDE DEF t
<1>4. \A k \in DOMAIN t : f[k] \in DOMAIN s /\ (t[k] = s[f[k]] \/ (t[k] = c /\ f[k] = i))
  BY <1>1, <1>2, <1>3
<1>5. \A k, m \in DOMAIN t : k < m => f[k] < f[m]
  BY <1>3
<1> HIDE DEF f
<1>6. Follows(s, t, f)
  BY <1>4, <1>5 DEF Follows, SameCall
<1>7. \A k \in DOMAIN t : t[k] = c \/ \E m \in DOMAIN s : m # i /\ t[k] = s[m]
  BY <1>1, <1>2, <1>3
<1> QED BY <1>6, <1>7

LEMMA PrefixFollows ==
  ASSUME NEW s, NEW i \in DOMAIN s, IsSequence(s)
  PROVE  \E f : Follows(s, SubSeq(s, 1, i - 1), f)
<1> DEFINE t == SubSeq(s, 1, i - 1)
           f == [k \in 1 .. Len(s) |-> k]
<1>1. Len(s) \in Nat /\ DOMAIN s = 1 .. Len(s)
  BY LenProperties DEF IsSequence
<1>2. IsSequence(t) /\ Len(t) = i - 1 /\ \A k \in 1 .. i - 1 : t[k] = s[k]
  BY Prefixed
<1>3. DOMAIN t = 1 .. i - 1
  BY <1>2, LenProperties DEF IsSequence
<1> SUFFICES \E g : Follows(s, t, g)
  OBVIOUS
<1> HIDE DEF t
<1>4. \A k \in DOMAIN t : f[k] \in DOMAIN s /\ t[k] = s[f[k]]
  BY <1>1, <1>2, <1>3
<1>5. \A k, m \in DOMAIN t : k < m => f[k] < f[m]
  BY <1>1, <1>3
<1> HIDE DEF f
<1>6. Follows(s, t, f)
  BY <1>4, <1>5 DEF Follows, SameCall
<1> QED BY <1>6

LEMMA AnsweredFollows ==
  ASSUME NEW i \in DOMAIN calls, CallsOK, NEW answer, calls' = Answered(i, answer)
  PROVE  \E f : Follows(calls, calls', f)
<1>1. IsSequence(calls) /\ IsCall(calls[i])
  BY DEF CallsOK, AreCalls
<1>2. CASE calls[i].thrown
  BY <1>1, <1>2, RemovedFollows DEF Answered
<1>3. CASE ~calls[i].thrown
  <2>1. PICK c : /\ Answered(i, answer) = [calls EXCEPT ![i] = c]
                 /\ c.stage = "answered"
                 /\ c.caller = calls[i].caller /\ c.name = calls[i].name
                 /\ c.request = calls[i].request
                 /\ c.args = calls[i].args /\ c.raced = calls[i].raced
    BY <1>1, <1>3, AnsweredCall DEF IsAnswer
  <2>2. SameCall(calls[i], c)
    BY <2>1 DEF SameCall
  <2>3. \E f : Follows(calls, [calls EXCEPT ![i] = c], f)
    BY <1>1, <2>2, ReplacedFollows, Zenon
  <2>4. calls' = [calls EXCEPT ![i] = c]
    BY <2>1
  <2> QED BY <2>3, <2>4, Zenon
<1> QED BY <1>2, <1>3

-----------------------------------------------------------------------------
(* The requests of a call.                                                 *)

LEMMA OneKind ==
  ASSUME CallInv, AllExact, NEW h \in Handle
  PROVE  /\ concepts[h].class \in DOMAIN Methods
         /\ Lineage[concepts[h].class] \cap Kinds = {KindOf(meant[h])}
         /\ meant[h] \in RuleIds => Lineage[concepts[h].class] \cap ConceptParameters = {}
<1> DEFINE above == Lineage[concepts[h].class]
<1>1. concepts[h].class \in DOMAIN Methods
  BY DEF CallInv, ConceptsOK, IsConcept
<1>2. above \cap ConceptParameters # {} =>
         \E kind \in {"Thing", "RoleType", "ThingType"} : above \cap Kinds = {kind}
  BY <1>1, KindAssumption DEF OfItsKind, Kinds
<1>3. KindOf(meant[h]) \in above /\ KindOf(meant[h]) \in Kinds
  BY DEF AllExact, Exact, KindOf, Kinds
<1> HIDE DEF above
<1>4. CASE meant[h] \in RuleIds
  <2>1. KindOf(meant[h]) = "Rule"
    BY <1>4 DEF KindOf
  <2>2. above \cap ConceptParameters = {}
    BY <1>2, <1>3, <2>1 DEF Kinds
  <2>3. above \cap Kinds = {"Rule"}
    BY <1>3, <2>1, <2>2 DEF Kinds, ConceptParameters
  <2> QED BY <1>1, <2>1, <2>2, <2>3 DEF above
<1>5. CASE meant[h] \notin RuleIds
  <2>1. KindOf(meant[h]) \in ConceptParameters
    BY <1>5 DEF KindOf, ConceptParameters
  <2>2. above \cap Kinds = {KindOf(meant[h])}
    BY <1>2, <1>3, <2>1
  <2> QED BY <1>1, <1>5, <2>2 DEF above
<1> QED BY <1>4, <1>5

\* The arguments fit the parameters.
LEMMA ArgumentsFit ==
  ASSUME NEW overload \in Seq(ConceptParameters \cup ValueParameters), Len(overload) \in 0..3,
         NEW args \in Arguments(overload)
  PROVE  /\ IsSequence(args) /\ Len(args) = Len(overload)
         /\ DOMAIN args = DOMAIN overload /\ DOMAIN args = 1 .. Len(args)
         /\ \A j \in DOMAIN args : args[j] \in Values(overload[j])
<1>0. DOMAIN overload = 1 .. Len(overload)
  BY LenProperties
<1>1. CASE Len(overload) = 0
  <2>1. args = <<>>
    BY <1>1 DEF Arguments
  <2>2. args \in Seq({}) /\ Len(args) = 0
    BY <2>1
  <2>3. IsSequence(args) /\ DOMAIN args = 1 .. Len(args)
    BY <2>2, SequenceOfAny
  <2> QED BY <1>0, <1>1, <2>2, <2>3
<1>2. CASE Len(overload) = 1
  <2>1. PICK x \in Values(overload[1]) : args = <<x>>
    BY <1>2 DEF Arguments
  <2>2. args \in Seq({x}) /\ Len(args) = 1 /\ DOMAIN args = 1 .. 1 /\ args[1] = x
    BY <2>1
  <2>3. IsSequence(args)
    BY <2>2, SequenceOfAny
  <2> QED BY <1>0, <1>2, <2>1, <2>2, <2>3
<1>3. CASE Len(overload) = 2
  <2>1. PICK x \in Values(overload[1]), y \in Values(overload[2]) : args = <<x, y>>
    BY <1>3 DEF Arguments
  <2>2. /\ args \in Seq({x, y}) /\ Len(args) = 2 /\ DOMAIN args = 1 .. 2
        /\ args[1] = x /\ args[2] = y
    BY <2>1
  <2>3. IsSequence(args)
    BY <2>2, SequenceOfAny
  <2>4. \A j \in 1 .. 2 : j = 1 \/ j = 2
    OBVIOUS
  <2> QED BY <1>0, <1>3, <2>1, <2>2, <2>3, <2>4
<1>4. CASE Len(overload) = 3
  <2>1. PICK x \in Values(overload[1]), y \in Values(overload[2]), z \in Values(overload[3]) :
           args = <<x, y, z>>
    BY <1>4 DEF Arguments
  <2>2. /\ args \in Seq({x, y, z}) /\ Len(args) = 3 /\ DOMAIN args = 1 .. 3
        /\ args[1] = x /\ args[2] = y /\ args[3] = z
    BY <2>1
  <2>3. IsSequence(args)
    BY <2>2, SequenceOfAny
  <2>4. \A j \in 1 .. 3 : j = 1 \/ j = 2 \/ j = 3
    OBVIOUS
  <2> QED BY <1>0, <1>4, <2>1, <2>2, <2>3, <2>4
<1>5. Len(overload) = 0 \/ Len(overload) = 1 \/ Len(overload) = 2 \/ Len(overload) = 3
  OBVIOUS
<1> QED BY <1>1, <1>2, <1>3, <1>4, <1>5

\* A handle is an argument only for a parameter that takes its concept.
LEMMA HandleParameter ==
  ASSUME NEW parameter \in ConceptParameters \cup ValueParameters,
         NEW h \in Handle, h \in Values(parameter)
  PROVE  /\ parameter \in ConceptParameters
         /\ Lineage[concepts[h].class] \cap ConceptParameters # {}
<1>1. h \notin Names /\ h \notin ThingIds /\ h \notin {"true", "false", "value"} \cup ValueTypes
  BY SchemaAssumption, Zenon DEF Labels
<1>2. parameter \notin ValueParameters
  BY <1>1 DEF ValueParameters, Values, ValueTypes
<1>3. CASE parameter = "RoleType[]"
  BY <1>3 DEF Values, Is, ConceptParameters
<1>4. CASE parameter = "AttributeType[]"
  BY <1>4 DEF Values, Is, ConceptParameters
<1>5. CASE parameter \notin {"RoleType[]", "AttributeType[]"}
  <2>1. parameter \notin {"boolean", "ValueType", "name", "iid", "value"}
    BY <1>2 DEF ValueParameters
  <2>2. Values(parameter) = {g \in Handle : Is(concepts[g], parameter)}
    BY <1>5, <2>1 DEF Values
  <2> QED BY <1>2, <2>2 DEF Is
<1> QED BY <1>2, <1>3, <1>4, <1>5

\* The concept that stands for h among the fields.
LEMMA ProtoRefers ==
  ASSUME CallInv, AllExact, NEW h \in Handle,
         Lineage[concepts[h].class] \cap ConceptParameters # {}
  PROVE  Proto(concepts[h]) # Null /\ RefersTo(Proto(concepts[h]), h)
<1>1. PICK c, x : c = concepts[h] /\ x = meant[h]
  OBVIOUS
<1>2. /\ Lineage[c.class] \cap Kinds = {KindOf(x)} /\ x \notin RuleIds /\ Exact(x, c)
      /\ x \in TypeIds \/ x \in ThingIds
  BY <1>1, OneKind DEF AllExact, CallInv, Domains, Entities
<1>3. /\ Is(c, "RoleType") <=> KindOf(x) = "RoleType"
      /\ Is(c, "ThingType") <=> KindOf(x) = "ThingType"
      /\ Is(c, "Thing") <=> KindOf(x) = "Thing"
  BY <1>2 DEF Is, Kinds
<1>4. CASE x \in ThingIds
  <2>1. Proto(c) = [iid |-> x]
    BY <1>2, <1>3, <1>4 DEF KindOf, Proto, ThingProto, Exact
  <2>2. Proto(c) \in [iid : ThingIds]
    BY <1>4, <2>1
  <2>3. Proto(c) # Null
    BY <2>2, SchemaAssumption
  <2> QED BY <1>1, <1>4, <2>1, <2>3 DEF RefersTo
<1>5. CASE x \in TypeIds
  <2>1. /\ x \notin ThingIds /\ c.label.name \in Labels /\ c.label.scope \in LabelsOrNull
        /\ ~IsRole(x) => c.label.scope = Null
    BY <1>2, <1>5, SchemaAssumption DEF Exact, Types
  <2>2. Proto(c) = [label |-> c.label.name, scope |-> c.label.scope, encoding |-> Encoding(c)]
    <3>1. CASE IsRole(x)
      BY <1>2, <1>3, <2>1, <3>1 DEF KindOf, Proto, RoleTypeProto
    <3>2. CASE ~IsRole(x)
      BY <1>2, <1>3, <2>1, <3>2 DEF KindOf, Proto, ThingTypeProto
    <3> QED BY <3>1, <3>2
  <2>3. Encoding(c) \in Encodings
    BY DEF Encoding, Encodings
  <2>4. Proto(c) \in [label : Labels, scope : LabelsOrNull, encoding : Encodings]
    BY <2>1, <2>2, <2>3
  <2>5. Proto(c) # Null
    BY <2>4, SchemaAssumption
  <2>6. c.label = Label(c.label.scope, c.label.name)
    BY <1>1, <1>5 DEF CallInv, ConceptsOK, IsConcept, IsType
  <2>7. /\ "iid" \notin DOMAIN Proto(c)
        /\ Label(Proto(c).scope, Proto(c).label) = c.label
    BY <2>2, <2>6
  <2> QED BY <1>1, <1>5, <2>5, <2>7 DEF RefersTo
<1> QED BY <1>2, <1>4, <1>5

\* A builder is chosen, and puts the arguments, by the overload.
LEMMA BuilderOfOverload ==
  ASSUME NEW method, NEW overload, NEW args, NEW j,
         IsSequence(args), DOMAIN args = 1 .. Len(args),
         Len(args) = Len(overload), DOMAIN args = DOMAIN overload, j \in DOMAIN args,
         method.builder[2] # "getOwns"
  PROVE  /\ BuilderOf(method, overload, args)[1] = BuilderOf(method, overload, overload)[1]
         /\ j \in DOMAIN BuilderOf(method, overload, args)[2]
         /\ BuilderOf(method, overload, args)[2][j] = args[j]
<1> DEFINE name == method.builder[2]
<1>1. args # <<>> /\ overload # <<>>
  OBVIOUS
<1>2. PICK t : t = Append(args, "false")
  OBVIOUS
<1>3. j \in DOMAIN t /\ t[j] = args[j]
  <2>1. /\ IsSequence(t) /\ Len(t) = Len(args) + 1
        /\ \A k \in 1 .. Len(args) : t[k] = args[k]
    BY <1>2, Appended
  <2>2. DOMAIN t = 1 .. Len(t) /\ Len(args) \in Nat
    BY <2>1, LenProperties DEF IsSequence
  <2> QED BY <2>1, <2>2
<1>4. CASE name = "setOwns"
  <2>1. /\ BuilderOf(method, overload, args) = SetOwns(overload, args)
        /\ BuilderOf(method, overload, overload) = SetOwns(overload, overload)
    BY <1>4 DEF BuilderOf
  <2>2. SetOwns(overload, args)[1] = SetOwns(overload, overload)[1]
    BY DEF SetOwns
  <2>3. SetOwns(overload, args)[2] = args \/ SetOwns(overload, args)[2] = t
    BY <1>2 DEF SetOwns
  <2> QED BY <1>3, <2>1, <2>2, <2>3
<1>5. CASE name = "setPlays"
  BY <1>5 DEF BuilderOf, SetPlays
<1>6. CASE name = "getRelates"
  BY <1>1, <1>6 DEF BuilderOf, GetRelates
<1>7. CASE name = "setRelates"
  BY <1>7 DEF BuilderOf, SetRelates
<1>8. CASE name = "getHas"
  BY <1>1, <1>8 DEF BuilderOf, GetHas
<1>9. CASE name \notin {"setOwns", "setPlays", "getRelates", "setRelates", "getHas"}
  <2>1. CASE method.builder = <<"AttributeType", "getOwners">>
    BY <1>1, <1>9, <2>1 DEF BuilderOf, GetOwners
  <2>2. CASE method.builder = <<"Attribute", "getOwners">>
    BY <1>1, <1>9, <2>2 DEF BuilderOf, GetOwnersOf
  <2>3. CASE method.builder \notin {<<"AttributeType", "getOwners">>, <<"Attribute", "getOwners">>}
    <3>1. CASE method.builder = <<"Relation", "getPlayers">> \/ name = "getRelations"
      <4>1. \A a : BuilderOf(method, overload, a) = OrNone(name, a)
        BY <1>9, <2>3, <3>1 DEF BuilderOf
      <4> QED BY <1>1, <4>1 DEF OrNone
    <3>2. CASE ~(method.builder = <<"Relation", "getPlayers">> \/ name = "getRelations")
      <4>1. \A a : BuilderOf(method, overload, a) = <<name, a>>
        BY <1>9, <2>3, <3>2 DEF BuilderOf
      <4> QED BY <4>1
    <3> QED BY <3>1, <3>2
  <2> QED BY <2>1, <2>2, <2>3
<1> QED BY <1>4, <1>5, <1>6, <1>7, <1>8, <1>9

\* Every concept among the arguments has its place in the request.
LEMMA ArgumentPlaced ==
  ASSUME CallInv, AllExact, NEW method, InPlace(method), NEW overload \in method.overloads,
         NEW args \in Arguments(overload), NEW name, NEW concept,
         NEW h \in ToSet(args) \cap Handle
  PROVE  \E reference \in References(Request(method, name, concept, overload, args)) :
            RefersTo(reference, h)
<1>1. overload \in Seq(ConceptParameters \cup ValueParameters) /\ Len(overload) \in 0..3
  BY DEF InPlace
<1>2. /\ IsSequence(args) /\ Len(args) = Len(overload)
      /\ DOMAIN args = DOMAIN overload /\ DOMAIN args = 1 .. Len(args)
      /\ \A j \in DOMAIN args : args[j] \in Values(overload[j])
  BY <1>1, ArgumentsFit
<1>3. PICK j \in DOMAIN args : args[j] = h
  BY DEF ToSet
<1>4. overload[j] \in ConceptParameters \cup ValueParameters
  BY <1>1, <1>2, <1>3
<1>5. overload[j] \in ConceptParameters /\ Lineage[concepts[h].class] \cap ConceptParameters # {}
  <2>1. h \in Values(overload[j])
    BY <1>2, <1>3
  <2> QED BY <1>4, <2>1, HandleParameter, Zenon
<1>6. PICK b, fields, chosen :
         /\ b = BuilderOf(method, overload, overload)[1]
         /\ fields = Builders[method.builder[1]][b].fields
         /\ chosen = BuilderOf(method, overload, args)
  OBVIOUS
<1>7. /\ method.builder[2] \notin {"getOwns", "getThingType", "getThing", "getRule"}
      /\ j \in DOMAIN fields /\ fields[j] \in ConceptFields
      /\ \A k \in DOMAIN fields : fields[k] = fields[j] => k = j
  BY <1>2, <1>3, <1>5, <1>6 DEF InPlace
<1>8. chosen[1] = b /\ j \in DOMAIN chosen[2] /\ chosen[2][j] = h
  BY <1>2, <1>3, <1>6, <1>7, BuilderOfOverload
<1>9. Asked(method, name, concept, args) = args
  BY <1>7 DEF Asked
<1>10. PICK request : request = Request(method, name, concept, overload, args)
  OBVIOUS
<1>11. request = Build(<<method.builder[1], b>>, On(<<method.builder[1], b>>, concept),
                       Fields(chosen[2]))
  BY <1>6, <1>8, <1>9, <1>10 DEF Request
<1>12. /\ DOMAIN request.fields = {fields[i] : i \in DOMAIN fields}
       /\ request.fields[fields[j]]
            = Fields(chosen[2])[CHOOSE k \in DOMAIN fields : fields[k] = fields[j]]
  BY <1>6, <1>7, <1>11 DEF Build
<1>13. (CHOOSE k \in DOMAIN fields : fields[k] = fields[j]) = j
  BY <1>7
<1>14. request.fields[fields[j]] = Proto(concepts[h])
  BY <1>8, <1>12, <1>13 DEF Fields, Field
<1>15. Proto(concepts[h]) # Null /\ RefersTo(Proto(concepts[h]), h)
  BY <1>5, ProtoRefers
<1>16. Proto(concepts[h]) \in References(request)
  <2>1. fields[j] \in ConceptFields \cap DOMAIN request.fields
    BY <1>7, <1>12
  <2> QED BY <1>14, <1>15, <2>1 DEF References
<1> QED BY <1>10, <1>15, <1>16

\* A request that is not a manager's is about the caller.
LEMMA OnCaller ==
  ASSUME CallInv, AllExact, NEW h \in Handle, NEW name \in DOMAIN Methods[concepts[h].class],
         NEW b, On(<<Methods[concepts[h].class][name].builder[1], b>>, concepts[h]) # OnManager
  PROVE  On(<<Methods[concepts[h].class][name].builder[1], b>>, concepts[h]) = OnOf(h)
<1>1. PICK c, x, first, on : /\ c = concepts[h] /\ x = meant[h]
                             /\ first = Methods[c.class][name].builder[1]
                             /\ on = On(<<first, b>>, c)
  OBVIOUS
<1>2. /\ Lineage[c.class] \cap Kinds = {KindOf(x)} /\ c.class \in DOMAIN Methods
      /\ x \in RuleIds \cup TypeIds \cup ThingIds /\ Exact(x, c)
  BY <1>1, OneKind DEF CallInv, Domains, Entities, AllExact
<1>3. first \notin {"ConceptManager", "LogicManager"}
  BY <1>1 DEF On
<1>4. first \in IF "Rule" \in Lineage[c.class] THEN {"Rule"}
               ELSE IF "Thing" \in Lineage[c.class] THEN {"Thing", "Relation", "Attribute"}
               ELSE DOMAIN Builders \ {"Rule", "Thing", "Relation", "Attribute"}
  <2>1. OfItsKind(c.class)
    BY <1>2, KindAssumption
  <2>2. DOMAIN Managers = {"ConceptManager", "LogicManager"}
    BY DEF Managers
  <2> QED BY <1>1, <1>3, <2>1, <2>2 DEF OfItsKind
<1>5. /\ "Rule" \in Lineage[c.class] <=> KindOf(x) = "Rule"
      /\ "Thing" \in Lineage[c.class] <=> KindOf(x) = "Thing"
  BY <1>2 DEF Kinds
<1>6. CASE x \in RuleIds
  <2>1. x \notin ThingIds /\ first = "Rule"
    BY <1>4, <1>5, <1>6, SchemaAssumption DEF KindOf
  <2> QED BY <1>1, <1>6, <2>1 DEF On, OnOf, Own
<1>7. CASE x \in ThingIds
  <2>1. x \notin RuleIds /\ x \notin TypeIds
    BY <1>7, SchemaAssumption
  <2>2. first \in {"Thing", "Relation", "Attribute"}
    BY <1>4, <1>5, <1>7, <2>1 DEF KindOf
  <2>3. c.iid = x
    BY <1>2, <1>7, <2>1 DEF Exact
  <2> QED BY <1>1, <1>7, <2>2, <2>3 DEF On, OnOf
<1>8. CASE x \in TypeIds
  <2>1. x \notin RuleIds /\ x \notin ThingIds
    BY <1>8, SchemaAssumption
  <2>2. first \notin {"Rule", "Thing", "Relation", "Attribute"}
    BY <1>4, <1>5, <2>1 DEF KindOf
  <2> QED BY <1>1, <1>3, <2>1, <2>2 DEF On, OnOf, Own
<1> QED BY <1>2, <1>6, <1>7, <1>8

\* The request of a builder with one field, and its argument.
Placed(first, b, concept, args) ==
    Build(<<first, b>>, On(<<first, b>>, concept), Fields(args))

LEMMA RequestPlaced ==
  ASSUME NEW method, NEW name, NEW concept, NEW overload, NEW args, NEW b, NEW values,
         BuilderOf(method, overload, Asked(method, name, concept, args)) = <<b, values>>
  PROVE  Request(method, name, concept, overload, args)
           = Placed(method.builder[1], b, concept, values)
BY DEF Request, Placed

LEMMA PlacedOn ==
  ASSUME NEW first, NEW b, NEW concept, NEW args
  PROVE  /\ Placed(first, b, concept, args).message = Builders[first][b].message
         /\ Placed(first, b, concept, args).on = On(<<first, b>>, concept)
BY DEF Placed, Build

LEMMA OneField ==
  ASSUME NEW first, NEW b, NEW concept, NEW x, NEW field,
         Builders[first][b].fields = <<field>>, x \notin Handle
  PROVE  Placed(first, b, concept, <<x>>).fields[field] = x
<1>1. PICK builder, on, values, a, request :
         /\ builder = <<first, b>> /\ on = On(builder, concept)
         /\ a = <<x>> /\ values = Fields(a)
         /\ request = Placed(first, b, concept, a)
  OBVIOUS
<1>2. request = Build(builder, on, values)
  BY <1>1 DEF Placed
<1>3. Builders[builder[1]][builder[2]].fields = <<field>>
  BY <1>1
<1>4. PICK fields : fields = Builders[builder[1]][builder[2]].fields
  OBVIOUS
<1>5. fields = <<field>> /\ DOMAIN fields = {1} /\ fields[1] = field
  BY <1>3, <1>4
<1>6. /\ field \in DOMAIN request.fields
      /\ request.fields[field] = values[CHOOSE k \in DOMAIN fields : fields[k] = field]
  BY <1>2, <1>4, <1>5 DEF Build
<1>7. (CHOOSE k \in DOMAIN fields : fields[k] = field) = 1
  BY <1>5
<1>8. request.fields[field] = x
  <2>1. 1 \in DOMAIN a /\ a[1] = x
    BY <1>1
  <2>2. values[1] = Field(x)
    BY <1>1, <2>1 DEF Fields
  <2> QED BY <1>6, <1>7, <2>2 DEF Field
<1> QED BY <1>1, <1>8

LEMMA DeletedMethod ==
  ASSUME CallInv, AllExact, NEW h \in Handle,
         "isDeleted" \in DOMAIN Methods[concepts[h].class]
  PROVE  LET method == Methods[concepts[h].class]["isDeleted"]
             kind == KindOf(meant[h])
         IN  /\ method.overloads = {<<>>}
             /\ method.builder = CASE kind = "Rule" -> <<"LogicManager", "getRule">>
                                   [] kind = "Thing" -> <<"ConceptManager", "getThing">>
                                   [] OTHER -> <<"ConceptManager", "getThingType">>
             /\ method.of = CASE kind = "Rule" -> "Rule" [] kind = "Thing" -> "Thing"
                              [] OTHER -> "ThingType"
             /\ method.declares = CASE kind = "Rule" -> "Rule" [] kind = "Thing" -> "Thing"
                                    [] kind = "RoleType" -> "RelationType"
                                    [] OTHER -> "ThingType"
<1>1. PICK above, kind, method : /\ above = Lineage[concepts[h].class]
                                 /\ kind = KindOf(meant[h])
                                 /\ method = Methods[concepts[h].class]["isDeleted"]
  OBVIOUS
<1>2. above \cap Kinds = {kind} /\ kind \in Kinds
  <2>1. above \cap Kinds = {kind}
    BY <1>1, OneKind
  <2> QED BY <2>1
<1>3. OfItsKind(concepts[h].class)
  BY OneKind, KindAssumption
<1>4. method = [IF "Rule" \in above THEN LogicManagerMethods.getRule
                ELSE IF "Thing" \in above THEN ConceptManagerMethods.getThing
                ELSE IF "RoleType" \in above THEN ConceptManagerMethods.getRelationType
                ELSE ConceptManagerMethods.getThingType EXCEPT !.overloads = {<<>>}]
  BY <1>1, <1>3 DEF OfItsKind
<1> SUFFICES /\ method.overloads = {<<>>}
             /\ method.builder = CASE kind = "Rule" -> <<"LogicManager", "getRule">>
                                   [] kind = "Thing" -> <<"ConceptManager", "getThing">>
                                   [] OTHER -> <<"ConceptManager", "getThingType">>
             /\ method.of = CASE kind = "Rule" -> "Rule" [] kind = "Thing" -> "Thing"
                              [] OTHER -> "ThingType"
             /\ method.declares = CASE kind = "Rule" -> "Rule" [] kind = "Thing" -> "Thing"
                                    [] kind = "RoleType" -> "RelationType"
                                    [] OTHER -> "ThingType"
  BY <1>1
<1>5. CASE kind = "Rule"
  <2>1. method = [LogicManagerMethods.getRule EXCEPT !.overloads = {<<>>}]
    BY <1>2, <1>4, <1>5
  <2> QED BY <1>5, <2>1 DEF LogicManagerMethods, Execute
<1>6. CASE kind = "Thing"
  <2>1. method = [ConceptManagerMethods.getThing EXCEPT !.overloads = {<<>>}]
    <3>1. "Rule" \notin above /\ "Thing" \in above
      BY <1>2, <1>6 DEF Kinds
    <3> QED BY <1>4, <3>1
  <2> QED BY <1>6, <2>1 DEF ConceptManagerMethods, Execute
<1>7. CASE kind = "RoleType"
  <2>1. method = [ConceptManagerMethods.getRelationType EXCEPT !.overloads = {<<>>}]
    <3>1. "Rule" \notin above /\ "Thing" \notin above /\ "RoleType" \in above
      BY <1>2, <1>7 DEF Kinds
    <3> QED BY <1>4, <3>1
  <2> QED BY <1>7, <2>1 DEF ConceptManagerMethods, Declaring, Execute
<1>8. CASE kind = "ThingType"
  <2>1. method = [ConceptManagerMethods.getThingType EXCEPT !.overloads = {<<>>}]
    <3>1. "Rule" \notin above /\ "Thing" \notin above /\ "RoleType" \notin above
      BY <1>2, <1>8 DEF Kinds
    <3> QED BY <1>4, <3>1
  <2> QED BY <1>8, <2>1 DEF ConceptManagerMethods, Declaring, Execute
<1> QED BY <1>2, <1>5, <1>6, <1>7, <1>8 DEF Kinds

LEMMA NoHandle ==
  /\ \A x \in LabelsOrNull : x \notin Handle
  /\ \A x \in ThingIds : x \notin Handle
  /\ Names \subseteq Labels
<1>1. Names \subseteq Labels
  BY Zenon DEF Labels
<1> QED BY <1>1, SchemaAssumption, Zenon DEF LabelsOrNull

\* isDeleted() asks for what the concept names.
LEMMA DeletedRequest ==
  ASSUME CallInv, AllExact, NEW h \in Handle,
         "isDeleted" \in DOMAIN Methods[concepts[h].class],
         NEW c, c.caller = h,
         c.request = Request(Methods[concepts[h].class]["isDeleted"], "isDeleted", concepts[h],
                             <<>>, <<>>)
  PROVE  Looks(c) /\ (IsRole(meant[h]) => FirstHalf(c))
<1>1. PICK concept, x, kind, method :
         /\ concept = concepts[h] /\ x = meant[h] /\ kind = KindOf(meant[h])
         /\ method = Methods[concepts[h].class]["isDeleted"]
  OBVIOUS
<1>2. method.builder = CASE kind = "Rule" -> <<"LogicManager", "getRule">>
                         [] kind = "Thing" -> <<"ConceptManager", "getThing">>
                         [] OTHER -> <<"ConceptManager", "getThingType">>
  BY <1>1, DeletedMethod
<1>3. /\ Lineage[concept.class] \cap Kinds = {kind} /\ Exact(x, concept)
      /\ x \in RuleIds \cup TypeIds \cup ThingIds
  BY <1>1, OneKind DEF CallInv, Domains, Entities, AllExact
<1>4. /\ concept # Null
      /\ Is(concept, "ThingType") <=> kind = "ThingType"
      /\ Is(concept, "RoleType") <=> kind = "RoleType"
  <2>1. concept # Null
    BY <1>3, SchemaAssumption DEF Exact
  <2> QED BY <1>3, <2>1 DEF Is, Kinds
<1>0. c.request = Request(method, "isDeleted", concept, <<>>, <<>>)
  BY <1>1
<1>5. CASE x \in RuleIds
  <2>1. kind = "Rule" /\ x \notin TypeIds /\ x \notin ThingIds
    BY <1>1, <1>5, SchemaAssumption DEF KindOf
  <2>2. method.builder = <<"LogicManager", "getRule">>
    BY <1>2, <2>1
  <2>3. concept.label \notin Handle
    BY <1>3, <1>5, NoHandle DEF Exact, Rules, LabelsOrNull
  <2>4. BuilderOf(method, <<>>, Asked(method, "isDeleted", concept, <<>>)) = <<"getRule", <<concept.label>>>>
    BY <1>4, <2>2 DEF Asked, BuilderOf
  <2>5. /\ Builders["LogicManager"]["getRule"].message = "getRule"
        /\ Builders["LogicManager"]["getRule"].fields = <<"label">>
    BY DEF Builders, LogicManagerBuilders, Builder
  <2>6. c.request = Placed("LogicManager", "getRule", concept, <<concept.label>>)
    BY <1>0, <2>2, <2>4, RequestPlaced
  <2>7. c.request.message = "getRule"
    BY <2>5, <2>6 DEF Placed, Build
  <2>8. Placed("LogicManager", "getRule", concept, <<concept.label>>).fields["label"] = concept.label
    <3>1. Builders["LogicManager"]["getRule"].fields = <<"label">>
      BY <2>5
    <3> QED BY <2>3, <3>1, OneField
  <2>9. c.request.fields["label"] = concept.label
    BY <2>6, <2>8
  <2> QED BY <1>1, <2>1, <2>7, <2>9 DEF Looks, IsRole
<1>6. CASE x \in ThingIds
  <2>1. kind = "Thing" /\ x \notin TypeIds /\ x \notin RuleIds
    BY <1>1, <1>6, SchemaAssumption DEF KindOf
  <2>2. method.builder = <<"ConceptManager", "getThing">>
    BY <1>2, <2>1
  <2>3. concept.iid = x /\ x \notin Handle
    BY <1>3, <1>6, NoHandle DEF Exact
  <2>4. BuilderOf(method, <<>>, Asked(method, "isDeleted", concept, <<>>)) = <<"getThing", <<x>>>>
    BY <1>4, <2>2, <2>3 DEF Asked, BuilderOf
  <2>5. /\ Builders["ConceptManager"]["getThing"].message = "getThing"
        /\ Builders["ConceptManager"]["getThing"].fields = <<"iid">>
    BY DEF Builders, ConceptManagerBuilders, Builder
  <2>6. c.request = Placed("ConceptManager", "getThing", concept, <<x>>)
    BY <1>0, <2>2, <2>4, RequestPlaced
  <2>7. c.request.message = "getThing"
    BY <2>5, <2>6 DEF Placed, Build
  <2>8. Placed("ConceptManager", "getThing", concept, <<x>>).fields["iid"] = x
    <3>1. Builders["ConceptManager"]["getThing"].fields = <<"iid">> /\ x \notin Handle
      BY <2>3, <2>5
    <3> QED BY <3>1, OneField
  <2>9. c.request.fields["iid"] = x
    BY <2>6, <2>8
  <2> QED BY <1>1, <2>1, <2>7, <2>9 DEF Looks, IsRole
<1>7. CASE x \in TypeIds
  <2>1. /\ x \notin RuleIds /\ x \notin ThingIds
        /\ kind = IF IsRole(x) THEN "RoleType" ELSE "ThingType"
    BY <1>1, <1>7, SchemaAssumption DEF KindOf
  <2>2. method.builder = <<"ConceptManager", "getThingType">>
    BY <1>2, <2>1
  <2>3. PICK asked : asked = IF IsRole(x) THEN concept.label.scope ELSE concept.label.name
    OBVIOUS
  <2>4. asked \notin Handle
    BY <1>3, <1>7, <2>3, NoHandle DEF Exact, Types, LabelsOrNull
  <2>5. BuilderOf(method, <<>>, Asked(method, "isDeleted", concept, <<>>)) = <<"getThingType", <<asked>>>>
    BY <1>4, <2>1, <2>2, <2>3 DEF Asked, BuilderOf
  <2>6. /\ Builders["ConceptManager"]["getThingType"].message = "getThingType"
        /\ Builders["ConceptManager"]["getThingType"].fields = <<"label">>
    BY DEF Builders, ConceptManagerBuilders, Builder
  <2>7. c.request = Placed("ConceptManager", "getThingType", concept, <<asked>>)
    BY <1>0, <2>2, <2>5, RequestPlaced
  <2>8. c.request.message = "getThingType"
    BY <2>6, <2>7 DEF Placed, Build
  <2>9. Placed("ConceptManager", "getThingType", concept, <<asked>>).fields["label"] = asked
    <3>1. Builders["ConceptManager"]["getThingType"].fields = <<"label">>
      BY <2>6
    <3> QED BY <2>4, <3>1, OneField
  <2>10. c.request.fields["label"] = asked
    BY <2>7, <2>9
  <2> QED BY <1>1, <2>1, <2>3, <2>8, <2>10 DEF Looks, FirstHalf
<1> QED BY <1>1, <1>3, <1>5, <1>6, <1>7 DEF IsRole

\* setLabel() asks for one of the labels there may be.
LEMMA LabelRequest ==
  ASSUME NEW method, NEW name, NEW concept, NEW overload, NEW x \in Names,
         method.builder = <<method.builder[1], "setLabel">>,
         method.builder[1] \in {"Rule", "Type"}
  PROVE  Request(method, name, concept, overload, <<x>>).fields["label"] = x
<1>1. PICK first : first = method.builder[1]
  OBVIOUS
<1>2. method.builder[2] = "setLabel"
  OBVIOUS
<1>3. Asked(method, name, concept, <<x>>) = <<x>>
  BY <1>2 DEF Asked
<1>4. BuilderOf(method, overload, <<x>>) = <<"setLabel", <<x>>>>
  BY <1>2 DEF BuilderOf
<1>5. Request(method, name, concept, overload, <<x>>) = Placed(first, "setLabel", concept, <<x>>)
  BY <1>1, <1>3, <1>4, RequestPlaced
<1>6. Builders[first]["setLabel"].fields = <<"label">>
  <2>1. /\ Builders["Rule"]["setLabel"].fields = <<"label">>
        /\ Builders["Type"]["setLabel"].fields = <<"label">>
    BY DEF Builders, TypeBuilders, RuleBuilders, Builder
  <2> QED BY <1>1, <2>1
<1>7. x \notin Handle
  BY NoHandle DEF LabelsOrNull
<1>8. Placed(first, "setLabel", concept, <<x>>).fields["label"] = x
  BY <1>6, <1>7, OneField
<1> QED BY <1>5, <1>8

LEMMA RequestOn ==
  ASSUME NEW method, NEW name, NEW concept, NEW overload, NEW args
  PROVE  Request(method, name, concept, overload, args).on
           = On(<<method.builder[1], Chosen(method, name, concept, overload, args)>>, concept)
BY DEF Request, Build, Chosen

\* A request says what it should.
LEMMA SentAsked ==
  ASSUME CallInv, AllExact, NEW caller \in Handle \cup DOMAIN Managers,
         NEW name \in DOMAIN MethodsOf(caller),
         NEW overload \in MethodsOf(caller)[name].overloads, NEW args \in Arguments(overload),
         NEW c, c = Sent(caller, name, overload, args,
                         Request(MethodsOf(caller)[name], name, ConceptOf(caller), overload, args))
  PROVE  WellAsked(c)
<1>1. PICK method, concept : method = MethodsOf(caller)[name] /\ concept = ConceptOf(caller)
  OBVIOUS
<1>2. /\ c.caller = caller /\ c.name = name /\ c.args = args /\ c.stage = "sent"
      /\ c.request = Request(method, name, concept, overload, args)
  BY <1>1 DEF Sent
<1>3. caller \in Handle =>
         /\ concept = concepts[caller] /\ concepts[caller].class \in DOMAIN Methods
         /\ name \in DOMAIN Methods[concepts[caller].class]
         /\ method = Methods[concepts[caller].class][name]
  BY <1>1 DEF MethodsOf, ConceptOf, CallInv, ConceptsOK, IsConcept
<1>4. caller \notin Handle =>
         /\ caller \in DOMAIN Managers /\ name \in DOMAIN Managers[caller]
         /\ method = Managers[caller][name]
  BY <1>1 DEF MethodsOf
<1>5. ASSUME name = "setLabel"
      PROVE  c.request.fields["label"] \in Labels
  <2>1. caller \in Handle
    BY <1>4, <1>5, MethodAssumption
  <2>2. PICK class : class = concepts[caller].class
    OBVIOUS
  <2>3. SetLabelAlone(Methods[class], class) /\ method = Methods[class][name]
    BY <1>3, <2>1, <2>2, MethodAssumption
  <2>4. /\ method.overloads = {<<"name">>}
        /\ method.builder = <<IF class = "Rule" THEN "Rule" ELSE "Type", "setLabel">>
    BY <1>3, <1>5, <2>1, <2>2, <2>3 DEF SetLabelAlone
  <2>5. overload = <<"name">>
    BY <1>1, <2>4
  <2>6. Arguments(overload) = {<<x>> : x \in Names}
    BY <2>5 DEF Arguments, Values
  <2>7. PICK x \in Names : args = <<x>>
    BY <2>6
  <2>8. Request(method, name, concept, overload, <<x>>).fields["label"] = x
    BY <2>4, LabelRequest
  <2>9. c.request.fields["label"] = x
    BY <1>2, <2>7, <2>8
  <2> QED BY <2>9, NoHandle
<1>6. ASSUME name = "isDeleted"
      PROVE  /\ c.caller \in Handle /\ c.args = <<>>
             /\ "isDeleted" \in DOMAIN Methods[concepts[c.caller].class]
             /\ IsRole(meant[c.caller]) => FirstHalf(c)
             /\ Looks(c)
  <2>1. caller \in Handle
    <3>1. /\ DOMAIN Managers = {"ConceptManager", "LogicManager"}
          /\ "isDeleted" \notin DOMAIN Managers["ConceptManager"]
          /\ "isDeleted" \notin DOMAIN Managers["LogicManager"]
      BY DEF Managers, ConceptManagerMethods, LogicManagerMethods
    <3> QED BY <1>4, <1>6, <3>1
  <2>2. method.overloads = {<<>>}
    BY <1>3, <1>6, <2>1, DeletedMethod
  <2>3. overload = <<>>
    BY <1>1, <2>2
  <2>4. args = <<>>
    BY <2>3 DEF Arguments
  <2>5. Looks(c) /\ (IsRole(meant[caller]) => FirstHalf(c))
    <3>1. c.request = Request(Methods[concepts[caller].class]["isDeleted"], "isDeleted",
                              concepts[caller], <<>>, <<>>)
      BY <1>2, <1>3, <1>6, <2>1, <2>3, <2>4
    <3> QED BY <1>2, <1>3, <1>6, <2>1, <3>1, DeletedRequest
  <2> QED BY <1>2, <1>3, <1>6, <2>1, <2>4, <2>5
<1>7. Says(c)
  <2>1. ASSUME caller \in Handle, c.request.on # OnManager
        PROVE  c.request.on = OnOf(caller)
    <3>0. PICK b : b = Chosen(method, name, concept, overload, args)
      OBVIOUS
    <3>1. c.request.on = On(<<method.builder[1], b>>, concept)
      <4>1. Request(method, name, concept, overload, args).on
              = On(<<method.builder[1], Chosen(method, name, concept, overload, args)>>, concept)
        BY RequestOn
      <4> QED BY <1>2, <3>0, <4>1
    <3>2. On(<<Methods[concepts[caller].class][name].builder[1], b>>, concepts[caller]) = OnOf(caller)
      BY <1>3, <2>1, <3>1, OnCaller
    <3> QED BY <1>3, <2>1, <3>1, <3>2
  <2>2. InPlace(method)
    BY <1>3, <1>4, ParameterAssumption
  <2>3. ASSUME NEW h \in ToSet(args) \cap Handle
        PROVE  \E reference \in References(c.request) : RefersTo(reference, h)
    <3>1. \E reference \in References(Request(method, name, concept, overload, args)) :
             RefersTo(reference, h)
      BY <1>1, <2>2, ArgumentPlaced
    <3> QED BY <1>2, <3>1
  <2> QED BY <1>2, <2>1, <2>3 DEF Says
<1> QED BY <1>2, <1>5, <1>6, <1>7 DEF WellAsked

-----------------------------------------------------------------------------
(* Steps that leave the concepts as they are.                              *)

LEMMA AskedKept ==
  ASSUME meant' = meant, NEW k, WellAsked(calls'[k]),
         calls'[k].caller \in Handle =>
            concepts'[calls'[k].caller].class = concepts[calls'[k].caller].class,
         \A h \in Handle : meant[h] \in TypeIds => concepts'[h].label.scope = concepts[h].label.scope,
         Fresh(calls'[k]) => \A h \in HandlesOf(calls'[k].caller, calls'[k].args) :
                                Named(h) => concepts'[h].label = concepts[h].label
  PROVE  WellAsked(calls[k])'
<1>1. PICK c, old, new, means :
         c = calls'[k] /\ old = concepts /\ new = concepts' /\ means = meant
  OBVIOUS
<1>2. meant' = means /\ (Fresh(calls[k])' <=> Fresh(c))
  BY <1>1 DEF Fresh
<1>3. /\ c.caller \in Handle => new[c.caller].class = old[c.caller].class
      /\ \A h \in Handle : means[h] \in TypeIds => new[h].label.scope = old[h].label.scope
  BY <1>1
<1>4. ASSUME Fresh(c), NEW h \in HandlesOf(c.caller, c.args), h \in Handle
      PROVE  means[h] \notin ThingIds => new[h].label = old[h].label
  BY <1>1, <1>4 DEF Named
<1>5. ASSUME Fresh(c), Says(c)
      PROVE  Says(calls[k])'
  <2>1. ASSUME c.caller \in Handle, c.request.on # OnManager,
               c.request.message # "getRelatesForRoleLabel"
        PROVE  c.request.on = OnOf(c.caller)'
    <3>1. c.caller \in HandlesOf(c.caller, c.args)
      BY <2>1 DEF HandlesOf
    <3>2. c.request.on = OnOf(c.caller)
      BY <1>5, <2>1 DEF Says
    <3>3. c.caller \in Handle /\ (means[c.caller] \notin ThingIds => new[c.caller].label = old[c.caller].label)
      BY <1>4, <1>5, <2>1, <3>1
    <3> QED BY <1>1, <1>2, <3>2, <3>3 DEF OnOf, Own
  <2>2. ASSUME NEW h \in ToSet(c.args) \cap Handle
        PROVE  \E reference \in References(c.request) : RefersTo(reference, h)'
    <3>1. PICK reference \in References(c.request) : RefersTo(reference, h)
      BY <1>5 DEF Says
    <3>2. h \in HandlesOf(c.caller, c.args)
      BY DEF HandlesOf
    <3>3. means[h] \notin ThingIds => new[h].label = old[h].label
      BY <1>4, <1>5, <3>2
    <3>4. RefersTo(reference, h)'
      BY <1>1, <1>2, <3>1, <3>3, SchemaAssumption DEF RefersTo
    <3> QED BY <3>4
  <2> QED BY <1>1, <2>1, <2>2 DEF Says, References
<1>6. ASSUME c.caller \in Handle, IsRole(means[c.caller]), FirstHalf(c)
      PROVE  FirstHalf(calls[k])'
  BY <1>1, <1>3, <1>6 DEF FirstHalf, IsRole
<1>7. ASSUME Fresh(c), c.caller \in Handle, Looks(c)
      PROVE  Looks(calls[k])'
  <2>1. c.caller \in HandlesOf(c.caller, c.args)
    BY <1>7 DEF HandlesOf
  <2>2. means[c.caller] \notin ThingIds => new[c.caller].label = old[c.caller].label
    BY <1>4, <1>7, <2>1
  <2>3. means[c.caller] \in RuleIds \cup TypeIds => means[c.caller] \notin ThingIds
    BY SchemaAssumption
  <2>4. IsRole(means[c.caller]) => /\ FirstHalf(calls[k])' <=> FirstHalf(c)
                                   /\ SecondHalf(calls[k])' <=> SecondHalf(c)
    BY <1>1, <2>2, <2>3 DEF FirstHalf, SecondHalf, IsRole
  <2> QED BY <1>1, <1>2, <1>7, <2>2, <2>3, <2>4 DEF Looks, IsRole
<1> QED BY <1>1, <1>2, <1>3, <1>5, <1>6, <1>7 DEF WellAsked, IsRole

LEMMA AnswerKept ==
  ASSUME NEW k, WellAnswered(calls'[k]), calls'[k].caller \in Handle,
         concepts'[calls'[k].caller].class = concepts[calls'[k].caller].class
  PROVE  WellAnswered(calls[k])'
<1>1. PICK c, class : c = calls'[k] /\ class = concepts[c.caller].class /\ c.caller \in Handle
  OBVIOUS
<1>2. concepts'[c.caller].class = class
  BY <1>1
<1>3. MethodOf(calls[k])' = MethodOf(c)
  BY <1>1, <1>2 DEF MethodOf, MethodsOf
<1>4. Halfway(calls[k])' <=> Halfway(c)
  BY <1>1, <1>2, <1>3 DEF Halfway, Is
<1>5. FoundType(calls[k])' <=> FoundType(c)
  BY <1>1 DEF FoundType
<1>6. c.name = "isDeleted" => Outcome(calls[k])' = Outcome(c)
  BY <1>1, <1>2, <1>3 DEF Outcome, IsDeleted, Is
<1>7. Told(calls[k])' <=> (~Halfway(c) /\ ~c.stale =>
         Outcome(calls[k])' = {IF "ThingType" \in Lineage[class] THEN c.existed ELSE ~c.existed})
  BY <1>1, <1>2, <1>4 DEF Told, Is
<1> QED BY <1>1, <1>5, <1>6, <1>7, <1>2 DEF WellAnswered, Told, Is

\* The calls are old ones, or say what they should.
LEMMA RequestStep ==
  ASSUME AllExact, concepts' = concepts, meant' = meant, OnTime(calls'),
         \A k \in DOMAIN calls' : WellAsked(calls'[k]) /\ WellAnswered(calls'[k])
  PROVE  RequestInv'
<1>1. AllExact'
  BY DEF AllExact
<1>2. OnTime(calls)'
  BY DEF OnTime, Fresh, IsOwn
<1>3. ASSUME NEW k \in DOMAIN calls'
      PROVE  WellAsked(calls[k])' /\ WellAnswered(calls[k])'
  <2>1. WellAsked(calls'[k]) /\ WellAnswered(calls'[k])
    OBVIOUS
  <2>2. WellAsked(calls[k])'
    BY <2>1, AskedKept
  <2>3. WellAnswered(calls[k])'
    <3>1. CASE calls'[k].caller \in Handle
      <4>1. concepts'[calls'[k].caller].class = concepts[calls'[k].caller].class
        OBVIOUS
      <4> QED BY <2>1, <3>1, <4>1, AnswerKept
    <3>2. CASE calls'[k].caller \notin Handle
      <4>1. calls'[k].name # "isDeleted"
        BY <2>1, <3>2 DEF WellAsked
      <4> QED BY <4>1 DEF WellAnswered
    <3> QED BY <3>1, <3>2
  <2> QED BY <2>2, <2>3
<1> QED BY <1>1, <1>2, <1>3 DEF RequestInv

LEMMA CallRequestInv ==
  ASSUME CallInv, RequestInv, NEW caller \in Handle \cup DOMAIN Managers,
         NEW name \in DOMAIN MethodsOf(caller), Call(caller, name)
  PROVE  RequestInv'
<1>0. PICK overload \in MethodsOf(caller)[name].overloads : \E args \in Arguments(overload) :
         calls' = Append(calls, Sent(caller, name, overload, args,
                      Request(MethodsOf(caller)[name], name, ConceptOf(caller), overload, args)))
  BY DEF Call
<1>1. PICK args \in Arguments(overload) :
         calls' = Append(calls, Sent(caller, name, overload, args,
                      Request(MethodsOf(caller)[name], name, ConceptOf(caller), overload, args)))
  BY <1>0
<1>2. PICK c : c = Sent(caller, name, overload, args,
                        Request(MethodsOf(caller)[name], name, ConceptOf(caller), overload, args))
  OBVIOUS
<1>3. calls' = Append(calls, c)
  BY <1>1, <1>2
<1>4. AllExact /\ OnTime(calls) /\ IsSequence(calls)
  BY DEF RequestInv, CallInv, CallsOK, AreCalls
<1>5. WellAsked(c)
  BY <1>2, <1>4, SentAsked
<1>6. /\ c.stage = "sent" /\ c.caller = caller /\ c.args = args
      /\ c.raced <=> \E h \in HandlesOf(caller, args) : Renaming(h)
  BY <1>2 DEF Sent
<1>7. WellAnswered(c)
  BY <1>6 DEF WellAnswered
<1>8. Fresh(c) => \A h \in HandlesOf(c.caller, c.args) : \A j \in DOMAIN calls : ~IsOwn(h, calls[j])
  BY <1>6 DEF Fresh, Renaming, IsOwn
<1>9. OnTime(Append(calls, c))
  BY <1>4, <1>8, OnTimeAppended
<1>10. Len(calls) \in Nat /\ DOMAIN calls = 1 .. Len(calls)
  BY <1>4, LenProperties DEF IsSequence
<1>11. /\ IsSequence(calls') /\ Len(calls') = Len(calls) + 1
       /\ \A k \in 1 .. Len(calls) : calls'[k] = calls[k]
       /\ calls'[Len(calls) + 1] = c
  BY <1>3, <1>4, Appended
<1>12. DOMAIN calls' = 1 .. Len(calls) + 1
  BY <1>11, LenProperties DEF IsSequence
<1>13. ASSUME NEW k \in DOMAIN calls'
       PROVE  WellAsked(calls'[k]) /\ WellAnswered(calls'[k])
  <2>1. CASE k \in DOMAIN calls
    <3>1. WellAsked(calls[k]) /\ WellAnswered(calls[k])
      BY <2>1 DEF RequestInv
    <3>2. calls'[k] = calls[k]
      BY <1>10, <1>11, <2>1
    <3> QED BY <3>1, <3>2
  <2>2. CASE k \notin DOMAIN calls
    <3>1. calls'[k] = c
      BY <1>10, <1>11, <1>12, <2>2
    <3> QED BY <1>5, <1>7, <3>1
  <2> QED BY <2>1, <2>2
<1>14. concepts' = concepts /\ meant' = meant /\ OnTime(calls')
  BY <1>3, <1>9 DEF Call
<1> QED BY <1>4, <1>13, <1>14, RequestStep

LEMMA RefuseRequestInv ==
  ASSUME CallInv, RequestInv, NEW i \in DOMAIN calls, Refuse(i)
  PROVE  RequestInv'
<1>1. calls' = SubSeq(calls, 1, i - 1) /\ concepts' = concepts /\ meant' = meant
  BY DEF Refuse
<1>2. AllExact /\ OnTime(calls) /\ IsSequence(calls)
  BY DEF RequestInv, CallInv, CallsOK, AreCalls
<1>3. \E f : Follows(calls, calls', f)
  BY <1>1, <1>2, PrefixFollows
<1>4. \A k \in DOMAIN calls' : k \in DOMAIN calls /\ calls'[k] = calls[k]
  <2>1. Len(calls) \in Nat /\ DOMAIN calls = 1 .. Len(calls)
    BY <1>2, LenProperties DEF IsSequence
  <2>2. IsSequence(calls') /\ Len(calls') = i - 1 /\ \A k \in 1 .. i - 1 : calls'[k] = calls[k]
    BY <1>1, <1>2, Prefixed
  <2>3. DOMAIN calls' = 1 .. i - 1
    BY <2>2, LenProperties DEF IsSequence
  <2> QED BY <2>1, <2>2, <2>3
<1>5. OnTime(calls')
  BY <1>2, <1>3, OnTimeFollows
<1>6. ASSUME NEW k \in DOMAIN calls'
      PROVE  WellAsked(calls'[k]) /\ WellAnswered(calls'[k])
  BY <1>4 DEF RequestInv
<1> QED BY <1>1, <1>2, <1>5, <1>6, RequestStep

LEMMA ResumeOtherRequestInv ==
  ASSUME CallInv, RequestInv, NEW i \in DOMAIN calls, Resume(i), calls[i].name # "setLabel"
  PROVE  RequestInv'
<1>1. calls' = RemoveAt(calls, i) /\ concepts' = concepts /\ meant' = meant
  BY DEF Resume
<1>2. AllExact /\ OnTime(calls) /\ IsSequence(calls)
  BY DEF RequestInv, CallInv, CallsOK, AreCalls
<1>3. \E f : Follows(calls, calls', f)
  BY <1>1, <1>2, RemovedFollows
<1>4. \A k \in DOMAIN calls' : \E m \in DOMAIN calls : calls'[k] = calls[m]
  BY <1>1, <1>2, RemovedFollows
<1>5. OnTime(calls')
  BY <1>2, <1>3, OnTimeFollows
<1>6. ASSUME NEW k \in DOMAIN calls'
      PROVE  WellAsked(calls'[k]) /\ WellAnswered(calls'[k])
  BY <1>4 DEF RequestInv
<1> QED BY <1>1, <1>2, <1>5, <1>6, RequestStep

-----------------------------------------------------------------------------
(* The answers of the server.                                              *)

LEMMA AnsweredRequestInv ==
  ASSUME CallInv, RequestInv, NEW i \in DOMAIN calls, NEW answer, calls' = Answered(i, answer),
         concepts' = concepts, meant' = meant,
         \A c : IsAnswer(c, calls[i], answer) => WellAnswered(c)
  PROVE  RequestInv'
<1>1. AllExact /\ OnTime(calls) /\ IsSequence(calls) /\ IsCall(calls[i]) /\ CallsOK
  BY DEF RequestInv, CallInv, CallsOK, AreCalls
<1>2. OnTime(calls')
  <2>1. \E f : Follows(calls, calls', f)
    BY <1>1, AnsweredFollows
  <2> QED BY <1>1, <2>1, OnTimeFollows
<1>3. ASSUME NEW k \in DOMAIN calls'
      PROVE  WellAsked(calls'[k]) /\ WellAnswered(calls'[k])
  <2>1. CASE calls[i].thrown
    <3>1. calls' = RemoveAt(calls, i)
      BY <2>1 DEF Answered
    <3>2. \E m \in DOMAIN calls : m # i /\ calls'[k] = calls[m]
      BY <1>1, <3>1, RemovedFollows
    <3> QED BY <3>2 DEF RequestInv
  <2>2. CASE ~calls[i].thrown
    <3>1. PICK c : /\ Answered(i, answer) = [calls EXCEPT ![i] = c]
                   /\ IsCall(c) /\ IsAnswer(c, calls[i], answer)
      BY <1>1, <2>2, AnsweredCall
    <3>2. calls' = [calls EXCEPT ![i] = c]
      BY <3>1
    <3>3. SameCall(calls[i], c)
      BY <3>1 DEF IsAnswer, SameCall
    <3>4. \A m \in DOMAIN [calls EXCEPT ![i] = c] :
             \/ [calls EXCEPT ![i] = c][m] = c
             \/ \E n \in DOMAIN calls : n # i /\ [calls EXCEPT ![i] = c][m] = calls[n]
      BY <1>1, <3>3, ReplacedFollows, Zenon
    <3>5. calls'[k] = c \/ \E n \in DOMAIN calls : n # i /\ calls'[k] = calls[n]
      BY <3>2, <3>4
    <3>6. WellAnswered(c)
      BY <3>1
    <3>7. WellAsked(c)
      <4>1. WellAsked(calls[i])
        BY DEF RequestInv
      <4>2. /\ c.caller = calls[i].caller /\ c.name = calls[i].name /\ c.args = calls[i].args
            /\ c.request = calls[i].request /\ ~Fresh(c)
        BY <3>1 DEF IsAnswer, Fresh
      <4> QED BY <4>1, <4>2 DEF WellAsked, FirstHalf
    <3> QED BY <3>5, <3>6, <3>7 DEF RequestInv
  <2> QED BY <2>1, <2>2
<1> QED BY <1>1, <1>2, <1>3, RequestStep

LEMMA OrNullMember ==
  ASSUME NEW S, Null \notin S, NEW x \in S
  PROVE  OrNull(S) \in S /\ OrNull(S) # Null
BY DEF OrNull

\* What is served first agrees with the server on what its handles are called.
LEMMA FirstKnows ==
  ASSUME CallInv, OnTime(calls), NEW i \in DOMAIN calls, First(i), ~calls[i].raced,
         NEW h \in HandlesOf(calls[i].caller, calls[i].args), Named(h), StillThere(h)
  PROVE  Own(h) = Form(meant[h]) /\ ScopeKnown(h) /\ meant[h] \in Entities /\ names[meant[h]] # Null
<1>1. h \in Handle /\ Fresh(calls[i]) /\ calls[i].stage = "sent"
  BY DEF HandlesOf, Fresh, First
<1>2. ScopeKnown(h) /\ Knows(h, calls, Own(h), Form(meant[h]), names[meant[h]])
  BY <1>1 DEF CallInv, AllKnown, Known
<1>3. meant[h] \in Entities /\ names[meant[h]] # Null
  BY <1>1, OnTrack DEF CallInv
<1>4. ASSUME NEW j \in DOMAIN calls, IsServed(h, calls[j])
      PROVE  FALSE
  <2>1. IsOwn(h, calls[j]) /\ calls[j].stage = "answered"
    BY <1>4 DEF IsServed
  <2>2. ~(j < i)
    BY <1>1, <2>1 DEF OnTime
  <2>3. ~(i < j)
    BY <1>1, <2>1 DEF CallInv, CallsOK, AreCalls
  <2>4. i # j
    BY <1>1, <2>1
  <2>5. i \in Nat /\ j \in Nat
    <3>1. Len(calls) \in Nat /\ DOMAIN calls = 1 .. Len(calls)
      BY LenProperties DEF CallInv, CallsOK, AreCalls, IsSequence
    <3> QED BY <3>1
  <2> QED BY <2>2, <2>3, <2>4, <2>5
<1>5. Own(h) = Form(meant[h])
  BY <1>2, <1>4, Zenon DEF Knows
<1> QED BY <1>2, <1>3, <1>5

LEMMA ServedType ==
  ASSUME CallInv, ServerInv, NEW t \in TypeIds
  PROVE  /\ TypeProto(t) \in Protos /\ TypeProto(t) # Null
         /\ TypeProto(t).label = names[t] /\ TypeProto(t).scope = ScopeName(t)
         /\ TypeProto(t).encoding = Schema[t].encoding
         /\ TypeProto(t).valueType = Schema[t].valueType
<1>1. \A u \in TypeIds : names[u] \in LabelsOrNull
  BY DEF ServerInv, LabelsOrNull, Entities
<1>2. ScopeName(t) \in LabelsOrNull
  BY <1>1, SchemaAssumption DEF ScopeName, LabelsOrNull
<1>3. TypeProto(t) \in Protos
  BY <1>1, <1>2, SchemaAssumption DEF TypeProto, Protos, Roots
<1>4. TypeProto(t) # Null
  BY <1>3, SchemaAssumption
<1> QED BY <1>3, <1>4 DEF TypeProto

\* What is made of a type that is no role.
LEMMA ThingTypeMade ==
  ASSUME NEW p \in Protos, NEW t \in TypeIds, ~IsRole(t),
         p.encoding = Schema[t].encoding, p.valueType = Schema[t].valueType
  PROVE  /\ ThingTypeOf(p) # Null /\ ThingTypeOf(p) \in Types
         /\ "ThingType" \in Lineage[ThingTypeOf(p).class]
         /\ ThingTypeOf(p).label = Label(Null, p.label)
         /\ p.encoding = "RELATION_TYPE" => ThingTypeOf(p).class = "RelationType"
<1>1. /\ p # Null /\ p.label \in LabelsOrNull /\ p.root \in Roots
      /\ p.encoding \in Encodings /\ p.encoding # "ROLE_TYPE" /\ p.valueType \in ValueTypes
  BY SchemaAssumption DEF Protos, IsRole
<1>2. PICK class : /\ class \in {"ThingType", "EntityType", "RelationType"}
                                  \cup {AttributeTypeClassOf[v] : v \in ValueTypes}
                   /\ ThingTypeOf(p) = NewType(class, Label(Null, p.label), p.root)
                   /\ p.encoding = "RELATION_TYPE" => class = "RelationType"
  <2>1. CASE p.encoding = "ENTITY_TYPE"
    BY <1>1, <2>1 DEF ThingTypeOf, EntityTypeOf
  <2>2. CASE p.encoding = "RELATION_TYPE"
    BY <1>1, <2>2 DEF ThingTypeOf, RelationTypeOf
  <2>3. CASE p.encoding = "THING_TYPE"
    BY <1>1, <2>3 DEF ThingTypeOf
  <2>4. CASE p.encoding = "ATTRIBUTE_TYPE"
    <3>1. ThingTypeOf(p) = AttributeTypeOf(p)
      BY <1>1, <2>4 DEF ThingTypeOf
    <3>2. AttributeTypeOf(p) = NewType(AttributeTypeClassOf[p.valueType], Label(Null, p.label), p.root)
      BY <1>1 DEF AttributeTypeOf
    <3> QED BY <1>1, <2>4, <3>1, <3>2
  <2> QED BY <1>1, <2>1, <2>2, <2>3, <2>4 DEF Encodings
<1>3. class \in DOMAIN Superclass
  BY <1>2, MethodAssumption
<1>4. {"ThingType", "Type"} \subseteq Lineage[class]
  BY <1>2, KindAssumption
<1>5. PICK made : made = ThingTypeOf(p)
  OBVIOUS
<1>6. made = [class |-> class, remote |-> FALSE, label |-> Label(Null, p.label), root |-> p.root]
  BY <1>2, <1>5 DEF NewType
<1>7. Label(Null, p.label) \in [scope : LabelsOrNull, name : LabelsOrNull]
  BY <1>1 DEF Label, LabelsOrNull
<1>8. made \in Types
  BY <1>1, <1>3, <1>6, <1>7 DEF Types
<1>9. made # Null
  BY <1>8, SchemaAssumption
<1> QED BY <1>2, <1>4, <1>5, <1>6, <1>8, <1>9

LEMMA RoleTypeMade ==
  ASSUME NEW p \in Protos
  PROVE  RoleTypeOf(p) # Null /\ RoleTypeOf(p) \in Types /\ RoleTypeOf(p).class = "RoleType"
<1>1. p # Null /\ p.label \in LabelsOrNull /\ p.scope \in LabelsOrNull /\ p.root \in Roots
  BY SchemaAssumption DEF Protos
<1>2. PICK made : made = RoleTypeOf(p)
  OBVIOUS
<1>3. made = [class |-> "RoleType", remote |-> FALSE, label |-> Label(p.scope, p.label), root |-> p.root]
  BY <1>1, <1>2 DEF RoleTypeOf, NewType
<1>4. Label(p.scope, p.label) \in [scope : LabelsOrNull, name : LabelsOrNull]
  BY <1>1 DEF Label
<1>5. made \in Types
  BY <1>1, <1>3, <1>4, MethodAssumption DEF Types
<1>6. made # Null
  BY <1>5, SchemaAssumption
<1>7. made.class = "RoleType"
  BY <1>3
<1> QED BY <1>2, <1>5, <1>6, <1>7

LEMMA RuleMade ==
  ASSUME NEW label \in Labels
  PROVE  /\ [label |-> label] # Null /\ RuleOf([label |-> label]) # Null
         /\ RuleOf([label |-> label]) \in Rules
         /\ "Rule" \in Lineage[RuleOf([label |-> label]).class]
<1>1. [label |-> label] \in [label : LabelsOrNull]
  BY DEF LabelsOrNull
<1>2. PICK made : made = RuleOf([label |-> label])
  OBVIOUS
<1>3. made = [class |-> "Rule", remote |-> FALSE, label |-> label]
  BY <1>2 DEF RuleOf
<1>4. made \in Rules /\ "Rule" \in DOMAIN Methods
  BY <1>3, MethodAssumption DEF Rules
<1>5. "Rule" \in Lineage["Rule"]
  BY <1>4, KindAssumption DEF OfItsKind
<1> QED BY <1>1, <1>2, <1>3, <1>4, <1>5, SchemaAssumption

LEMMA ThingMade ==
  ASSUME CallInv, ServerInv, NEW i \in ThingIds
  PROVE  /\ ProtoOfThing(i) # Null /\ ThingOf(ProtoOfThing(i)) # Null
         /\ ThingOf(ProtoOfThing(i)) \in Things /\ ThingOf(ProtoOfThing(i)).iid = i
         /\ "Thing" \in Lineage[ThingOf(ProtoOfThing(i)).class]
<1>1. PICK t, p, q : t = Instance[i] /\ p = TypeProto(t) /\ q = ProtoOfThing(i)
  OBVIOUS
<1>2. t \in TypeIds
  BY <1>1, SchemaAssumption
<1>3. /\ p \in Protos /\ p # Null /\ p.encoding = Schema[t].encoding
      /\ p.valueType = Schema[t].valueType
  BY <1>1, <1>2, ServedType
<1>4. q = [iid |-> i, type |-> p]
  BY <1>1 DEF ProtoOfThing
<1>5. q \in [iid : ThingIds, type : Protos]
  BY <1>3, <1>4
<1>6. q # Null
  BY <1>5, SchemaAssumption
<1>7. \/ p.encoding \in {"ENTITY_TYPE", "RELATION_TYPE"}
      \/ p.encoding = "ATTRIBUTE_TYPE" /\ p.valueType \in DOMAIN AttributeClassOf
  BY <1>1, <1>3, SchemaAssumption
<1>8. p.valueType \in ValueTypes /\ p.label \in LabelsOrNull /\ p.root \in Roots
  BY <1>3 DEF Protos
<1>9. Label(Null, p.label) \in [scope : LabelsOrNull, name : LabelsOrNull]
  BY <1>8 DEF Label, LabelsOrNull
<1>10. /\ "EntityType" \in DOMAIN Superclass /\ "RelationType" \in DOMAIN Superclass
       /\ \A v \in ValueTypes : AttributeTypeClassOf[v] \in DOMAIN Superclass
       /\ "Entity" \in DOMAIN Superclass /\ "Relation" \in DOMAIN Superclass
       /\ \A v \in DOMAIN AttributeClassOf : AttributeClassOf[v] \in DOMAIN Superclass
  BY MethodAssumption, Zenon
<1>11. \A class \in DOMAIN Superclass :
          NewType(class, Label(Null, p.label), p.root) \in Types
  BY <1>8, <1>9 DEF NewType, Types
<1>12. EntityTypeOf(p) \in Types /\ RelationTypeOf(p) \in Types /\ AttributeTypeOf(p) \in Types
  <2>1. EntityTypeOf(p) \in Types
    BY <1>10, <1>11 DEF EntityTypeOf
  <2>2. RelationTypeOf(p) \in Types
    BY <1>10, <1>11 DEF RelationTypeOf
  <2>3. AttributeTypeOf(p) \in Types
    BY <1>8, <1>10, <1>11 DEF AttributeTypeOf
  <2> QED BY <2>1, <2>2, <2>3
<1>13. PICK class, type :
          /\ class \in {"Entity", "Relation"}
                         \cup {AttributeClassOf[v] : v \in DOMAIN AttributeClassOf}
          /\ type \in Types /\ ThingOf(q) = NewThing(class, i, type)
  <2>1. CASE p.encoding = "ENTITY_TYPE"
    <3>1. ThingOf(q) = NewThing("Entity", i, EntityTypeOf(p))
      BY <1>4, <1>6, <2>1 DEF ThingOf, EntityOf
    <3> QED BY <1>12, <3>1
  <2>2. CASE p.encoding = "RELATION_TYPE"
    <3>1. ThingOf(q) = NewThing("Relation", i, RelationTypeOf(p))
      BY <1>4, <1>6, <2>2 DEF ThingOf, RelationOf
    <3> QED BY <1>12, <3>1
  <2>3. CASE p.encoding = "ATTRIBUTE_TYPE" /\ p.valueType \in DOMAIN AttributeClassOf
    <3>1. ThingOf(q) = NewThing(AttributeClassOf[p.valueType], i, AttributeTypeOf(p))
      BY <1>4, <1>6, <2>3 DEF ThingOf, AttributeOf
    <3> QED BY <1>12, <2>3, <3>1
  <2> QED BY <1>7, <2>1, <2>2, <2>3
<1>14. PICK made : made = ThingOf(q)
  OBVIOUS
<1>15. class \in DOMAIN Superclass /\ "Thing" \in Lineage[class]
  BY <1>10, <1>13, KindAssumption
<1>16. made = [class |-> class, remote |-> FALSE, iid |-> i, type |-> type]
  BY <1>13, <1>14 DEF NewThing
<1>17. made \in Things
  BY <1>13, <1>15, <1>16 DEF Things
<1>18. made # Null
  BY <1>17, SchemaAssumption
<1> QED BY <1>1, <1>6, <1>14, <1>15, <1>16, <1>17, <1>18

\* What isDeleted() makes of what it finds.
LEMMA DeletedConverts ==
  ASSUME CallInv, AllExact, NEW h \in Handle, "isDeleted" \in DOMAIN Methods[concepts[h].class],
         NEW c, c.caller = h, c.name = "isDeleted", NEW p
  PROVE  /\ p = Null => ConvertOne(MethodOf(c), p) = Null
         /\ p # Null /\ KindOf(meant[h]) = "Rule" =>
               ConvertOne(MethodOf(c), p) = OfClass(RuleOf(p), "Rule")
         /\ p # Null /\ KindOf(meant[h]) = "Thing" =>
               ConvertOne(MethodOf(c), p) = OfClass(ThingOf(p), "Thing")
         /\ p # Null /\ KindOf(meant[h]) = "RoleType" =>
               ConvertOne(MethodOf(c), p) = OfClass(ThingTypeOf(p), "RelationType")
         /\ p # Null /\ KindOf(meant[h]) = "ThingType" =>
               ConvertOne(MethodOf(c), p) = OfClass(ThingTypeOf(p), "ThingType")
<1>1. PICK method, kind : method = Methods[concepts[h].class]["isDeleted"] /\ kind = KindOf(meant[h])
  OBVIOUS
<1>2. MethodOf(c) = method
  BY <1>1 DEF MethodOf, MethodsOf
<1>3. /\ method.builder = CASE kind = "Rule" -> <<"LogicManager", "getRule">>
                            [] kind = "Thing" -> <<"ConceptManager", "getThing">>
                            [] OTHER -> <<"ConceptManager", "getThingType">>
      /\ method.of = CASE kind = "Rule" -> "Rule" [] kind = "Thing" -> "Thing"
                       [] OTHER -> "ThingType"
      /\ method.declares = CASE kind = "Rule" -> "Rule" [] kind = "Thing" -> "Thing"
                             [] kind = "RoleType" -> "RelationType"
                             [] OTHER -> "ThingType"
  BY <1>1, DeletedMethod
<1>4. method.builder[1] \in {"ConceptManager", "LogicManager"}
  BY <1>3
<1>5. ConvertOne(method, p) = IF p = Null THEN Null ELSE OfClass(Convert(method.of, p), method.declares)
  BY <1>4 DEF ConvertOne
<1>6. /\ kind = "Rule" => OfClass(Convert(method.of, p), method.declares) = OfClass(RuleOf(p), "Rule")
      /\ kind = "Thing" => OfClass(Convert(method.of, p), method.declares) = OfClass(ThingOf(p), "Thing")
  BY <1>3 DEF Convert
<1>7. /\ kind = "RoleType" =>
            OfClass(Convert(method.of, p), method.declares) = OfClass(ThingTypeOf(p), "RelationType")
      /\ kind = "ThingType" =>
            OfClass(Convert(method.of, p), method.declares) = OfClass(ThingTypeOf(p), "ThingType")
  BY <1>3 DEF Convert
<1> QED BY <1>1, <1>2, <1>5, <1>6, <1>7

LEMMA SubjectOf ==
  ASSUME NEW label
  PROVE  /\ Subject(OnRule(label)) = RuleNamed(label)
         /\ Subject(OnType(label)) = TypeNamed(label.scope, label.name)
         /\ Subject(OnThing(label)) = ThingNamed(label)
<1>1. Subject(OnRule(label)) = RuleNamed(label)
  BY DEF Subject, OnRule
<1>2. Subject(OnType(label)) = TypeNamed(label.scope, label.name)
  BY DEF Subject, OnType
<1>3. Subject(OnThing(label)) = ThingNamed(label)
  BY DEF Subject, OnThing
<1> QED BY <1>1, <1>2, <1>3

\* The server takes a type or rule's own name for it.
LEMMA FormFound ==
  ASSUME ServerInv, NEW x \in Entities, names[x] # Null
  PROVE  Subject(Form(x)) = x
<1>1. CASE x \in RuleIds
  <2>1. PICK S : S = {r \in RuleIds : names[x] # Null /\ names[r] = names[x]}
    OBVIOUS
  <2>2. x \in S /\ Null \notin S
    BY <1>1, <2>1, SchemaAssumption
  <2>3. OrNull(S) \in S
    BY <2>2, OrNullMember
  <2>4. OrNull(S) = x
    BY <1>1, <2>1, <2>3 DEF ServerInv
  <2>5. Subject(Form(x)) = RuleNamed(names[x])
    BY <1>1, SubjectOf DEF Form
  <2> QED BY <2>1, <2>4, <2>5 DEF RuleNamed
<1>2. CASE x \in TypeIds
  <2>1. PICK S : S = {t \in Existing : names[t] = names[x] /\ ScopeName(t) = ScopeName(x)}
    OBVIOUS
  <2>2. x \in S /\ x \in Existing /\ Null \notin S /\ x \notin RuleIds
    BY <1>2, <2>1, SchemaAssumption DEF Existing
  <2>3. OrNull(S) \in S
    BY <2>2, OrNullMember
  <2>4. OrNull(S) = x
    BY <2>1, <2>2, <2>3 DEF ServerInv
  <2>5. Form(x) = OnType(Label(ScopeName(x), names[x]))
    BY <2>2 DEF Form
  <2>6. /\ Label(ScopeName(x), names[x]).scope = ScopeName(x)
        /\ Label(ScopeName(x), names[x]).name = names[x]
    BY DEF Label
  <2>7. Subject(Form(x)) = TypeNamed(ScopeName(x), names[x])
    BY <2>5, <2>6, SubjectOf
  <2> QED BY <2>1, <2>4, <2>7 DEF TypeNamed
<1> QED BY <1>1, <1>2 DEF Entities

\* What is served first and is not stale is about what its handles mean.
LEMMA OwnFound ==
  ASSUME CallInv, ServerInv, OnTime(calls), NEW i \in DOMAIN calls, First(i), ~calls[i].raced,
         NEW h \in HandlesOf(calls[i].caller, calls[i].args), Named(h), StillThere(h)
  PROVE  Subject(Own(h)) = meant[h]
<1>1. Own(h) = Form(meant[h]) /\ meant[h] \in Entities /\ names[meant[h]] # Null
  BY FirstKnows
<1>2. Subject(Form(meant[h])) = meant[h]
  BY <1>1, FormFound
<1> QED BY <1>1, <1>2

LEMMA OwnExists ==
  ASSUME CallInv, ServerInv, OnTime(calls), NEW i \in DOMAIN calls, First(i), ~calls[i].raced,
         NEW h \in HandlesOf(calls[i].caller, calls[i].args), Named(h),
         ~LostTrack(h), ~Supplanted(h)
  PROVE  Subject(Own(h)) # Null <=> Exists(meant[h])
<1>1. CASE Exists(meant[h])
  <2>1. StillThere(h) /\ h \in Handle
    BY <1>1 DEF StillThere, HandlesOf
  <2>2. Subject(Own(h)) = meant[h]
    BY <2>1, OwnFound
  <2>3. meant[h] \in Entities
    BY <2>1 DEF CallInv, Domains, Named
  <2> QED BY <1>1, <2>2, <2>3, SchemaAssumption DEF Entities
<1>2. CASE ~Exists(meant[h])
  BY <1>2 DEF Supplanted, Named, Own
<1> QED BY <1>1, <1>2

LEMMA AnswersOf ==
  ASSUME NEW x, NEW fields
  PROVE  /\ Answers("getThingType", x, fields) =
               {IF TypeNamed(Null, fields.label) = Null THEN Null
                ELSE TypeProto(TypeNamed(Null, fields.label))}
         /\ Answers("getRelatesForRoleLabel", x, fields) =
               {IF TypeNamed(names[x], fields.label) = Null THEN Null
                ELSE TypeProto(TypeNamed(names[x], fields.label))}
         /\ Answers("getThing", x, fields) =
               {IF fields.iid \in alive THEN ProtoOfThing(fields.iid) ELSE Null}
         /\ Answers("getRule", x, fields) =
               {IF RuleNamed(fields.label) = Null THEN Null
                ELSE RuleProto(RuleNamed(fields.label))}
<1>1. Answers("getThingType", x, fields) =
               {IF TypeNamed(Null, fields.label) = Null THEN Null
                ELSE TypeProto(TypeNamed(Null, fields.label))}
  BY DEF Answers
<1>2. Answers("getRelatesForRoleLabel", x, fields) =
               {IF TypeNamed(names[x], fields.label) = Null THEN Null
                ELSE TypeProto(TypeNamed(names[x], fields.label))}
  BY DEF Answers
<1>3. Answers("getThing", x, fields) =
               {IF fields.iid \in alive THEN ProtoOfThing(fields.iid) ELSE Null}
  BY DEF Answers
<1>4. Answers("getRule", x, fields) =
               {IF RuleNamed(fields.label) = Null THEN Null
                ELSE RuleProto(RuleNamed(fields.label))}
  BY DEF Answers
<1> QED BY <1>1, <1>2, <1>3, <1>4

\* What TypeNamed and RuleNamed find.
LEMMA NamedType ==
  ASSUME NEW scope, NEW label, TypeNamed(scope, label) # Null
  PROVE  /\ TypeNamed(scope, label) \in Existing /\ TypeNamed(scope, label) \in TypeIds
         /\ names[TypeNamed(scope, label)] = label /\ names[TypeNamed(scope, label)] # Null
         /\ ScopeName(TypeNamed(scope, label)) = scope
BY DEF TypeNamed, OrNull, Existing

LEMMA NamedRule ==
  ASSUME NEW label, RuleNamed(label) # Null
  PROVE  /\ RuleNamed(label) \in RuleIds /\ names[RuleNamed(label)] = label /\ label # Null
BY DEF RuleNamed, OrNull

\* A type without a scope is no role.
LEMMA UnscopedType ==
  ASSUME ServerInv, NEW t \in Existing, ScopeName(t) = Null
  PROVE  ~IsRole(t)
<1>1. t \in TypeIds
  BY DEF Existing
<1>2. ScopeOf(t) = Null
  BY <1>1, Scopes DEF ServerInv
<1> QED BY <1>1, <1>2, Scopes DEF IsRole

LEMMA TypeFound ==
  ASSUME CallInv, ServerInv, NEW x, NEW fields, NEW answer \in Answers("getThingType", x, fields),
         NEW c, c.request.fields = fields, c.answer = answer
  PROVE  FoundType(c)
<1>1. PICK t : t = TypeNamed(Null, fields.label)
  OBVIOUS
<1>2. answer = IF t = Null THEN Null ELSE TypeProto(t)
  BY <1>1, AnswersOf
<1>3. CASE t = Null
  BY <1>2, <1>3 DEF FoundType
<1>4. CASE t # Null
  <2>1. t \in Existing /\ t \in TypeIds /\ names[t] = fields.label /\ ScopeName(t) = Null
    BY <1>1, <1>4, NamedType
  <2>2. ~IsRole(t)
    BY <2>1, UnscopedType
  <2>3. /\ TypeProto(t) \in Protos /\ TypeProto(t).label = names[t]
        /\ TypeProto(t).encoding = Schema[t].encoding
        /\ TypeProto(t).valueType = Schema[t].valueType
    BY <2>1, ServedType
  <2> QED BY <1>2, <1>4, <2>1, <2>2, <2>3 DEF FoundType
<1> QED BY <1>3, <1>4

LEMMA ToldBy ==
  ASSUME NEW c, c.name = "isDeleted", c.existed \in BOOLEAN, MethodOf(c).of # "RolePlayers",
         IsDeleted(c) <=> IF Is(concepts[c.caller], "ThingType") THEN c.existed ELSE ~c.existed
  PROVE  Told(c)
<1>1. Outcome(c) = {IsDeleted(c)}
  BY Zenon DEF Outcome
<1>2. IsDeleted(c) \in BOOLEAN
  BY DEF IsDeleted
<1>3. IsDeleted(c) = IF Is(concepts[c.caller], "ThingType") THEN c.existed ELSE ~c.existed
  BY <1>2
<1> QED BY <1>1, <1>3 DEF Told

\* An isDeleted() that is served first, with its answer.
DeletedServed(i, c, answer) ==
    /\ First(i) /\ calls[i].name = "isDeleted" /\ IsAnswer(c, calls[i], answer) /\ ~c.stale

LEMMA DeletedOf ==
  ASSUME CallInv, ServerInv, RequestInv, NEW i \in DOMAIN calls, NEW c, NEW answer,
         DeletedServed(i, c, answer)
  PROVE  /\ c.caller \in Handle /\ c.caller = calls[i].caller /\ c.request = calls[i].request
         /\ c.answer = answer /\ c.name = "isDeleted"
         /\ Looks(c) /\ AllExact /\ OnTime(calls) /\ ~calls[i].raced
         /\ c.caller \in HandlesOf(calls[i].caller, calls[i].args)
         /\ "isDeleted" \in DOMAIN Methods[concepts[c.caller].class]
         /\ ~LostTrack(c.caller) /\ ~Supplanted(c.caller)
         /\ c.existed \in BOOLEAN /\ (c.existed <=> Exists(meant[c.caller]))
         /\ MethodOf(c).of # "RolePlayers"
<1>1. WellAsked(calls[i]) /\ AllExact /\ OnTime(calls)
  BY DEF RequestInv
<1>2. /\ calls[i].caller \in Handle /\ (Fresh(calls[i]) => Looks(calls[i]))
      /\ "isDeleted" \in DOMAIN Methods[concepts[calls[i].caller].class]
  BY <1>1 DEF WellAsked, DeletedServed
<1>3. /\ c.caller = calls[i].caller /\ c.request = calls[i].request /\ c.answer = answer
      /\ c.name = "isDeleted" /\ c.existed \in BOOLEAN
      /\ ~calls[i].raced /\ ~LostTrack(c.caller) /\ ~Supplanted(c.caller)
      /\ c.existed <=> Exists(meant[c.caller])
  BY <1>2 DEF DeletedServed, IsAnswer
<1>4. Fresh(calls[i])
  BY <1>3 DEF DeletedServed, First, Fresh
<1>5. Looks(c)
  BY <1>2, <1>3, <1>4 DEF Looks, FirstHalf, SecondHalf
<1>6. c.caller \in HandlesOf(calls[i].caller, calls[i].args)
  BY <1>2, <1>3 DEF HandlesOf
<1>7. MethodOf(c).of # "RolePlayers"
  <2>1. PICK h, method : h = c.caller /\ method = Methods[concepts[h].class]["isDeleted"]
    OBVIOUS
  <2>2. method.of = CASE KindOf(meant[h]) = "Rule" -> "Rule" [] KindOf(meant[h]) = "Thing" -> "Thing"
                      [] OTHER -> "ThingType"
    BY <1>1, <1>2, <1>3, <2>1, DeletedMethod
  <2>3. MethodOf(c) = method
    BY <1>2, <1>3, <2>1 DEF MethodOf, MethodsOf
  <2> QED BY <2>2, <2>3
<1> QED BY <1>1, <1>2, <1>3, <1>5, <1>6, <1>7

LEMMA ToldOfRule ==
  ASSUME CallInv, ServerInv, RequestInv, NEW i \in DOMAIN calls, NEW c, NEW answer,
         DeletedServed(i, c, answer), NEW x,
         answer \in Answers(c.request.message, x, c.request.fields), meant[c.caller] \in RuleIds
  PROVE  Told(c)
<1>1. PICK h, concept : h = c.caller /\ concept = concepts[h]
  OBVIOUS
<1>2. /\ h \in Handle /\ c.answer = answer /\ c.name = "isDeleted" /\ c.existed \in BOOLEAN
      /\ Looks(c) /\ AllExact /\ OnTime(calls) /\ ~calls[i].raced /\ First(i)
      /\ h \in HandlesOf(calls[i].caller, calls[i].args) /\ ~LostTrack(h) /\ ~Supplanted(h)
      /\ "isDeleted" \in DOMAIN Methods[concept.class] /\ (c.existed <=> Exists(meant[h]))
      /\ MethodOf(c).of # "RolePlayers"
  BY <1>1, DeletedOf DEF DeletedServed
<1>3. /\ Named(h) /\ KindOf(meant[h]) = "Rule"
  BY <1>1, SchemaAssumption DEF Named, KindOf
<1>4. c.request.message = "getRule" /\ c.request.fields.label = concept.label
  BY <1>1, <1>2 DEF Looks
<1>5. PICK r : r = RuleNamed(concept.label)
  OBVIOUS
<1>6. answer = IF r = Null THEN Null ELSE RuleProto(r)
  BY <1>4, <1>5, AnswersOf
<1>7. r # Null <=> Exists(meant[h])
  <2>1. Subject(Own(h)) # Null <=> Exists(meant[h])
    BY <1>2, <1>3, OwnExists
  <2>2. Own(h) = OnRule(concept.label)
    BY <1>1 DEF Own
  <2> QED BY <1>5, <2>1, <2>2, SubjectOf
<1>8. ConvertOne(MethodOf(c), answer) = Null <=> r = Null
  <2>1. CASE r = Null
    BY <1>1, <1>2, <1>6, <2>1, DeletedConverts
  <2>2. CASE r # Null
    <3>1. r \in RuleIds /\ names[r] = concept.label /\ concept.label # Null
      BY <1>5, <2>2, NamedRule
    <3>2. concept.label \in Labels /\ answer = [label |-> concept.label]
      BY <1>6, <2>2, <3>1 DEF RuleProto, ServerInv, Entities
    <3>3. /\ answer # Null /\ RuleOf(answer) # Null
          /\ "Rule" \in Lineage[RuleOf(answer).class]
      BY <3>2, RuleMade
    <3>4. ConvertOne(MethodOf(c), answer) = OfClass(RuleOf(answer), "Rule")
      BY <1>1, <1>2, <1>3, <3>3, DeletedConverts
    <3> QED BY <2>2, <3>3, <3>4 DEF OfClass, Is
  <2> QED BY <2>1, <2>2
<1>9. ~Is(concept, "ThingType")
  BY <1>1, <1>2, <1>3, OneKind DEF Is, Kinds
<1>10. IsDeleted(c) <=> ConvertOne(MethodOf(c), answer) = Null
  BY <1>1, <1>2, <1>4, <1>9 DEF IsDeleted
<1> QED BY <1>1, <1>2, <1>7, <1>8, <1>9, <1>10, ToldBy

LEMMA ToldOfThing ==
  ASSUME CallInv, ServerInv, RequestInv, NEW i \in DOMAIN calls, NEW c, NEW answer,
         DeletedServed(i, c, answer), NEW x,
         answer \in Answers(c.request.message, x, c.request.fields), meant[c.caller] \in ThingIds
  PROVE  Told(c)
<1>1. PICK h, concept, thing : h = c.caller /\ concept = concepts[h] /\ thing = meant[h]
  OBVIOUS
<1>2. /\ h \in Handle /\ c.answer = answer /\ c.name = "isDeleted" /\ c.existed \in BOOLEAN
      /\ Looks(c) /\ AllExact /\ "isDeleted" \in DOMAIN Methods[concept.class]
      /\ (c.existed <=> Exists(thing)) /\ MethodOf(c).of # "RolePlayers"
  BY <1>1, DeletedOf
<1>3. thing \in ThingIds /\ KindOf(thing) = "Thing"
  BY <1>1, SchemaAssumption DEF KindOf
<1>4. c.request.message = "getThing" /\ c.request.fields.iid = thing
  BY <1>1, <1>2, <1>3 DEF Looks
<1>5. answer = IF thing \in alive THEN ProtoOfThing(thing) ELSE Null
  BY <1>4, AnswersOf
<1>6. thing \in alive <=> Exists(thing)
  BY <1>3 DEF Exists
<1>7. ConvertOne(MethodOf(c), answer) = Null <=> thing \notin alive
  <2>1. CASE thing \notin alive
    BY <1>1, <1>2, <1>5, <2>1, DeletedConverts
  <2>2. CASE thing \in alive
    <3>1. /\ answer # Null /\ ThingOf(answer) # Null
          /\ "Thing" \in Lineage[ThingOf(answer).class]
      BY <1>3, <1>5, <2>2, ThingMade
    <3>2. ConvertOne(MethodOf(c), answer) = OfClass(ThingOf(answer), "Thing")
      BY <1>1, <1>2, <1>3, <3>1, DeletedConverts
    <3> QED BY <2>2, <3>1, <3>2 DEF OfClass, Is
  <2> QED BY <2>1, <2>2
<1>8. ~Is(concept, "ThingType")
  BY <1>1, <1>2, <1>3, OneKind DEF Is, Kinds
<1>9. IsDeleted(c) <=> ConvertOne(MethodOf(c), answer) = Null
  BY <1>1, <1>2, <1>4, <1>8 DEF IsDeleted
<1> QED BY <1>1, <1>2, <1>6, <1>7, <1>8, <1>9, ToldBy

LEMMA ToldOfType ==
  ASSUME CallInv, ServerInv, RequestInv, NEW i \in DOMAIN calls, NEW c, NEW answer,
         DeletedServed(i, c, answer), NEW x,
         answer \in Answers(c.request.message, x, c.request.fields),
         meant[c.caller] \in TypeIds, ~IsRole(meant[c.caller])
  PROVE  Told(c)
<1>1. PICK h, concept, type : h = c.caller /\ concept = concepts[h] /\ type = meant[h]
  OBVIOUS
<1>2. /\ h \in Handle /\ c.answer = answer /\ c.name = "isDeleted" /\ c.existed \in BOOLEAN
      /\ Looks(c) /\ AllExact /\ OnTime(calls) /\ ~calls[i].raced /\ First(i)
      /\ h \in HandlesOf(calls[i].caller, calls[i].args) /\ ~LostTrack(h) /\ ~Supplanted(h)
      /\ "isDeleted" \in DOMAIN Methods[concept.class] /\ (c.existed <=> Exists(type))
      /\ MethodOf(c).of # "RolePlayers"
  BY <1>1, DeletedOf DEF DeletedServed
<1>3. /\ type \in TypeIds /\ ~IsRole(type) /\ type \notin RuleIds /\ Named(h)
      /\ KindOf(type) = "ThingType"
  BY <1>1, SchemaAssumption DEF Named, KindOf
<1>4. c.request.message = "getThingType" /\ c.request.fields.label = concept.label.name
  BY <1>1, <1>2, <1>3 DEF Looks
<1>5. concept.label.scope = Null
  BY <1>1, <1>2, <1>3 DEF AllExact, Exact
<1>6. PICK t : t = TypeNamed(Null, concept.label.name)
  OBVIOUS
<1>7. answer = IF t = Null THEN Null ELSE TypeProto(t)
  BY <1>4, <1>6, AnswersOf
<1>8. t # Null <=> Exists(type)
  <2>1. Subject(Own(h)) # Null <=> Exists(type)
    BY <1>1, <1>2, <1>3, OwnExists
  <2>2. Own(h) = OnType(concept.label)
    BY <1>1, <1>3 DEF Own
  <2> QED BY <1>5, <1>6, <2>1, <2>2, SubjectOf
<1>9. ConvertOne(MethodOf(c), answer) = Null <=> t = Null
  <2>1. CASE t = Null
    BY <1>1, <1>2, <1>7, <2>1, DeletedConverts
  <2>2. CASE t # Null
    <3>1. t \in Existing /\ t \in TypeIds /\ ScopeName(t) = Null
      BY <1>6, <2>2, NamedType
    <3>2. ~IsRole(t)
      BY <3>1, UnscopedType
    <3>3. /\ answer \in Protos /\ answer # Null /\ answer.encoding = Schema[t].encoding
          /\ answer.valueType = Schema[t].valueType
      BY <1>7, <2>2, <3>1, ServedType
    <3>4. ThingTypeOf(answer) # Null /\ "ThingType" \in Lineage[ThingTypeOf(answer).class]
      BY <3>1, <3>2, <3>3, ThingTypeMade
    <3>5. ConvertOne(MethodOf(c), answer) = OfClass(ThingTypeOf(answer), "ThingType")
      BY <1>1, <1>2, <1>3, <3>3, DeletedConverts
    <3> QED BY <2>2, <3>4, <3>5 DEF OfClass, Is
  <2> QED BY <2>1, <2>2
<1>10. Is(concept, "ThingType")
  BY <1>1, <1>2, <1>3, OneKind, SchemaAssumption DEF Is, Kinds, AllExact, Exact
<1>11. IsDeleted(c) <=> ConvertOne(MethodOf(c), answer) # Null
  BY <1>1, <1>2, <1>4, <1>10 DEF IsDeleted
<1> QED BY <1>1, <1>2, <1>8, <1>9, <1>10, <1>11, ToldBy

\* The relation type of a role is found by the scope that the role has.
LEMMA RelationFound ==
  ASSUME CallInv, ServerInv, NEW role \in TypeIds, IsRole(role), names[role] # Null
  PROVE  /\ TypeNamed(Null, ScopeName(role)) = ScopeOf(role) /\ ScopeOf(role) \in TypeIds
         /\ ~IsRole(ScopeOf(role)) /\ Schema[ScopeOf(role)].encoding = "RELATION_TYPE"
<1>1. PICK s : s = ScopeOf(role)
  OBVIOUS
<1>2. s # Null /\ s \in TypeIds /\ ScopeName(role) = names[s] /\ ScopeOf(s) = Null
  BY <1>1, Scopes DEF IsRole
<1>3. Schema[s].encoding = "RELATION_TYPE" /\ ~IsRole(s)
  <2>1. Schema[role].scope = s
    BY <1>1 DEF ScopeOf
  <2>2. Schema[s].encoding = "RELATION_TYPE"
    BY <1>2, <2>1, SchemaAssumption
  <2> QED BY <2>2 DEF IsRole
<1>4. names[s] # Null /\ s \notin RuleIds /\ s \in Entities /\ ScopeName(s) = Null
  <2>1. role \in Existing
    BY DEF Existing
  <2>2. names[s] # Null
    BY <1>1, <1>2, <2>1 DEF ServerInv
  <2>3. s \notin RuleIds /\ ScopeName(s) = Null
    BY <1>2, Scopes
  <2> QED BY <1>2, <2>2, <2>3 DEF Entities
<1>5. Subject(Form(s)) = s
  BY <1>4, FormFound
<1>6. Form(s) = OnType(Label(Null, names[s]))
  BY <1>4 DEF Form
<1>7. Subject(OnType(Label(Null, names[s]))) = TypeNamed(Null, names[s])
  <2>1. Label(Null, names[s]).scope = Null /\ Label(Null, names[s]).name = names[s]
    BY DEF Label
  <2> QED BY <2>1, SubjectOf
<1> QED BY <1>1, <1>2, <1>3, <1>5, <1>6, <1>7

LEMMA ToldOfFirstHalf ==
  ASSUME CallInv, ServerInv, RequestInv, NEW i \in DOMAIN calls, NEW c, NEW answer,
         DeletedServed(i, c, answer), NEW x,
         answer \in Answers(c.request.message, x, c.request.fields),
         IsRole(meant[c.caller]), FirstHalf(c)
  PROVE  Told(c)
<1>1. PICK h, concept, role : h = c.caller /\ concept = concepts[h] /\ role = meant[h]
  OBVIOUS
<1>2. /\ h \in Handle /\ c.answer = answer /\ c.name = "isDeleted" /\ c.existed \in BOOLEAN
      /\ AllExact /\ OnTime(calls) /\ ~calls[i].raced /\ First(i)
      /\ h \in HandlesOf(calls[i].caller, calls[i].args) /\ ~LostTrack(h) /\ ~Supplanted(h)
      /\ "isDeleted" \in DOMAIN Methods[concept.class] /\ (c.existed <=> Exists(role))
      /\ MethodOf(c).of # "RolePlayers"
  BY <1>1, DeletedOf DEF DeletedServed
<1>3. /\ role \in TypeIds /\ IsRole(role) /\ role \notin RuleIds /\ Named(h)
      /\ role \notin ThingIds /\ KindOf(role) = "RoleType"
  BY <1>1, SchemaAssumption DEF Named, KindOf, IsRole
<1>4. c.request.message = "getThingType" /\ c.request.fields.label = concept.label.scope
  BY <1>1 DEF FirstHalf
<1>5. PICK t : t = TypeNamed(Null, concept.label.scope)
  OBVIOUS
<1>6. answer = IF t = Null THEN Null ELSE TypeProto(t)
  BY <1>4, <1>5, AnswersOf
<1>7. Is(concept, "RoleType") /\ ~Is(concept, "ThingType")
  <2>1. Lineage[concept.class] \cap Kinds = {"RoleType"}
    BY <1>1, <1>2, <1>3, OneKind
  <2> QED BY <2>1 DEF Is, Kinds
<1>8. Exists(role) => ConvertOne(MethodOf(c), answer) # Null
  <2> SUFFICES ASSUME Exists(role) PROVE ConvertOne(MethodOf(c), answer) # Null
    OBVIOUS
  <2>1. StillThere(h) /\ names[role] # Null
    BY <1>1, <1>2, <1>3 DEF StillThere, Exists
  <2>2. ScopeKnown(h)
    BY <1>2, <1>3, <2>1, FirstKnows
  <2>3. concept.label.scope = ScopeName(role)
    BY <1>1, <1>3, <2>2 DEF ScopeKnown
  <2>4. /\ t = ScopeOf(role) /\ t \in TypeIds /\ ~IsRole(t) /\ Schema[t].encoding = "RELATION_TYPE"
    BY <1>3, <1>5, <2>1, <2>3, RelationFound
  <2>5. t # Null
    BY <2>4, SchemaAssumption
  <2>6. /\ answer \in Protos /\ answer # Null /\ answer.encoding = Schema[t].encoding
        /\ answer.valueType = Schema[t].valueType
    BY <1>6, <2>4, <2>5, ServedType
  <2>7. ThingTypeOf(answer) # Null /\ ThingTypeOf(answer).class = "RelationType"
    BY <2>4, <2>6, ThingTypeMade
  <2>8. ConvertOne(MethodOf(c), answer) = OfClass(ThingTypeOf(answer), "RelationType")
    BY <1>1, <1>2, <1>3, <2>6, DeletedConverts
  <2> QED BY <2>7, <2>8, KindAssumption DEF OfClass, Is
<1>9. CASE Halfway(c)
  BY <1>9 DEF Told
<1>10. CASE ~Halfway(c)
  <2>1. ConvertOne(MethodOf(c), answer) = Null
    BY <1>1, <1>2, <1>4, <1>7, <1>10 DEF Halfway
  <2>2. ~Exists(role)
    BY <1>8, <2>1
  <2>3. IsDeleted(c)
    BY <1>1, <1>2, <1>4, <1>7, <2>1 DEF IsDeleted
  <2> QED BY <1>1, <1>2, <1>7, <2>2, <2>3, ToldBy
<1> QED BY <1>9, <1>10

LEMMA ToldOfSecondHalf ==
  ASSUME CallInv, ServerInv, RequestInv, NEW i \in DOMAIN calls, NEW c, NEW answer,
         DeletedServed(i, c, answer), NEW x, x = Subject(c.request.on), x # Null,
         answer \in Answers(c.request.message, x, c.request.fields),
         IsRole(meant[c.caller]), SecondHalf(c)
  PROVE  Told(c)
<1>1. PICK h, concept, role : h = c.caller /\ concept = concepts[h] /\ role = meant[h]
  OBVIOUS
<1>2. /\ h \in Handle /\ c.answer = answer /\ c.name = "isDeleted" /\ c.existed \in BOOLEAN
      /\ AllExact /\ OnTime(calls) /\ ~calls[i].raced /\ First(i)
      /\ h \in HandlesOf(calls[i].caller, calls[i].args) /\ ~LostTrack(h) /\ ~Supplanted(h)
      /\ (c.existed <=> Exists(role)) /\ MethodOf(c).of # "RolePlayers"
  BY <1>1, DeletedOf DEF DeletedServed
<1>3. /\ role \in TypeIds /\ IsRole(role) /\ role \notin RuleIds /\ Named(h)
      /\ role \notin ThingIds /\ KindOf(role) = "RoleType"
  BY <1>1, SchemaAssumption DEF Named, KindOf, IsRole
<1>4. /\ c.request.message = "getRelatesForRoleLabel"
      /\ c.request.fields.label = concept.label.name
      /\ c.request.on = OnType(Label(Null, concept.label.scope))
  BY <1>1 DEF SecondHalf
<1>5. names[x] = concept.label.scope
  <2>1. /\ Label(Null, concept.label.scope).scope = Null
        /\ Label(Null, concept.label.scope).name = concept.label.scope
    BY DEF Label
  <2>2. x = TypeNamed(Null, concept.label.scope)
    BY <1>4, <2>1, SubjectOf
  <2> QED BY <2>2, NamedType
<1>6. PICK r : r = TypeNamed(concept.label.scope, concept.label.name)
  OBVIOUS
<1>7. answer = IF r = Null THEN Null ELSE TypeProto(r)
  BY <1>4, <1>5, <1>6, AnswersOf
<1>8. r # Null <=> Exists(role)
  <2>1. Subject(Own(h)) # Null <=> Exists(role)
    BY <1>1, <1>2, <1>3, OwnExists
  <2>2. Own(h) = OnType(concept.label)
    BY <1>1, <1>3 DEF Own
  <2> QED BY <1>6, <2>1, <2>2, SubjectOf
<1>9. RoleTypeOf(answer) = Null <=> r = Null
  <2>1. CASE r = Null
    BY <1>7, <2>1 DEF RoleTypeOf
  <2>2. CASE r # Null
    <3>1. r \in TypeIds
      BY <1>6, <2>2, NamedType
    <3>2. answer \in Protos
      BY <1>7, <2>2, <3>1, ServedType
    <3> QED BY <2>2, <3>2, RoleTypeMade
  <2> QED BY <2>1, <2>2
<1>10. ~Is(concept, "ThingType")
  <2>1. Lineage[concept.class] \cap Kinds = {"RoleType"}
    BY <1>1, <1>2, <1>3, OneKind
  <2> QED BY <2>1 DEF Is, Kinds
<1>11. IsDeleted(c) <=> RoleTypeOf(answer) = Null
  BY <1>1, <1>2, <1>4, <1>10 DEF IsDeleted
<1> QED BY <1>1, <1>2, <1>8, <1>9, <1>10, <1>11, ToldBy

LEMMA ServeOtherRequestInv ==
  ASSUME CallInv, ServerInv, RequestInv, NEW i \in DOMAIN calls, ServeOther(i)
  PROVE  RequestInv'
<1>1. PICK x, request, fields :
         /\ request = calls[i].request /\ fields = request.fields
         /\ x = IF request.on = OnManager THEN Null ELSE Subject(request.on)
  OBVIOUS
<1>2. /\ First(i) /\ Understood(request) /\ request.message \notin {"setLabel", "delete"}
      /\ \E answer \in Answers(request.message, x, fields) : calls' = Answered(i, answer)
      /\ concepts' = concepts /\ meant' = meant
  BY <1>1 DEF ServeOther
<1>3. PICK answer \in Answers(request.message, x, fields) : calls' = Answered(i, answer)
  BY <1>2
<1>4. ASSUME NEW c, IsAnswer(c, calls[i], answer)
      PROVE  WellAnswered(c)
  <2>1. c.request = request /\ c.answer = answer /\ c.name = calls[i].name /\ c.caller = calls[i].caller
    BY <1>1, <1>4 DEF IsAnswer
  <2>2. c.request.message = "getThingType" => FoundType(c)
    BY <1>1, <1>3, <2>1, TypeFound
  <2>3. ASSUME c.name = "isDeleted"
        PROVE  Told(c)
    <3>1. CASE c.stale
      BY <3>1 DEF Told
    <3>2. CASE ~c.stale
      <4>1. DeletedServed(i, c, answer)
        BY <1>2, <1>4, <2>1, <2>3, <3>2 DEF DeletedServed
      <4>2. c.caller \in Handle /\ Looks(c)
        BY <4>1, DeletedOf
      <4>3. answer \in Answers(c.request.message, x, c.request.fields)
        BY <1>1, <1>3, <2>1
      <4>4. CASE meant[c.caller] \in RuleIds
        BY <4>1, <4>3, <4>4, ToldOfRule
      <4>5. CASE meant[c.caller] \in ThingIds
        BY <4>1, <4>3, <4>5, ToldOfThing
      <4>6. CASE meant[c.caller] \in TypeIds /\ ~IsRole(meant[c.caller])
        BY <4>1, <4>3, <4>6, ToldOfType
      <4>7. CASE IsRole(meant[c.caller]) /\ FirstHalf(c)
        BY <4>1, <4>3, <4>7, ToldOfFirstHalf
      <4>8. CASE IsRole(meant[c.caller]) /\ SecondHalf(c)
        <5>1. c.request.on # OnManager
          BY <4>8 DEF SecondHalf, OnType, OnManager
        <5>2. x = Subject(c.request.on) /\ x # Null
          BY <1>1, <1>2, <2>1, <5>1 DEF Understood
        <5> QED BY <4>1, <4>3, <4>8, <5>2, ToldOfSecondHalf
      <4>9. meant[c.caller] \in RuleIds \cup ThingIds \cup TypeIds
        BY <4>2 DEF CallInv, Domains, Entities
      <4> QED BY <4>2, <4>4, <4>5, <4>6, <4>7, <4>8, <4>9 DEF Looks
    <3> QED BY <3>1, <3>2
  <2> QED BY <2>2, <2>3 DEF WellAnswered
<1> QED BY <1>2, <1>3, <1>4, AnsweredRequestInv

LEMMA ServeRenameRequestInv ==
  ASSUME CallInv, RequestInv, NEW i \in DOMAIN calls, ServeRename(i)
  PROVE  RequestInv'
<1>1. /\ calls' = Answered(i, Null) /\ calls[i].request.message = "setLabel"
      /\ concepts' = concepts /\ meant' = meant
  BY DEF ServeRename
<1>2. calls[i].name = "setLabel"
  BY <1>1 DEF CallInv, CallsOK, AreCalls, IsCall
<1>3. \A c : IsAnswer(c, calls[i], Null) => WellAnswered(c)
  BY <1>2 DEF IsAnswer, WellAnswered
<1> QED BY <1>1, <1>3, AnsweredRequestInv

LEMMA ServeDeleteRequestInv ==
  ASSUME CallInv, ServerInv, RequestInv, NEW i \in DOMAIN calls, ServeDelete(i)
  PROVE  RequestInv'
<1>1. /\ calls' = Answered(i, Null) /\ calls[i].request.message = "delete" /\ First(i)
      /\ concepts' = concepts /\ meant' = meant
  BY DEF ServeDelete
<1>2. ASSUME NEW c, IsAnswer(c, calls[i], Null)
      PROVE  WellAnswered(c)
  <2>1. c.request.message = "delete" /\ c.name = calls[i].name
    BY <1>1, <1>2 DEF IsAnswer
  <2>2. ASSUME c.name = "isDeleted", ~c.stale
        PROVE  FALSE
    <3>1. DeletedServed(i, c, Null)
      BY <1>1, <1>2, <2>1, <2>2 DEF DeletedServed
    <3>2. c.caller \in Handle /\ Looks(c)
      BY <3>1, DeletedOf
    <3>3. meant[c.caller] \in RuleIds \cup ThingIds \cup TypeIds
      BY <3>2 DEF CallInv, Domains, Entities
    <3> QED BY <2>1, <3>2, <3>3 DEF Looks, FirstHalf, SecondHalf
  <2> QED BY <2>1, <2>2 DEF WellAnswered, Told
<1> QED BY <1>1, <1>2, AnsweredRequestInv

-----------------------------------------------------------------------------
(* The end of an await, and a cast, by what their requests name.           *)

\* The second half of isDeleted() of a role asks the relation type for it.
LEMMA SecondRequest ==
  ASSUME NEW relation, NEW scope, NEW name, relation.label = Label(Null, scope), name \in LabelsOrNull
  PROVE  LET request == Request(RelationTypeMethods.getRelates, "getRelates", relation, <<"name">>,
                                <<name>>)
         IN  /\ request.message = "getRelatesForRoleLabel"
             /\ request.on = OnType(Label(Null, scope))
             /\ request.fields.label = name
<1>1. PICK method, request :
         /\ method = RelationTypeMethods.getRelates
         /\ request = Request(method, "getRelates", relation, <<"name">>, <<name>>)
  OBVIOUS
<1>2. method.builder = <<"RelationType", "getRelates">>
  BY <1>1 DEF RelationTypeMethods, Stream, Execute
<1>3. Asked(method, "getRelates", relation, <<name>>) = <<name>>
  BY <1>2 DEF Asked
<1>4. BuilderOf(method, <<"name">>, <<name>>) = <<"getRelatesByRole", <<name>>>>
  BY <1>2 DEF BuilderOf, GetRelates
<1>5. request = Placed("RelationType", "getRelatesByRole", relation, <<name>>)
  BY <1>1, <1>2, <1>3, <1>4, RequestPlaced
<1>6. /\ Builders["RelationType"]["getRelatesByRole"].fields = <<"label">>
      /\ Builders["RelationType"]["getRelatesByRole"].message = "getRelatesForRoleLabel"
  BY DEF Builders, RelationTypeBuilders, Builder
<1>7. name \notin Handle
  BY NoHandle
<1>8. Placed("RelationType", "getRelatesByRole", relation, <<name>>).fields["label"] = name
  BY <1>6, <1>7, OneField
<1>9. request.message = "getRelatesForRoleLabel"
  BY <1>5, <1>6 DEF Placed, Build
<1>10. request.on = OnType(Label(Null, scope))
  <2>1. request.on = On(<<"RelationType", "getRelatesByRole">>, relation)
    BY <1>5, PlacedOn
  <2> QED BY <2>1 DEF On
<1>11. request.fields["label"] = name
  BY <1>5, <1>8
<1> QED BY <1>1, <1>9, <1>10, <1>11

LEMMA ResumeHalfwayRequestInv ==
  ASSUME CallInv, RequestInv, NEW i \in DOMAIN calls, ResumeHalfway(i)
  PROVE  RequestInv'
<1>1. PICK call, h, concept, relation :
         /\ call = calls[i] /\ h = call.caller /\ concept = concepts[h]
         /\ relation = ConvertOne(MethodOf(call), call.answer)
  OBVIOUS
<1>2. PICK request, rest :
         /\ request = Request(RelationTypeMethods.getRelates, "getRelates", relation, <<"name">>,
                              <<concept.label.name>>)
         /\ rest = RemoveAt(calls, i)
  OBVIOUS
<1> DEFINE raced == call.raced \/ Renaming(h)
           c == [call EXCEPT !.request = request, !.stage = "sent", !.answer = Null,
                             !.raced = raced]
<1>3. /\ concepts' = concepts /\ meant' = meant /\ call.stage = "answered"
      /\ call.name = "isDeleted" /\ call.request.message = "getThingType" /\ relation # Null
      /\ Is(concept, "RoleType") /\ calls' = rest \o IF open THEN <<c>> ELSE <<>>
  BY <1>1, <1>2 DEF ResumeHalfway, Halfway
<1>4. AllExact /\ OnTime(calls) /\ IsSequence(calls) /\ IsCall(call)
  BY <1>1 DEF RequestInv, CallInv, CallsOK, AreCalls
<1>5. WellAsked(call) /\ FoundType(call)
  BY <1>1, <1>3 DEF RequestInv, WellAnswered
<1>6. /\ h \in Handle /\ call.args = <<>> /\ "isDeleted" \in DOMAIN Methods[concept.class]
      /\ IsRole(meant[h]) => FirstHalf(call)
  BY <1>1, <1>3, <1>5 DEF WellAsked
<1>7. IsRole(meant[h]) /\ KindOf(meant[h]) = "RoleType"
  <2>1. Lineage[concept.class] \cap Kinds = {KindOf(meant[h])}
    BY <1>1, <1>4, <1>6, OneKind
  <2>2. KindOf(meant[h]) = "RoleType"
    BY <1>3, <2>1 DEF Is, Kinds
  <2> QED BY <2>2 DEF KindOf
<1>8. call.request.fields.label = concept.label.scope
  BY <1>1, <1>6, <1>7 DEF FirstHalf
<1>9. relation.label = Label(Null, concept.label.scope)
  <2>1. call.answer # Null
    BY <1>1, <1>3, <1>6, <1>4, DeletedConverts
  <2>2. PICK t \in TypeIds :
           /\ ~IsRole(t) /\ call.answer \in Protos /\ call.answer.label = call.request.fields.label
           /\ call.answer.encoding = Schema[t].encoding /\ call.answer.valueType = Schema[t].valueType
    BY <1>5, <2>1 DEF FoundType
  <2>3. relation = OfClass(ThingTypeOf(call.answer), "RelationType")
    BY <1>1, <1>3, <1>4, <1>6, <1>7, <2>1, DeletedConverts
  <2>4. ThingTypeOf(call.answer).label = Label(Null, call.answer.label)
    BY <2>2, ThingTypeMade
  <2> QED BY <1>3, <1>8, <2>2, <2>3, <2>4 DEF OfClass
<1>10. concept.label.name \in LabelsOrNull
  <2>1. meant[h] \in TypeIds /\ Exact(meant[h], concept)
    BY <1>1, <1>4, <1>6, <1>7 DEF IsRole, AllExact
  <2> QED BY <2>1 DEF Exact, LabelsOrNull
<1>11. /\ request.message = "getRelatesForRoleLabel"
       /\ request.on = OnType(Label(Null, concept.label.scope))
       /\ request.fields.label = concept.label.name
  BY <1>2, <1>9, <1>10, SecondRequest
<1>12. /\ c.stage = "sent" /\ c.name = "isDeleted" /\ c.caller = h /\ c.args = <<>>
       /\ c.request = request /\ (c.raced <=> raced)
  <2> HIDE DEF raced
  <2> QED BY <1>1, <1>3, <1>4, <1>6 DEF IsCall
<1> HIDE DEF c
<1>13. SecondHalf(c)
  BY <1>1, <1>11, <1>12 DEF SecondHalf
<1>14. WellAsked(c) /\ WellAnswered(c)
  <2>1. IsRole(meant[h]) /\ meant[h] \in TypeIds /\ meant[h] \notin ThingIds /\ meant[h] \notin RuleIds
    BY <1>7, SchemaAssumption DEF IsRole
  <2>2. Looks(c)
    BY <1>12, <1>13, <2>1 DEF Looks
  <2>3. ToSet(c.args) = {}
    BY <1>12 DEF ToSet
  <2>4. Says(c)
    BY <1>11, <1>12, <2>3 DEF Says
  <2>5. WellAsked(c)
    BY <1>1, <1>6, <1>11, <1>12, <2>2, <2>4 DEF WellAsked
  <2>6. WellAnswered(c)
    BY <1>12 DEF WellAnswered
  <2> QED BY <2>5, <2>6
<1>15. IsSequence(rest) /\ OnTime(rest)
  <2>1. AreCalls(calls)
    BY DEF CallInv, CallsOK
  <2>2. IsSequence(rest)
    BY <1>2, <2>1, CallsWithout DEF AreCalls
  <2>3. \E f : Follows(calls, rest, f)
    BY <1>2, <1>4, RemovedFollows
  <2> QED BY <1>4, <2>2, <2>3, OnTimeFollows
<1>16. \A k \in DOMAIN rest : \E m \in DOMAIN calls : rest[k] = calls[m]
  BY <1>2, <1>4, RemovedFollows
<1>17. calls' = rest \/ calls' = Append(rest, c)
  <2>1. CASE open
    <3>1. rest \in Seq(ToSet(rest) \cup {c}) /\ c \in ToSet(rest) \cup {c}
      BY <1>15, SequenceWithin
    <3>2. Append(rest, c) = rest \o <<c>>
      BY <3>1, AppendIsConcat
    <3> QED BY <1>3, <2>1, <3>2
  <2>2. CASE ~open
    <3>1. rest \o <<>> = rest
      BY <1>15, ConcatEmptySeq DEF IsSequence
    <3> QED BY <1>3, <2>2, <3>1
  <2> QED BY <2>1, <2>2
<1>18. Fresh(c) => \A g \in HandlesOf(c.caller, c.args) : \A j \in DOMAIN rest : ~IsOwn(g, rest[j])
  <2> SUFFICES ASSUME ~raced, NEW g \in HandlesOf(c.caller, c.args), NEW j \in DOMAIN rest,
                      IsOwn(g, rest[j])
               PROVE  FALSE
    BY <1>12 DEF Fresh, raced
  <2>1. g = h
    BY <1>12 DEF HandlesOf, ToSet
  <2>2. ~Renaming(h)
    OBVIOUS
  <2> QED BY <1>16, <2>1, <2>2 DEF Renaming, IsOwn
<1>19. OnTime(calls')
  <2>1. OnTime(Append(rest, c))
    BY <1>15, <1>18, OnTimeAppended
  <2> QED BY <1>15, <1>17, <2>1
<1>20. ASSUME NEW k \in DOMAIN calls'
       PROVE  WellAsked(calls'[k]) /\ WellAnswered(calls'[k])
  <2>1. calls'[k] = c \/ \E m \in DOMAIN calls : calls'[k] = calls[m]
    <3>1. CASE calls' = rest
      BY <1>16, <3>1
    <3>2. CASE calls' = Append(rest, c)
      <4>1. /\ IsSequence(calls') /\ Len(calls') = Len(rest) + 1
            /\ \A m \in 1 .. Len(rest) : calls'[m] = rest[m]
            /\ calls'[Len(rest) + 1] = c
        BY <1>15, <3>2, Appended
      <4>2. Len(rest) \in Nat /\ DOMAIN rest = 1 .. Len(rest) /\ DOMAIN calls' = 1 .. Len(rest) + 1
        BY <1>15, <4>1, LenProperties DEF IsSequence
      <4>3. CASE k \in DOMAIN rest
        <5>1. calls'[k] = rest[k]
          BY <4>1, <4>2, <4>3
        <5> QED BY <1>16, <4>3, <5>1
      <4>4. CASE k \notin DOMAIN rest
        BY <4>1, <4>2, <4>4
      <4> QED BY <4>3, <4>4
    <3> QED BY <1>17, <3>1, <3>2
  <2> QED BY <1>14, <2>1 DEF RequestInv
<1> QED BY <1>3, <1>4, <1>19, <1>20, RequestStep

\* A new label is a label.
LEMMA RelabelledExact ==
  ASSUME NEW x \in Entities \cup ThingIds, NEW c, IsConcept(x, c), Exact(x, c), NEW label \in Labels
  PROVE  /\ Exact(x, Relabelled(c, label)) /\ Relabelled(c, label).class = c.class
         /\ x \in TypeIds => Relabelled(c, label).label.scope = c.label.scope
<1>1. CASE x \in RuleIds
  <2>1. x \notin TypeIds /\ x \notin ThingIds
    BY <1>1, SchemaAssumption
  <2>2. PICK d : d = Relabelled(c, label)
    OBVIOUS
  <2>3. d = [c EXCEPT !.label = label]
    BY <1>1, <2>2 DEF IsConcept, IsRule, Relabelled
  <2>4. d \in Rules /\ d.class = c.class
    BY <1>1, <2>3 DEF Exact, Rules
  <2> QED BY <2>1, <2>2, <2>4 DEF Exact
<1>2. CASE x \in TypeIds
  <2>1. x \notin RuleIds /\ x \notin ThingIds
    BY <1>2, SchemaAssumption
  <2>2. PICK d, new : d = Relabelled(c, label) /\ new = Label(c.label.scope, label)
    OBVIOUS
  <2>3. d = [c EXCEPT !.label = new]
    BY <1>2, <2>2 DEF IsConcept, IsType, Relabelled
  <2>4. /\ new.scope = c.label.scope /\ new.name = label
        /\ new \in [scope : LabelsOrNull, name : LabelsOrNull]
    <3>1. c.label.scope \in LabelsOrNull
      BY <1>2 DEF Exact, Types
    <3> QED BY <2>2, <3>1 DEF Label, LabelsOrNull
  <2>5. d \in Types /\ d.class = c.class /\ d.label = new
    BY <1>2, <2>3, <2>4 DEF Exact, Types
  <2> QED BY <1>2, <2>1, <2>2, <2>4, <2>5 DEF Exact
<1>3. CASE x \in ThingIds
  <2>1. x \notin RuleIds /\ x \notin TypeIds
    BY <1>3, SchemaAssumption
  <2>2. c \in Things /\ DOMAIN c = {"class", "remote", "iid", "type"} /\ c.iid = x
    BY <1>3 DEF Exact, IsConcept, IsThing
  <2>3. PICK d, new : d = Relabelled(c, label) /\ d = [c EXCEPT !.label = new]
    <3>1. CASE c.class = "Rule"
      BY <3>1 DEF Relabelled
    <3>2. CASE c.class # "Rule"
      BY <3>2 DEF Relabelled
    <3> QED BY <3>1, <3>2
  <2>4. d \in Things /\ d.class = c.class /\ d.iid = c.iid
    BY <2>2, <2>3 DEF Things
  <2> QED BY <1>3, <2>1, <2>2, <2>3, <2>4 DEF Exact
<1> QED BY <1>1, <1>2, <1>3 DEF Entities

LEMMA ResumeRenameRequestInv ==
  ASSUME CallInv, RequestInv, NEW i \in DOMAIN calls, Resume(i), calls[i].name = "setLabel"
  PROVE  RequestInv'
<1>1. PICK g, label : g = calls[i].caller /\ label = calls[i].request.fields.label
  OBVIOUS
<1>2. /\ calls' = RemoveAt(calls, i) /\ calls[i].stage = "answered" /\ meant' = meant
      /\ concepts' = [concepts EXCEPT ![g] = Relabelled(concepts[g], label)]
  BY <1>1 DEF Resume
<1>3. AllExact /\ OnTime(calls) /\ IsSequence(calls) /\ AreCalls(calls)
  BY DEF RequestInv, CallInv, CallsOK, AreCalls
<1>4. g \in Handle /\ label \in Labels /\ IsOwn(g, calls[i])
  <2>1. WellAsked(calls[i]) /\ IsCall(calls[i])
    BY <1>3 DEF RequestInv, AreCalls
  <2> QED BY <1>1, <2>1 DEF WellAsked, IsCall, IsOwn
<1>5. DOMAIN concepts = Handle /\ meant[g] \in Entities \cup ThingIds /\ IsConcept(meant[g], concepts[g])
  BY <1>4 DEF CallInv, Domains, ConceptsOK
<1>6. /\ concepts'[g] = Relabelled(concepts[g], label)
      /\ \A h \in Handle : h # g => concepts'[h] = concepts[h]
  BY <1>2, <1>4, <1>5
<1>7. /\ Exact(meant[g], concepts'[g]) /\ concepts'[g].class = concepts[g].class
      /\ meant[g] \in TypeIds => concepts'[g].label.scope = concepts[g].label.scope
  <2>1. Exact(meant[g], concepts[g])
    BY <1>3, <1>4 DEF AllExact
  <2> QED BY <1>4, <1>5, <1>6, <2>1, RelabelledExact
<1>8. AllExact'
  <2> SUFFICES ASSUME NEW h \in Handle PROVE Exact(meant[h], concepts'[h])
    BY <1>2 DEF AllExact
  <2>1. CASE h = g
    BY <1>7, <2>1
  <2>2. CASE h # g
    <3>1. Exact(meant[h], concepts[h])
      BY <1>3 DEF AllExact
    <3> QED BY <1>6, <2>2, <3>1
  <2> QED BY <2>1, <2>2
<1>9. /\ \A h \in Handle : concepts'[h].class = concepts[h].class
      /\ \A h \in Handle : meant[h] \in TypeIds => concepts'[h].label.scope = concepts[h].label.scope
  BY <1>6, <1>7
<1>10. OnTime(calls)'
  <2>1. \E f : Follows(calls, calls', f)
    BY <1>2, <1>3, RemovedFollows
  <2>2. OnTime(calls')
    BY <1>3, <2>1, OnTimeFollows
  <2> QED BY <2>2 DEF OnTime, Fresh, IsOwn
<1>11. \A k \in DOMAIN calls' : \E m \in DOMAIN calls : m # i /\ calls'[k] = calls[m]
  BY <1>2, <1>3, RemovedFollows
<1>12. ASSUME NEW m \in DOMAIN calls, Fresh(calls[m]), g \in HandlesOf(calls[m].caller, calls[m].args)
       PROVE  FALSE
  <2>1. calls[m].stage = "sent"
    BY <1>12 DEF Fresh
  <2>2. ~(m < i)
    BY <1>2, <1>3, <2>1 DEF AreCalls
  <2>3. ~(i < m)
    BY <1>3, <1>4, <1>12 DEF OnTime
  <2>4. i # m
    BY <1>2, <2>1
  <2>5. i \in Nat /\ m \in Nat
    <3>1. Len(calls) \in Nat /\ DOMAIN calls = 1 .. Len(calls)
      BY <1>3, LenProperties DEF IsSequence
    <3> QED BY <3>1
  <2> QED BY <2>2, <2>3, <2>4, <2>5
<1>13. ASSUME NEW k \in DOMAIN calls'
       PROVE  WellAsked(calls[k])' /\ WellAnswered(calls[k])'
  <2>1. PICK m \in DOMAIN calls : calls'[k] = calls[m]
    BY <1>11
  <2>2. WellAsked(calls'[k]) /\ WellAnswered(calls'[k])
    BY <2>1 DEF RequestInv
  <2>3. Fresh(calls'[k]) => \A h \in HandlesOf(calls'[k].caller, calls'[k].args) :
                               Named(h) => concepts'[h].label = concepts[h].label
    <3> SUFFICES ASSUME Fresh(calls[m]), NEW h \in HandlesOf(calls[m].caller, calls[m].args)
                 PROVE  concepts'[h].label = concepts[h].label
      BY <2>1
    <3>1. h # g
      BY <1>12
    <3>2. h \in Handle
      BY DEF HandlesOf
    <3> QED BY <1>6, <3>1, <3>2
  <2>4. WellAsked(calls[k])'
    BY <1>2, <1>9, <2>2, <2>3, AskedKept
  <2>5. WellAnswered(calls[k])'
    <3>1. CASE calls'[k].caller \in Handle
      BY <1>9, <2>2, <3>1, AnswerKept
    <3>2. CASE calls'[k].caller \notin Handle
      <4>1. calls'[k].name # "isDeleted"
        BY <2>2, <3>2 DEF WellAsked
      <4> QED BY <4>1 DEF WellAnswered
    <3> QED BY <3>1, <3>2
  <2> QED BY <2>4, <2>5
<1> QED BY <1>8, <1>10, <1>13 DEF RequestInv

LEMMA CastRequestInv ==
  ASSUME CallInv, RequestInv, NEW h \in Handle, NEW class \in DOMAIN Superclass, Cast(h, class)
  PROVE  RequestInv'
<1>1. PICK c, x, d : c = concepts[h] /\ x = meant[h] /\ d = [c EXCEPT !.class = class]
  OBVIOUS
<1>2. /\ concepts' = [concepts EXCEPT ![h] = d] /\ calls' = calls /\ meant' = meant
      /\ IsOfValueType(c, class) /\ \A k \in DOMAIN calls : calls[k].caller # h
  <2>1. ~Throws(As(c, class)) /\ As(c, class) # c
    BY <1>1 DEF Cast
  <2>2. Throws(Error("INVALID_CONCEPT_CASTING"))
    <3>1. Error("INVALID_CONCEPT_CASTING") # Null
      BY NullIsNoError DEF ErrorCodes
    <3> QED BY <3>1 DEF Throws, Error
  <2>3. ~Is(c, class)
    BY <2>1 DEF As
  <2>4. IsOfValueType(c, class)
    BY <2>1, <2>2, <2>3 DEF As
  <2>5. As(c, class) = d
    BY <1>1, <2>3, <2>4 DEF As
  <2> QED BY <1>1, <2>4, <2>5 DEF Cast
<1>3. AllExact /\ OnTime(calls) /\ DOMAIN concepts = Handle /\ Exact(x, c) /\ x \in Entities \cup ThingIds
  BY <1>1 DEF RequestInv, CallInv, Domains, AllExact
<1>4. Superclass[class] = "AttributeType" /\ "AttributeType" \in Lineage[c.class]
  BY <1>2 DEF IsOfValueType, Is
<1>5. Lineage[c.class] \cap Kinds = {KindOf(x)}
  BY <1>1, <1>3, OneKind
<1>6. KindOf(x) = "ThingType" /\ x \in TypeIds /\ x \notin RuleIds /\ x \notin ThingIds
  <2>1. c.class \in DOMAIN Superclass
    BY <1>3 DEF Exact, Entities, Types, Things, Rules
  <2>2. "ThingType" \in Lineage[c.class]
    BY <1>4, <2>1, KindAssumption
  <2>3. KindOf(x) = "ThingType"
    BY <1>5, <2>2 DEF Kinds
  <2> QED BY <1>3, <2>3 DEF KindOf, Entities
<1>7. "ThingType" \in Lineage[class]
  BY <1>4, KindAssumption
<1>8. d \in Types /\ d.class = class /\ d.label = c.label
  BY <1>1, <1>3, <1>6 DEF Exact, Types
<1>9. Exact(x, d)
  BY <1>3, <1>6, <1>7, <1>8 DEF Exact
<1>10. concepts'[h] = d /\ \A g \in Handle : g # h => concepts'[g] = concepts[g]
  BY <1>2, <1>3
<1>11. AllExact'
  <2> SUFFICES ASSUME NEW g \in Handle PROVE Exact(meant[g], concepts'[g])
    BY <1>2 DEF AllExact
  <2>1. CASE g = h
    BY <1>1, <1>9, <1>10, <2>1
  <2>2. CASE g # h
    <3>1. Exact(meant[g], concepts[g])
      BY <1>3 DEF AllExact
    <3> QED BY <1>10, <2>2, <3>1
  <2> QED BY <2>1, <2>2
<1>12. \A g \in Handle : concepts'[g].label = concepts[g].label
  BY <1>1, <1>8, <1>10
<1>13. OnTime(calls)'
  BY <1>2, <1>3 DEF OnTime, Fresh, IsOwn
<1>14. ASSUME NEW k \in DOMAIN calls'
       PROVE  WellAsked(calls[k])' /\ WellAnswered(calls[k])'
  <2>1. WellAsked(calls'[k]) /\ WellAnswered(calls'[k]) /\ calls'[k].caller # h
    BY <1>2 DEF RequestInv
  <2>2. calls'[k].caller \in Handle =>
           concepts'[calls'[k].caller].class = concepts[calls'[k].caller].class
    BY <1>10, <2>1
  <2>3. WellAsked(calls[k])'
    BY <1>2, <1>12, <2>1, <2>2, AskedKept
  <2>4. WellAnswered(calls[k])'
    <3>1. CASE calls'[k].caller \in Handle
      BY <2>1, <2>2, <3>1, AnswerKept
    <3>2. CASE calls'[k].caller \notin Handle
      <4>1. calls'[k].name # "isDeleted"
        BY <2>1, <3>2 DEF WellAsked
      <4> QED BY <4>1 DEF WellAnswered
    <3> QED BY <3>1, <3>2
  <2> QED BY <2>3, <2>4
<1> QED BY <1>11, <1>13, <1>14 DEF RequestInv

\* What the handles hold at the start.
LEMMA FirstExactType ==
  ASSUME Init, CallInv, ServerInv, NEW t \in TypeIds
  PROVE  Exact(t, AsRemote(TypeOf(TypeProto(t))))
<1>1. PICK p, c, d : p = TypeProto(t) /\ c = TypeOf(p) /\ d = AsRemote(c)
  OBVIOUS
<1>2. /\ p \in Protos /\ p # Null /\ p.encoding = Schema[t].encoding
      /\ p.valueType = Schema[t].valueType
  BY <1>1, ServedType
<1>3. d.label = Label(ScopeName(t), names[t])
  BY <1>1, FirstTypes
<1>4. t \notin RuleIds /\ t \notin ThingIds
  BY SchemaAssumption
<1>5. c \in Types /\ KindOf(t) \in Lineage[c.class]
  <2>1. CASE IsRole(t)
    <3>1. c = RoleTypeOf(p)
      BY <1>1, <1>2, <2>1 DEF TypeOf, IsRole
    <3>2. c \in Types /\ c.class = "RoleType"
      BY <1>2, <3>1, RoleTypeMade
    <3>3. KindOf(t) = "RoleType"
      BY <1>4, <2>1 DEF KindOf
    <3> QED BY <3>2, <3>3, KindAssumption
  <2>2. CASE ~IsRole(t)
    <3>1. c = ThingTypeOf(p)
      BY <1>1, <1>2, <2>2 DEF TypeOf, IsRole
    <3>2. c \in Types /\ "ThingType" \in Lineage[c.class]
      BY <1>2, <2>2, <3>1, ThingTypeMade
    <3>3. KindOf(t) = "ThingType"
      BY <1>4, <2>2 DEF KindOf
    <3> QED BY <3>2, <3>3
  <2> QED BY <2>1, <2>2
<1>6. d \in Types /\ d.class = c.class
  BY <1>1, <1>5 DEF AsRemote, Types
<1>7. names[t] \in Labels
  <2>1. names[t] = Schema[t].name
    BY <1>4 DEF Init
  <2> QED BY <2>1, Zenon DEF Labels
<1>8. ~IsRole(t) => ScopeName(t) = Null
  BY Scopes DEF IsRole
<1>9. d.label.name = names[t] /\ d.label.scope = ScopeName(t)
  BY <1>3 DEF Label
<1> QED BY <1>1, <1>4, <1>5, <1>6, <1>7, <1>8, <1>9 DEF Exact

LEMMA FirstExactThing ==
  ASSUME CallInv, ServerInv, NEW i \in ThingIds
  PROVE  Exact(i, AsRemote(ThingOf(ProtoOfThing(i))))
<1>1. PICK c, d : c = ThingOf(ProtoOfThing(i)) /\ d = AsRemote(c)
  OBVIOUS
<1>2. c \in Things /\ c.iid = i /\ "Thing" \in Lineage[c.class]
  BY <1>1, ThingMade
<1>3. d \in Things /\ d.class = c.class /\ d.iid = c.iid
  BY <1>1, <1>2 DEF AsRemote, Things
<1>4. i \notin RuleIds /\ i \notin TypeIds
  BY SchemaAssumption
<1> QED BY <1>1, <1>2, <1>3, <1>4 DEF Exact, KindOf

LEMMA FirstExactRule ==
  ASSUME Init, NEW r \in RuleIds
  PROVE  Exact(r, AsRemote(RuleOf(RuleProto(r))))
<1>1. PICK c, d : c = RuleOf(RuleProto(r)) /\ d = AsRemote(c)
  OBVIOUS
<1>2. r \notin TypeIds /\ r \notin ThingIds
  BY SchemaAssumption
<1>3. names[r] \in Labels
  <2>1. names[r] = Rule[r]
    BY DEF Init
  <2> QED BY <2>1, Zenon DEF Labels
<1>4. c \in Rules /\ "Rule" \in Lineage[c.class]
  BY <1>1, <1>3, RuleMade DEF RuleProto
<1>5. d \in Rules /\ d.class = c.class
  BY <1>1, <1>4 DEF AsRemote, Rules
<1> QED BY <1>1, <1>2, <1>4, <1>5 DEF Exact, KindOf

LEMMA InitRequestInv == Init => RequestInv
<1> SUFFICES ASSUME Init PROVE RequestInv
  OBVIOUS
<1>1. CallInv /\ ServerInv
  BY InitCallInv, InitServerInv
<1>2. AllExact
  <2> SUFFICES ASSUME NEW h \in Handle PROVE Exact(meant[h], concepts[h])
    BY DEF AllExact
  <2>0. PICK x : x = meant[h]
    OBVIOUS
  <2>1. x \in Entities \cup ThingIds
    BY <1>1, <2>0 DEF CallInv, Domains
  <2>2. concepts[h] = AsRemote(
           CASE x \in RuleIds -> RuleOf(RuleProto(x))
             [] x \in ThingIds -> ThingOf(ProtoOfThing(x))
             [] x \in TypeIds -> TypeOf(TypeProto(x)))
    BY <2>0 DEF Init
  <2>3. CASE x \in RuleIds
    <3>1. x \notin TypeIds /\ x \notin ThingIds
      BY <2>3, SchemaAssumption
    <3>2. concepts[h] = AsRemote(RuleOf(RuleProto(x)))
      BY <2>2, <2>3, <3>1
    <3> QED BY <2>0, <2>3, <3>2, FirstExactRule
  <2>4. CASE x \in ThingIds
    <3>1. x \notin TypeIds /\ x \notin RuleIds
      BY <2>4, SchemaAssumption
    <3>2. concepts[h] = AsRemote(ThingOf(ProtoOfThing(x)))
      BY <2>2, <2>4, <3>1
    <3> QED BY <1>1, <2>0, <2>4, <3>2, FirstExactThing
  <2>5. CASE x \in TypeIds
    <3>1. x \notin ThingIds /\ x \notin RuleIds
      BY <2>5, SchemaAssumption
    <3>2. concepts[h] = AsRemote(TypeOf(TypeProto(x)))
      BY <2>2, <2>5, <3>1
    <3> QED BY <1>1, <2>0, <2>5, <3>2, FirstExactType
  <2> QED BY <2>1, <2>3, <2>4, <2>5 DEF Entities
<1>3. calls = <<>>
  BY DEF Init
<1> QED BY <1>2, <1>3 DEF RequestInv, OnTime

-----------------------------------------------------------------------------
(* The invariant of the requests, and what follows from it.                *)

ReachInv == CallInv /\ ServerInv /\ RequestInv

LEMMA AskedALabel == RequestInv => AskedLabels
BY DEF RequestInv, WellAsked, AskedLabels

LEMMA NextReachInv == ReachInv /\ [Next]_vars => ReachInv'
<1> SUFFICES ASSUME ReachInv, [Next]_vars PROVE ReachInv'
  OBVIOUS
<1>1. CallInv /\ ServerInv /\ RequestInv /\ AskedLabels
  BY AskedALabel DEF ReachInv
<1>2. CallInv'
  BY <1>1, NextCallInv
<1> SUFFICES ServerInv' /\ RequestInv'
  BY <1>2 DEF ReachInv
<1>3. ASSUME NEW h \in Handle, NEW class \in DOMAIN Superclass, Cast(h, class)
      PROVE  ServerInv' /\ RequestInv'
  <2>1. names' = names
    BY <1>3 DEF Cast
  <2> QED BY <1>1, <1>3, <2>1, ServerInvKept, CastRequestInv
<1>4. ASSUME NEW caller \in Handle \cup DOMAIN Managers, NEW name \in DOMAIN MethodsOf(caller),
             Call(caller, name)
      PROVE  ServerInv' /\ RequestInv'
  <2>1. names' = names
    BY <1>4 DEF Call
  <2> QED BY <1>1, <1>4, <2>1, ServerInvKept, CallRequestInv
<1>5. ASSUME NEW i \in DOMAIN calls, ServeRename(i)
      PROVE  ServerInv' /\ RequestInv'
  BY <1>1, <1>5, ServeRenameServerInv, ServeRenameRequestInv
<1>6. ASSUME NEW i \in DOMAIN calls, ServeDelete(i)
      PROVE  ServerInv' /\ RequestInv'
  BY <1>1, <1>6, ServeDeleteServerInv, ServeDeleteRequestInv
<1>7. ASSUME NEW i \in DOMAIN calls, ServeOther(i)
      PROVE  ServerInv' /\ RequestInv'
  <2>1. names' = names
    BY <1>7 DEF ServeOther
  <2> QED BY <1>1, <1>7, <2>1, ServerInvKept, ServeOtherRequestInv
<1>8. ASSUME NEW i \in DOMAIN calls, Refuse(i)
      PROVE  ServerInv' /\ RequestInv'
  <2>1. names' = names
    BY <1>8 DEF Refuse
  <2> QED BY <1>1, <1>8, <2>1, ServerInvKept, RefuseRequestInv
<1>9. ASSUME NEW i \in DOMAIN calls, ResumeHalfway(i)
      PROVE  ServerInv' /\ RequestInv'
  <2>1. names' = names
    BY <1>9 DEF ResumeHalfway
  <2> QED BY <1>1, <1>9, <2>1, ServerInvKept, ResumeHalfwayRequestInv
<1>10. ASSUME NEW i \in DOMAIN calls, Resume(i)
       PROVE  ServerInv' /\ RequestInv'
  <2>1. names' = names
    BY <1>10 DEF Resume
  <2>2. RequestInv'
    BY <1>1, <1>10, ResumeOtherRequestInv, ResumeRenameRequestInv
  <2> QED BY <1>1, <2>1, <2>2, ServerInvKept
<1>11. CASE UNCHANGED vars
  <2>1. names' = names /\ concepts' = concepts /\ meant' = meant /\ calls' = calls
    BY <1>11 DEF vars
  <2>2. AllExact /\ OnTime(calls')
    BY <1>1, <2>1 DEF RequestInv
  <2>3. \A k \in DOMAIN calls' : WellAsked(calls'[k]) /\ WellAnswered(calls'[k])
    BY <1>1, <2>1 DEF RequestInv
  <2> QED BY <1>1, <2>1, <2>2, <2>3, ServerInvKept, RequestStep
<1> QED BY <1>3, <1>4, <1>5, <1>6, <1>7, <1>8, <1>9, <1>10, <1>11 DEF Next

\* In every behaviour, names on the server stay unique, handles hold concepts
\* of the class of what they mean, and what a call asks for names it.
THEOREM ReachInvariance == Spec => []ReachInv
<1>1. Init => ReachInv
  BY InitCallInv, InitServerInv, InitRequestInv DEF ReachInv
<1> QED BY <1>1, NextReachInv, PTL DEF Spec

LEMMA ThingFound ==
  ASSUME NEW i \in alive, i \in ThingIds
  PROVE  ThingNamed(i) = i
<1>1. {i} \cap alive = {i} /\ Null \notin {i}
  BY SchemaAssumption
<1> QED BY <1>1, OrNullMember DEF ThingNamed

\* ReachesWhatItMeant (TypeImpl.ts:148, RequestBuilder.ts) in every behaviour:
\* the server takes a request that is next to be about what its caller means,
\* and the concepts among its arguments for what they are.
THEOREM ReachesAsMeant == Spec => []ReachesWhatItMeant
<1>1. ReachInv => ReachesWhatItMeant
  <2> SUFFICES ASSUME ReachInv, NEW i \in DOMAIN calls, First(i), ~calls[i].raced,
                      \A h \in HandlesOf(calls[i].caller, calls[i].args) : StillThere(h)
               PROVE  /\ calls[i].caller \in Handle /\ calls[i].request.on # OnManager
                            /\ calls[i].request.message # "getRelatesForRoleLabel" =>
                          Subject(calls[i].request.on) = meant[calls[i].caller]
                      /\ \A h \in ToSet(calls[i].args) \cap Handle :
                            \E reference \in References(calls[i].request) :
                               Denotes(reference) = meant[h]
    BY DEF ReachesWhatItMeant
  <2>1. CallInv /\ ServerInv /\ RequestInv /\ OnTime(calls) /\ AllExact
    BY DEF ReachInv, RequestInv
  <2>2. Says(calls[i])
    <3>1. Fresh(calls[i]) /\ WellAsked(calls[i])
      BY <2>1 DEF First, Fresh, RequestInv
    <3> QED BY <3>1 DEF WellAsked
  <2>3. ASSUME NEW h \in HandlesOf(calls[i].caller, calls[i].args)
        PROVE  /\ h \in Handle
               /\ meant[h] \in ThingIds => ThingNamed(meant[h]) = meant[h]
               /\ meant[h] \notin ThingIds => Subject(Own(h)) = meant[h]
    <3>1. StillThere(h) /\ h \in Handle
      BY DEF HandlesOf
    <3>2. ASSUME meant[h] \in ThingIds PROVE ThingNamed(meant[h]) = meant[h]
      BY <3>1, <3>2, ThingFound DEF StillThere, Exists
    <3>3. ASSUME meant[h] \notin ThingIds PROVE Subject(Own(h)) = meant[h]
      <4>1. Named(h)
        BY <3>3 DEF Named
      <4> QED BY <2>1, <3>1, <4>1, OwnFound
    <3> QED BY <3>1, <3>2, <3>3
  <2>4. ASSUME calls[i].caller \in Handle, calls[i].request.on # OnManager,
               calls[i].request.message # "getRelatesForRoleLabel"
        PROVE  Subject(calls[i].request.on) = meant[calls[i].caller]
    <3>1. PICK h : h = calls[i].caller
      OBVIOUS
    <3>2. h \in HandlesOf(calls[i].caller, calls[i].args)
      BY <2>4, <3>1 DEF HandlesOf
    <3>3. calls[i].request.on = OnOf(h)
      BY <2>2, <2>4, <3>1 DEF Says
    <3>4. CASE meant[h] \in ThingIds
      <4>1. Subject(OnThing(meant[h])) = meant[h]
        BY <2>3, <3>2, <3>4, SubjectOf
      <4> QED BY <3>1, <3>3, <3>4, <4>1 DEF OnOf
    <3>5. CASE meant[h] \notin ThingIds
      BY <2>3, <3>1, <3>2, <3>3, <3>5 DEF OnOf
    <3> QED BY <3>4, <3>5
  <2>5. ASSUME NEW h \in ToSet(calls[i].args) \cap Handle
        PROVE  \E reference \in References(calls[i].request) : Denotes(reference) = meant[h]
    <3>1. PICK reference \in References(calls[i].request) : RefersTo(reference, h)
      BY <2>2 DEF Says
    <3>2. h \in HandlesOf(calls[i].caller, calls[i].args)
      BY DEF HandlesOf
    <3>3. CASE meant[h] \in ThingIds
      <4>1. meant[h] \notin TypeIds
        BY <3>3, SchemaAssumption
      <4>2. "iid" \in DOMAIN reference /\ reference.iid = meant[h]
        BY <3>1, <3>3, <4>1 DEF RefersTo
      <4>3. ThingNamed(meant[h]) = meant[h]
        BY <2>3, <3>2, <3>3
      <4>4. Denotes(reference) = meant[h]
        BY <4>2, <4>3 DEF Denotes
      <4> QED BY <4>4
    <3>4. CASE meant[h] \notin ThingIds
      <4>1. /\ meant[h] \in TypeIds /\ meant[h] \notin RuleIds /\ "iid" \notin DOMAIN reference
            /\ Label(reference.scope, reference.label) = concepts[h].label
        BY <3>1, <3>4, SchemaAssumption DEF RefersTo
      <4>2. Subject(Own(h)) = meant[h] /\ Own(h) = OnType(concepts[h].label)
        BY <2>3, <3>2, <3>4, <4>1 DEF Own
      <4>3. Subject(OnType(concepts[h].label)) = TypeNamed(concepts[h].label.scope, concepts[h].label.name)
        BY SubjectOf
      <4>4. /\ concepts[h].label.scope = reference.scope
            /\ concepts[h].label.name = reference.label
        BY <4>1 DEF Label
      <4>5. Denotes(reference) = meant[h]
        BY <4>1, <4>2, <4>3, <4>4 DEF Denotes
      <4> QED BY <4>5
    <3> QED BY <3>3, <3>4
  <2> QED BY <2>4, <2>5
<1> QED BY <1>1, ReachInvariance, PTL

\* DeletedAsAnswered (ThingTypeImpl.ts:201, RoleTypeImpl.ts, ThingImpl.ts,
\* RuleImpl.ts) in every behaviour: what isDeleted() tells is what the server
\* had when it looked, or for the types that are no roles the opposite of it.
THEOREM DeletedIsAsAnswered == Spec => []DeletedAsAnswered
<1>1. ReachInv => DeletedAsAnswered
  <2> SUFFICES ASSUME ReachInv, NEW i \in DOMAIN calls, calls[i].stage = "answered",
                      calls[i].name = "isDeleted", ~Halfway(calls[i]), ~calls[i].stale
               PROVE  Outcome(calls[i]) = {IF Is(concepts[calls[i].caller], "ThingType")
                                           THEN calls[i].existed ELSE ~calls[i].existed}
    BY DEF DeletedAsAnswered
  <2>1. WellAnswered(calls[i])
    BY DEF ReachInv, RequestInv
  <2> QED BY <2>1 DEF WellAnswered, Told
<1> QED BY <1>1, ReachInvariance, PTL
=============================================================================
