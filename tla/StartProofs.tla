----------------------------- MODULE StartProofs -----------------------------
(***************************************************************************)
(* Which text counts: for every set of parameters, every order of the      *)
(* static objects and every content of environment, files and command      *)
(* line, a parameter in the loop has the value that was given last.        *)
(*                                                                         *)
(* The proof follows the call stack `todo`.  StartInv says what may be on  *)
(* it: calls that are in order (StackInv: the depth of the registry's lock *)
(* at each of them; LifeInv: what they construct is not there, what they   *)
(* destroy or copy is), on a registry whose lists of subscribers are       *)
(* complete (RegistryInv).  HeldInv says what it still owes: the options   *)
(* not yet stored are on it in their order (OptionsInv), and a value that  *)
(* is not what its parameter's texts amount to is the subject of a call    *)
(* that will set it (ValuesInv); copies are taken when no option of the    *)
(* files is left (CopiedInv).  When the stack is empty and the arguments   *)
(* are used up nothing is owed.                                            *)
(***************************************************************************)
EXTENDS Program, SequenceTheorems, TLAPS

\* s lists the elements of S, each of them once.
Lists(s, S) ==
    /\ s \in Seq(S)
    /\ \A j, k \in DOMAIN s : s[j] = s[k] => j = k
    /\ \A p \in S : \E k \in DOMAIN s : s[k] = p

\* What is listed.
LEMMA Listed ==
    ASSUME NEW S, NEW s, Lists(s, S)
    PROVE  /\ \A i \in DOMAIN s : s[i] \in S
           /\ \A i, j \in DOMAIN s : s[i] = s[j] => i = j
           /\ S = {s[i] : i \in DOMAIN s}
  <1>1. \A i \in DOMAIN s : s[i] \in S
    BY DEF Lists
  <1> QED
    BY <1>1 DEF Lists

\* Appending.
LEMMA ListsAppend ==
    ASSUME NEW S, NEW s, Lists(s, S), NEW p, p \notin S
    PROVE  Lists(Append(s, p), S \cup {p})
  <1> DEFINE t == Append(s, p)
  <1>1. /\ t \in Seq(S \cup {p}) /\ Len(t) = Len(s) + 1 /\ DOMAIN t = 1..Len(t) /\ DOMAIN s = 1..Len(s) /\ Len(s) \in Nat
        /\ \A k \in 1..Len(s) : t[k] = s[k] /\ s[k] \in S
        /\ t[Len(s) + 1] = p
    BY DEF Lists
  <1> QED
    BY <1>1 DEF Lists

\* t is s without its i-th element.
Lacks(t, s, i, S) ==
    /\ t \in Seq(S) /\ Len(t) = Len(s) - 1
    /\ \A k \in 1..Len(s) - 1 : t[k] = IF k < i THEN s[k] ELSE s[k + 1]

\* What is left of a list without its i-th element.
LEMMA RemovedAt ==
    ASSUME NEW S, NEW s \in Seq(S), NEW i \in 1..Len(s)
    PROVE  Lacks(RemoveAt(s, i), s, i, S)
  <1> DEFINE a == SubSeq(s, 1, i - 1)
             b == SubSeq(s, i + 1, Len(s))
  <1>1. Len(s) \in Nat /\ i \in Int /\ 1 <= i /\ i <= Len(s) /\ \A k \in 1..Len(s) : s[k] \in S
    BY LenProperties
  <1> PICK n \in Nat : n = Len(s)
    BY <1>1
  <1>2. /\ a \in Seq(S) /\ Len(a) = i - 1
        /\ \A k \in 1..i - 1 : a[k] = s[k]
    <2>1. \A k \in 1..i - 1 : s[k] \in S
      BY <1>1
    <2> QED
      BY <1>1, <2>1, SubSeqProperties
  <1>3. /\ b \in Seq(S) /\ Len(b) = n - i
        /\ \A k \in 1..n - i : b[k] = s[i + k]
    <2>1. \A k \in i + 1..n : s[k] \in S
      BY <1>1
    <2>2. /\ b \in Seq(S) /\ Len(b) = IF i + 1 <= n THEN n - (i + 1) + 1 ELSE 0
          /\ \A k \in 1..n - (i + 1) + 1 : b[k] = s[(i + 1) + k - 1]
      BY <1>1, <2>1, SubSeqProperties
    <2>3. n - (i + 1) + 1 = n - i /\ \A k \in 1..n - i : (i + 1) + k - 1 = i + k
      BY <1>1
    <2> QED
      BY <1>1, <2>2, <2>3
  <1> HIDE DEF a, b
  <1>4. /\ a \o b \in Seq(S) /\ Len(a \o b) = Len(a) + Len(b)
        /\ \A k \in 1..Len(a) + Len(b) : (a \o b)[k] = IF k <= Len(a) THEN a[k] ELSE b[k - Len(a)]
    BY <1>2, <1>3, ConcatProperties
  <1>5. Len(a) + Len(b) = n - 1
    BY <1>1, <1>2, <1>3
  <1>6. \A k \in 1..n - 1 : (a \o b)[k] = IF k < i THEN s[k] ELSE s[k + 1]
    <2> TAKE k \in 1..n - 1
    <2>1. CASE k < i
      BY <1>1, <1>2, <1>4, <1>5, <2>1
    <2>2. CASE k >= i
      <3>1. (a \o b)[k] = b[k - (i - 1)] /\ k - (i - 1) \in 1..n - i
        BY <1>1, <1>2, <1>4, <1>5, <2>2
      <3>2. i + (k - (i - 1)) = k + 1
        BY <1>1
      <3> QED
        BY <1>1, <1>3, <2>2, <3>1, <3>2
    <2>3. k < i \/ k >= i
      BY <1>1
    <2> QED
      BY <2>1, <2>2, <2>3, Zenon
  <1> QED
    <2>1. RemoveAt(s, i) = a \o b
      BY DEF RemoveAt, a, b
    <2>2. a \o b \in Seq(S) /\ Len(a \o b) = n - 1
      BY <1>1, <1>4, <1>5
    <2> HIDE DEF a, b
    <2>3. Lacks(a \o b, s, i, S)
      BY <1>6, <2>2 DEF Lacks
    <2> QED
      BY <2>1, <2>3

\* Erasing.
LEMMA ListsErase ==
    ASSUME NEW S, NEW s, Lists(s, S), NEW p \in S
    PROVE  Lists(RemoveFirst(s, p), S \ {p})
  <1>1. /\ s \in Seq(S) /\ DOMAIN s = 1..Len(s) /\ Len(s) \in Nat
        /\ \A k \in 1..Len(s) : s[k] \in S
        /\ \A j, k \in 1..Len(s) : s[j] = s[k] => j = k
        /\ \A q \in S : \E k \in 1..Len(s) : s[k] = q
    BY DEF Lists
  <1>2. PICK i \in 1..Len(s) : s[i] = p
    BY <1>1
  <1>3. SelectInSeq(s, LAMBDA v : v = p) = i
    <2>1. {k \in 1..Len(s) : s[k] = p} = {i}
      BY <1>1, <1>2
    <2>2. Min({i}) = i
      BY <1>2 DEF Min
    <2> QED
      BY <2>1, <2>2 DEF SelectInSeq
  <1>4. RemoveFirst(s, p) = RemoveAt(s, i)
    BY <1>2, <1>3 DEF RemoveFirst
  <1> DEFINE t == RemoveAt(s, i)
             From(k) == IF k < i THEN k ELSE k + 1
  <1>5. /\ t \in Seq(S) /\ DOMAIN t = 1..Len(s) - 1 /\ Len(t) = Len(s) - 1
        /\ \A k \in 1..Len(s) - 1 : t[k] = s[From(k)]
    <2>1. Lacks(t, s, i, S)
      BY <1>1, RemovedAt
    <2> HIDE DEF t
    <2>2. /\ t \in Seq(S) /\ Len(t) = Len(s) - 1
          /\ \A k \in 1..Len(s) - 1 : t[k] = IF k < i THEN s[k] ELSE s[k + 1]
      BY <2>1, Zenon DEF Lacks
    <2>3. DOMAIN t = 1..Len(s) - 1
      BY <2>2
    <2>4. ASSUME NEW k \in 1..Len(s) - 1 PROVE t[k] = s[From(k)]
      <3>1. t[k] = IF k < i THEN s[k] ELSE s[k + 1]
        BY <2>2
      <3> QED
        BY <3>1
    <2> QED
      BY <2>2, <2>3, <2>4, Zenon
  <1>6. \A k \in 1..Len(s) - 1 : From(k) \in 1..Len(s) /\ From(k) # i
    BY <1>1
  <1>7. \A j, k \in 1..Len(s) - 1 : From(j) = From(k) => j = k
    BY <1>1
  <1>8. \A k \in 1..Len(s) : k # i => \E j \in 1..Len(s) - 1 : From(j) = k
    <2> SUFFICES ASSUME NEW k \in 1..Len(s), k # i PROVE \E j \in 1..Len(s) - 1 : From(j) = k
      OBVIOUS
    <2>1. CASE k < i
      BY <1>1, <2>1
    <2>2. CASE k > i
      <3>1. k - 1 \in 1..Len(s) - 1 /\ From(k - 1) = k
        BY <1>1, <2>2
      <3> QED
        BY <3>1
    <2> QED
      BY <1>1, <2>1, <2>2
  <1> HIDE DEF t, From
  <1>9. ASSUME NEW k \in 1..Len(s) - 1 PROVE t[k] \in S \ {p}
    <2>1. t[k] = s[From(k)] /\ From(k) \in 1..Len(s) /\ From(k) # i
      BY <1>5, <1>6, Zenon
    <2> QED
      BY <1>1, <1>2, <2>1
  <1>10. t \in Seq(S \ {p})
    BY <1>1, <1>5, <1>9
  <1>11. \A j, k \in 1..Len(s) - 1 : t[j] = t[k] => j = k
    <2> TAKE j, k \in 1..Len(s) - 1
    <2>1. t[j] = s[From(j)] /\ t[k] = s[From(k)] /\ From(j) \in 1..Len(s) /\ From(k) \in 1..Len(s)
      BY <1>5, <1>6
    <2>2. s[From(j)] = s[From(k)] => From(j) = From(k)
      BY <1>1, <2>1
    <2> QED
      BY <1>7, <2>1, <2>2
  <1>12. \A q \in S \ {p} : \E k \in 1..Len(s) - 1 : t[k] = q
    <2> TAKE q \in S \ {p}
    <2>1. PICK k \in 1..Len(s) : s[k] = q
      BY <1>1
    <2>2. k # i
      BY <1>2, <2>1
    <2> QED
      BY <1>5, <1>8, <2>1, <2>2
  <1> QED
    BY <1>4, <1>5, <1>10, <1>11, <1>12 DEF Lists, t

\* Joining.
LEMMA Joined ==
    ASSUME NEW a, NEW b, NEW c
    PROVE  /\ (<<>> \o <<>>) \o <<c>> = <<c>>
           /\ (<<a>> \o <<>>) \o <<c>> = <<a, c>>
           /\ (<<>> \o <<b>>) \o <<c>> = <<b, c>>
           /\ (<<a>> \o <<b>>) \o <<c>> = <<a, b, c>>
  <1> PICK S : S = {a, b, c}
    OBVIOUS
  <1>1. <<a>> \in Seq(S) /\ <<b>> \in Seq(S) /\ <<c>> \in Seq(S) /\ <<>> \in Seq(S)
    OBVIOUS
  <1>2. <<>> \o <<>> = <<>> /\ <<a>> \o <<>> = <<a>> /\ <<>> \o <<b>> = <<b>>
    BY <1>1, ConcatEmptySeq
  <1>3. ASSUME NEW x \in S, NEW y \in S PROVE <<x>> \o <<y>> = <<x, y>>
    <2>1. /\ <<x>> \in Seq(S) /\ <<y>> \in Seq(S) /\ <<x, y>> \in Seq(S)
          /\ Len(<<x>>) = 1 /\ Len(<<y>>) = 1 /\ Len(<<x, y>>) = 2
          /\ <<x>>[1] = x /\ <<y>>[1] = y /\ <<x, y>>[1] = x /\ <<x, y>>[2] = y
      OBVIOUS
    <2>2. /\ <<x>> \o <<y>> \in Seq(S) /\ Len(<<x>> \o <<y>>) = 2
          /\ (<<x>> \o <<y>>)[1] = x /\ (<<x>> \o <<y>>)[2] = y
      BY <2>1, ConcatProperties
    <2>3. \A i \in 1..2 : (<<x>> \o <<y>>)[i] = <<x, y>>[i]
      BY <2>1, <2>2
    <2> QED
      BY <2>1, <2>2, <2>3, SeqEqual
  <1>4. <<a, b>> \o <<c>> = <<a, b, c>>
    <2>1. /\ <<a, b>> \in Seq(S) /\ <<c>> \in Seq(S) /\ <<a, b, c>> \in Seq(S)
          /\ Len(<<a, b>>) = 2 /\ Len(<<c>>) = 1 /\ Len(<<a, b, c>>) = 3
          /\ <<a, b>>[1] = a /\ <<a, b>>[2] = b /\ <<c>>[1] = c
          /\ <<a, b, c>>[1] = a /\ <<a, b, c>>[2] = b /\ <<a, b, c>>[3] = c
      OBVIOUS
    <2>2. /\ <<a, b>> \o <<c>> \in Seq(S) /\ Len(<<a, b>> \o <<c>>) = 3
          /\ (<<a, b>> \o <<c>>)[1] = a /\ (<<a, b>> \o <<c>>)[2] = b /\ (<<a, b>> \o <<c>>)[3] = c
      BY <2>1, ConcatProperties
    <2>3. \A i \in 1..3 : (<<a, b>> \o <<c>>)[i] = <<a, b, c>>[i]
      BY <2>1, <2>2
    <2> QED
      BY <2>1, <2>2, <2>3, SeqEqual
  <1> QED
    BY <1>1, <1>2, <1>3, <1>4, ConcatEmptySeq

-----------------------------------------------------------------------------
(* The call stack.                                                         *)

\* The calls there are.
Call == {Log(sev) : sev \in DOMAIN severity} \cup {Leave}
          \cup {Construct(p) : p \in Param} \cup {Copy(p) : p \in Param}
          \cup {Destroy(p) : p \in Param} \cup {Ready(p) : p \in LogParams}
          \cup {Parse(p, text) : p \in Param, text \in Text}
          \cup {Store(n, text) : n \in ParamName, text \in Text}

\* How often the registry's mutex may be held when a call is made.
Allowed(do, depth) ==
    /\ do \in {"store", "copy", "destroy"} => depth = 0
    /\ do \in {"construct", "log", "ready"} => depth <= 1
    /\ do \in {"parse", "leave"} => depth >= 1

\* While the mutex is held r times and n calls are to be made, t[k] of them the
\* k-th, it is held depth[k] times when that is made.
Depths(t, n, r, depth) ==
    /\ depth \in [1..n + 1 -> 0..2]
    /\ depth[1] = r /\ depth[n + 1] = 0
    /\ \A j, k \in 1..n + 1 : j <= k => depth[k] <= depth[j]
    /\ \A k \in 1..n :
          /\ depth[k] = IF t[k][1] = "leave" THEN depth[k + 1] + 1 ELSE depth[k + 1]
          /\ Allowed(t[k][1], depth[k])

StackInv == todo \in Seq(Call) /\ \E depth : Depths(todo, Len(todo), lock_recurse, depth)

\* What a call of a kind is about.
LEMMA CallParts ==
    ASSUME NEW c \in Call
    PROVE  /\ c[1] \in {"construct", "copy", "destroy"} => c[2] \in Param
           /\ c[1] = "ready" => c[2] \in LogParams
           /\ c[1] = "parse" => c[2] \in Param /\ c[3] \in Text
           /\ c[1] = "store" => c[2] \in ParamName /\ c[3] \in Text
  <1>1. CASE c \in {Log(sev) : sev \in DOMAIN severity} \cup {Leave}
    BY <1>1 DEF Log, Leave
  <1>2. CASE c \in {Construct(p) : p \in Param} \cup {Copy(p) : p \in Param} \cup {Destroy(p) : p \in Param}
    BY <1>2 DEF Construct, Copy, Destroy
  <1>3. CASE c \in {Ready(p) : p \in LogParams}
    BY <1>3 DEF Ready
  <1>4. CASE c \in {Parse(p, text) : p \in Param, text \in Text}
    BY <1>4 DEF Parse
  <1>5. CASE c \in {Store(n, text) : n \in ParamName, text \in Text}
    BY <1>5 DEF Store
  <1> QED
    BY <1>1, <1>2, <1>3, <1>4, <1>5 DEF Call

\* The calls made.
LEMMA CallsMade ==
    /\ Leave \in Call /\ Leave[1] = "leave"
    /\ \A sev \in DOMAIN severity : Log(sev) \in Call /\ Log(sev)[1] = "log"
    /\ \A p \in Param : /\ Construct(p) \in Call /\ Construct(p)[1] = "construct" /\ Construct(p)[2] = p
                        /\ Copy(p) \in Call /\ Copy(p)[1] = "copy" /\ Copy(p)[2] = p
                        /\ Destroy(p) \in Call /\ Destroy(p)[1] = "destroy" /\ Destroy(p)[2] = p
    /\ \A p \in LogParams : Ready(p) \in Call /\ Ready(p)[1] = "ready" /\ Ready(p)[2] = p
    /\ \A p \in Param, text \in Text :
          /\ Parse(p, text) \in Call /\ Parse(p, text)[1] = "parse"
          /\ Parse(p, text)[2] = p /\ Parse(p, text)[3] = text
    /\ \A n \in ParamName, text \in Text :
          /\ Store(n, text) \in Call /\ Store(n, text)[1] = "store"
          /\ Store(n, text)[2] = n /\ Store(n, text)[3] = text
  <1>1. Leave \in Call /\ Leave[1] = "leave"
    BY DEF Call, Leave
  <1>2. ASSUME NEW sev \in DOMAIN severity PROVE Log(sev) \in Call /\ Log(sev)[1] = "log"
    <2>1. Log(sev) \in Call
      BY DEF Call
    <2> QED
      BY <2>1 DEF Log
  <1>3. ASSUME NEW p \in Param
        PROVE  /\ Construct(p) \in Call /\ Construct(p)[1] = "construct" /\ Construct(p)[2] = p
               /\ Copy(p) \in Call /\ Copy(p)[1] = "copy" /\ Copy(p)[2] = p
               /\ Destroy(p) \in Call /\ Destroy(p)[1] = "destroy" /\ Destroy(p)[2] = p
    <2>1. Construct(p) \in Call /\ Copy(p) \in Call /\ Destroy(p) \in Call
      BY DEF Call
    <2> QED
      BY <2>1 DEF Construct, Copy, Destroy
  <1>4. ASSUME NEW p \in LogParams
        PROVE  Ready(p) \in Call /\ Ready(p)[1] = "ready" /\ Ready(p)[2] = p
    <2>1. Ready(p) \in Call
      BY DEF Call
    <2> QED
      BY <2>1 DEF Ready
  <1>5. ASSUME NEW p \in Param, NEW text \in Text
        PROVE  /\ Parse(p, text) \in Call /\ Parse(p, text)[1] = "parse"
               /\ Parse(p, text)[2] = p /\ Parse(p, text)[3] = text
    <2>1. Parse(p, text) \in Call
      BY DEF Call
    <2> QED
      BY <2>1 DEF Parse
  <1>6. ASSUME NEW n \in ParamName, NEW text \in Text
        PROVE  /\ Store(n, text) \in Call /\ Store(n, text)[1] = "store"
               /\ Store(n, text)[2] = n /\ Store(n, text)[3] = text
    <2>1. Store(n, text) \in Call
      BY DEF Call
    <2> QED
      BY <2>1 DEF Store
  <1> QED
    BY <1>1, <1>2, <1>3, <1>4, <1>5, <1>6

\* Where things are when the first call is replaced by others.
LEMMA Put ==
    ASSUME NEW S, NEW s \in Seq(S), s # <<>>, NEW calls \in Seq(S)
    PROVE  LET t == calls \o Tail(s)
           IN  /\ t \in Seq(S) /\ Len(t) = Len(calls) + Len(s) - 1
               /\ Len(t) \in Nat /\ Len(s) \in Nat \ {0} /\ Len(calls) \in Nat
               /\ DOMAIN t = 1..Len(t) /\ DOMAIN s = 1..Len(s) /\ DOMAIN calls = 1..Len(calls)
               /\ \A k \in 1..Len(calls) : t[k] = calls[k]
               /\ \A k \in Len(calls) + 1..Len(t) : t[k] = s[k - Len(calls) + 1]
               /\ \A k \in 2..Len(s) : t[k + Len(calls) - 1] = s[k]
  <1> DEFINE r == Tail(s)
             t == calls \o r
  <1>1. PICK n \in Nat \ {0} : n = Len(s)
    BY EmptySeq, LenProperties
  <1>2. PICK m \in Nat : m = Len(calls)
    BY LenProperties
  <1>3. DOMAIN s = 1..n /\ DOMAIN calls = 1..m
    BY <1>1, <1>2, LenProperties
  <1>4. r \in Seq(S) /\ Len(r) = n - 1 /\ \A k \in 1..n - 1 : r[k] = s[k + 1]
    BY <1>1, HeadTailProperties
  <1> HIDE DEF r
  <1>5. /\ t \in Seq(S) /\ Len(t) = m + (n - 1)
        /\ \A k \in 1..m + (n - 1) : t[k] = IF k <= m THEN calls[k] ELSE r[k - m]
    <2>1. /\ t \in Seq(S) /\ Len(t) = Len(calls) + Len(r)
          /\ \A k \in 1..Len(calls) + Len(r) :
                t[k] = IF k <= Len(calls) THEN calls[k] ELSE r[k - Len(calls)]
      BY <1>4, ConcatProperties, Zenon
    <2> QED
      BY <1>2, <1>4, <2>1
  <1>6. DOMAIN t = 1..Len(t)
    BY <1>5, LenProperties
  <1> HIDE DEF t
  <1>7. ASSUME NEW k \in 1..m PROVE t[k] = calls[k]
    BY <1>5
  <1>8. ASSUME NEW k \in m + 1..m + (n - 1) PROVE t[k] = s[k - m + 1]
    <2>1. k \in 1..m + (n - 1) /\ ~(k <= m) /\ k - m \in 1..n - 1
      OBVIOUS
    <2> QED
      BY <1>4, <1>5, <2>1
  <1>9. ASSUME NEW k \in 2..n PROVE t[k + m - 1] = s[k]
    <2>1. k + m - 1 \in m + 1..m + (n - 1) /\ (k + m - 1) - m + 1 = k
      OBVIOUS
    <2> QED
      BY <1>8, <2>1
  <1>10. Len(t) = m + n - 1 /\ Len(t) \in Nat
    BY <1>5
  <1> QED
    BY <1>1, <1>2, <1>3, <1>5, <1>6, <1>7, <1>8, <1>9, <1>10 DEF t, r

\* New is what the first of the n calls t becomes: the m calls and the rest.
Shifted(new, calls, m, t, n) ==
    /\ \A k \in 1..m : new[k] = calls[k]
    /\ \A k \in m + 1..m + n - 1 : new[k] = t[k - m + 1]

\* The m calls may be made with the mutex held u times, and held d times when
\* they have been.
Fitting(calls, m, u, d) ==
    /\ u \in 0..2
    /\ m = 0 => u = d
    /\ m # 0 => u = IF calls[m][1] = "leave" THEN d + 1 ELSE d
    /\ \A k \in 1..m : calls[k][1] = "leave" => k = m
    /\ \A k \in 1..m : Allowed(calls[k][1], u)

\* The depth of what is put in front.
LEMMA DepthsPut ==
    ASSUME NEW n \in Nat \ {0}, NEW t, NEW r, NEW depth, Depths(t, n, r, depth),
           NEW m \in Nat, NEW calls, NEW new, Shifted(new, calls, m, t, n),
           NEW u, Fitting(calls, m, u, depth[2])
    PROVE  \E e : Depths(new, m + n - 1, u, e)
  <1>0. /\ u \in 0..2
        /\ m = 0 => u = depth[2]
        /\ m # 0 => u = IF calls[m][1] = "leave" THEN depth[2] + 1 ELSE depth[2]
        /\ \A k \in 1..m : calls[k][1] = "leave" => k = m
        /\ \A k \in 1..m : Allowed(calls[k][1], u)
        /\ \A k \in 1..m : new[k] = calls[k]
        /\ \A k \in m + 1..m + n - 1 : new[k] = t[k - m + 1]
    BY DEF Fitting, Shifted
  <1> PICK w \in Nat : w = m + n - 1
    OBVIOUS
  <1> PICK e : e = [k \in 1..w + 1 |-> IF k <= m THEN u ELSE depth[k - m + 1]]
    OBVIOUS
  <1>1. /\ depth \in [1..n + 1 -> 0..2] /\ depth[n + 1] = 0
        /\ \A j, k \in 1..n + 1 : j <= k => depth[k] <= depth[j]
        /\ \A k \in 1..n : depth[k] = IF t[k][1] = "leave" THEN depth[k + 1] + 1 ELSE depth[k + 1]
        /\ \A k \in 1..n : Allowed(t[k][1], depth[k])
    BY DEF Depths
  <1>2. \A k \in m + 1..w + 1 : k - m + 1 \in 2..n + 1 /\ e[k] = depth[k - m + 1] /\ e[k] \in 0..2
    BY <1>0, <1>1
  <1>3. \A k \in 1..m : e[k] = u
    BY <1>0
  <1>4. e \in [1..w + 1 -> 0..2]
    <2>1. ASSUME NEW k \in 1..w + 1 PROVE e[k] \in 0..2
      <3>1. k \in 1..m \/ k \in m + 1..w + 1
        OBVIOUS
      <3> QED
        BY <1>0, <1>2, <1>3, <3>1
    <2> QED
      BY <1>0, <2>1
  <1>5. depth[2] \in 0..2 /\ depth[2] <= u /\ e[1] = u /\ e[w + 1] = 0
    BY <1>0, <1>1, <1>2, <1>3
  <1>6. \A j, k \in 1..w + 1 : j <= k => e[k] <= e[j]
    <2> SUFFICES ASSUME NEW j \in 1..w + 1, NEW k \in 1..w + 1, j <= k PROVE e[k] <= e[j]
      OBVIOUS
    <2>1. CASE k <= m
      BY <1>0, <1>3, <2>1
    <2>2. CASE j > m
      <3>1. e[j] = depth[j - m + 1] /\ e[k] = depth[k - m + 1]
        BY <1>0, <1>2, <2>2
      <3>2. j - m + 1 \in 1..n + 1 /\ k - m + 1 \in 1..n + 1 /\ j - m + 1 <= k - m + 1
        BY <1>0, <2>2
      <3> QED
        BY <1>0, <1>1, <3>1, <3>2
    <2>3. CASE j <= m /\ k > m
      <3>1. e[k] = depth[k - m + 1] /\ k - m + 1 \in 1..n + 1 /\ 2 <= k - m + 1 /\ 2 \in 1..n + 1
        BY <1>0, <1>2, <2>3
      <3>2. e[k] <= depth[2]
        BY <1>0, <1>1, <3>1
      <3>3. e[j] = u
        BY <1>0, <1>3, <2>3
      <3>4. e[k] \in 0..2
        BY <1>0, <1>4
      <3> QED
        BY <1>0, <1>5, <3>2, <3>3, <3>4
    <2> QED
      BY <2>1, <2>2, <2>3
  <1>7. ASSUME NEW k \in 1..w
        PROVE  /\ e[k] = IF new[k][1] = "leave" THEN e[k + 1] + 1 ELSE e[k + 1]
               /\ Allowed(new[k][1], e[k])
    <2>1. CASE k < m
      <3>1. k \in 1..m /\ k + 1 \in 1..m /\ k # m
        BY <1>0, <2>1
      <3>2. e[k] = u /\ e[k + 1] = u /\ new[k] = calls[k] /\ calls[k][1] # "leave" /\ Allowed(calls[k][1], u)
        BY <1>0, <1>3, <3>1
      <3> QED
        BY <3>2
    <2>2. CASE k = m
      <3>1. e[k + 1] = depth[2] /\ e[k] = u /\ new[k] = calls[k]
        BY <1>0, <1>2, <1>3, <2>2
      <3> QED
        BY <1>0, <2>2, <3>1
    <2>3. CASE k > m
      <3>1. e[k] = depth[k - m + 1] /\ e[k + 1] = depth[(k - m + 1) + 1] /\ new[k] = t[k - m + 1]
        BY <1>0, <1>2, <2>3
      <3>2. k - m + 1 \in 1..n
        BY <2>3
      <3> QED
        BY <1>0, <1>1, <3>1, <3>2
    <2> QED
      BY <2>1, <2>2, <2>3
  <1>8. Depths(new, w, u, e)
    BY <1>0, <1>4, <1>5, <1>6, <1>7 DEF Depths
  <1> QED
    BY <1>0, <1>8

\* The first call is made and these come in its place.
Replaced(calls) ==
    /\ todo \in Seq(Call) /\ todo # <<>> /\ calls \in Seq(Call)
    /\ todo' = calls \o Tail(todo)

\* The stack when its first call is replaced by others.
LEMMA StackPut ==
    ASSUME NEW depth, Depths(todo, Len(todo), lock_recurse, depth),
           NEW calls, Replaced(calls), Fitting(calls, Len(calls), lock_recurse', depth[2])
    PROVE  StackInv'
  <1>1. /\ todo' \in Seq(Call) /\ Len(todo') = Len(calls) + Len(todo) - 1
        /\ Len(todo) \in Nat \ {0} /\ Len(calls) \in Nat
        /\ Shifted(todo', calls, Len(calls), todo, Len(todo))
    BY Put DEF Replaced, Shifted
  <1>2. \E e : Depths(todo', Len(calls) + Len(todo) - 1, lock_recurse', e)
    BY <1>1, DepthsPut
  <1> QED
    BY <1>1, <1>2 DEF StackInv

\* What the registry holds fits together.
RegistryInv ==
    /\ environment \in [ParamName -> Text \cup {Unset}]
    /\ stored \in [ParamName -> Text \cup {Unset}]
    /\ DOMAIN live \subseteq Param /\ \A p \in DOMAIN live : live[p] \in ValuesOf(p)
    /\ DOMAIN copied \subseteq Param /\ \A p \in DOMAIN copied : copied[p] \in ValuesOf(p)
    /\ Lists(constructed, DOMAIN live)
    /\ DOMAIN subscribers = ParamName
    /\ \A n \in ParamName : Lists(subscribers[n], {p \in DOMAIN live : NameOf[p] = n})
    /\ static \in [LogParams -> {"none", "running", "done"}]

\* The first call.
LEMMA First ==
    ASSUME StackInv, todo # <<>>
    PROVE  /\ todo \in Seq(Call) /\ Len(todo) \in Nat \ {0} /\ DOMAIN todo = 1..Len(todo)
           /\ Head(todo) = todo[1] /\ todo[1] \in Call /\ \A k \in 1..Len(todo) : todo[k] \in Call
           /\ <<>> \in Seq(Call) /\ Len(<<>>) = 0 /\ <<>> \o Tail(todo) = Tail(todo)
  BY DEF StackInv

\* A parameter's construction calls the parser at most twice, for what the
\* environment says and for what is stored.
ConstructPuts(calls, m, p, env, text) ==
    /\ Replaced(calls) /\ m \in 1..3 /\ m = Len(calls) /\ calls[m][1] = "leave"
    /\ \A k \in 1..m - 1 : calls[k][1] = "parse" /\ calls[k][2] = p
    /\ m = 1 <=> env = Unset /\ text = Unset
    /\ m > 1 => calls[m - 1][3] = IF text # Unset THEN text ELSE env
    /\ text = Unset => m <= 2

\* The calls of a construction.
LEMMA ConstructCalls ==
    ASSUME StackInv, RegistryInv, ConfigAssumption, ConstructStep
    PROVE  /\ todo # <<>> /\ todo[1][1] = "construct" /\ Object \in Param /\ Object = todo[1][2]
           /\ \E calls, m : ConstructPuts(calls, m, Object, environment[NameOf[Object]], stored[NameOf[Object]])
  <1> DEFINE p    == todo[1][2]
             env  == environment[NameOf[p]]
             text == stored[NameOf[p]]
  <1>1. /\ todo # <<>> /\ todo[1][1] = "construct" /\ p \in Param /\ Object = p
        /\ todo' = (Initial(p) \o <<Leave>>) \o Tail(todo)
    BY First, CallParts DEF ConstructStep, Now, Object, Then
  <1>2. env \in Text \cup {Unset} /\ text \in Text \cup {Unset}
    BY <1>1 DEF RegistryInv, ConfigAssumption
  <1>3. Leave \in Call /\ Leave[1] = "leave"
    BY CallsMade
  <1>4. /\ env \in Text => Parse(p, env) \in Call /\ Parse(p, env)[1] = "parse" /\ Parse(p, env)[2] = p /\ Parse(p, env)[3] = env
        /\ text \in Text => Parse(p, text) \in Call /\ Parse(p, text)[1] = "parse" /\ Parse(p, text)[2] = p /\ Parse(p, text)[3] = text
    BY <1>1, CallsMade
  <1>5. Initial(p) = (IF env = Unset THEN <<>> ELSE <<Parse(p, env)>>) \o (IF text = Unset THEN <<>> ELSE <<Parse(p, text)>>)
    BY DEF Initial, Given
  <1>6. todo \in Seq(Call)
    BY DEF StackInv
  <1> HIDE DEF p, env, text
  <1> PICK a, b, c : a = Parse(p, env) /\ b = Parse(p, text) /\ c = Leave
    OBVIOUS
  <1> SUFFICES \E calls, m : ConstructPuts(calls, m, p, env, text)
    BY <1>1 DEF p, env, text
  <1>6a. ASSUME NEW calls \in Seq(Call), Initial(p) \o <<Leave>> = calls PROVE Replaced(calls)
    BY <1>1, <1>6, <1>6a DEF Replaced
  <1>7. CASE env = Unset /\ text = Unset
    <2>1. Initial(p) \o <<Leave>> = <<c>>
      BY <1>5, <1>7, Joined
    <2>2. <<c>> \in Seq(Call) /\ Len(<<c>>) = 1 /\ <<c>>[1] = c
      BY <1>3
    <2>3. Replaced(<<c>>)
      BY <1>6a, <2>1, <2>2
    <2>5. PICK calls, m : calls = <<c>> /\ m = 1
      OBVIOUS
    <2>6. ConstructPuts(calls, m, p, env, text)
      BY <1>3, <1>7, <2>2, <2>3, <2>5 DEF ConstructPuts
    <2> QED
      BY <2>6
  <1>8. CASE env # Unset /\ text = Unset
    <2>1. Initial(p) \o <<Leave>> = <<a, c>>
      BY <1>5, <1>8, Joined
    <2>2. a \in Call /\ c \in Call /\ a[1] = "parse" /\ a[2] = p /\ a[3] = env /\ c[1] = "leave"
      BY <1>2, <1>3, <1>4, <1>8
    <2>3. <<a, c>> \in Seq(Call) /\ Len(<<a, c>>) = 2 /\ <<a, c>>[1] = a /\ <<a, c>>[2] = c
      BY <2>2
    <2>4. Replaced(<<a, c>>)
      BY <1>6a, <2>1, <2>3
    <2>5. PICK calls, m : calls = <<a, c>> /\ m = 2
      OBVIOUS
    <2>6. ConstructPuts(calls, m, p, env, text)
      BY <1>8, <2>2, <2>3, <2>4, <2>5 DEF ConstructPuts
    <2> QED
      BY <2>6
  <1>9. CASE env = Unset /\ text # Unset
    <2>1. Initial(p) \o <<Leave>> = <<b, c>>
      BY <1>5, <1>9, Joined
    <2>2. b \in Call /\ c \in Call /\ b[1] = "parse" /\ b[2] = p /\ b[3] = text /\ c[1] = "leave"
      BY <1>2, <1>3, <1>4, <1>9
    <2>3. <<b, c>> \in Seq(Call) /\ Len(<<b, c>>) = 2 /\ <<b, c>>[1] = b /\ <<b, c>>[2] = c
      BY <2>2
    <2>4. Replaced(<<b, c>>)
      BY <1>6a, <2>1, <2>3
    <2>5. PICK calls, m : calls = <<b, c>> /\ m = 2
      OBVIOUS
    <2>6. ConstructPuts(calls, m, p, env, text)
      BY <1>9, <2>2, <2>3, <2>4, <2>5 DEF ConstructPuts
    <2> QED
      BY <2>6
  <1>10. CASE env # Unset /\ text # Unset
    <2>1. Initial(p) \o <<Leave>> = <<a, b, c>>
      BY <1>5, <1>10, Joined
    <2>2. /\ a \in Call /\ b \in Call /\ c \in Call /\ a[1] = "parse" /\ a[2] = p /\ c[1] = "leave"
          /\ b[1] = "parse" /\ b[2] = p /\ b[3] = text
      BY <1>2, <1>3, <1>4, <1>10
    <2>3. /\ <<a, b, c>> \in Seq(Call) /\ Len(<<a, b, c>>) = 3
          /\ <<a, b, c>>[1] = a /\ <<a, b, c>>[2] = b /\ <<a, b, c>>[3] = c
      BY <2>2
    <2>4. Replaced(<<a, b, c>>)
      BY <1>6a, <2>1, <2>3
    <2>5. PICK calls, m : calls = <<a, b, c>> /\ m = 3
      OBVIOUS
    <2>6. ConstructPuts(calls, m, p, env, text)
      BY <1>10, <2>2, <2>3, <2>4, <2>5 DEF ConstructPuts
    <2> QED
      BY <2>6
  <1> QED
    BY <1>7, <1>8, <1>9, <1>10, Zenon

\* A name that is set calls the parser of each of its subscribers.
StorePuts(calls, m, n, text) ==
    LET s == subscribers[n]
    IN  /\ Replaced(calls) /\ m \in Nat /\ m = Len(s) /\ Len(calls) = m + 1
        /\ calls[m + 1][1] = "leave"
        /\ \A k \in 1..m : /\ s[k] \in DOMAIN live /\ NameOf[s[k]] = n
                           /\ calls[k][1] = "parse" /\ calls[k][2] = s[k] /\ calls[k][3] = text
        /\ \A j, k \in 1..m : s[j] = s[k] => j = k
        /\ \A p \in DOMAIN live : NameOf[p] = n => \E k \in 1..m : s[k] = p

\* The calls of a name that is set.
LEMMA StoreCalls ==
    ASSUME StackInv, RegistryInv, ConfigAssumption, StoreStep
    PROVE  LET n    == todo[1][2]
               text == todo[1][3]
           IN  /\ todo # <<>> /\ todo[1][1] = "store" /\ n \in ParamName /\ text \in Text
               /\ stored' = [stored EXCEPT ![n] = text] /\ lock_recurse' = lock_recurse + 1
               /\ \E calls, m : StorePuts(calls, m, n, text)
  <1> DEFINE n == todo[1][2]
             text == todo[1][3]
             s == subscribers[n]
             t == [i \in DOMAIN s |-> Parse(s[i], text)]
  <1>1. /\ todo # <<>> /\ todo[1][1] = "store" /\ n \in ParamName /\ text \in Text
        /\ stored' = [stored EXCEPT ![n] = text] /\ lock_recurse' = lock_recurse + 1
        /\ todo' = (t \o <<Leave>>) \o Tail(todo) /\ todo \in Seq(Call)
    BY First, CallParts, ZenonT(30) DEF StoreStep, Now, Then, Notified
  <1>2. Lists(s, {p \in DOMAIN live : NameOf[p] = n}) /\ DOMAIN live \subseteq Param
    BY <1>1 DEF RegistryInv
  <1>3. /\ Len(s) \in Nat /\ DOMAIN s = 1..Len(s)
        /\ \A k \in 1..Len(s) : s[k] \in DOMAIN live /\ NameOf[s[k]] = n /\ s[k] \in Param
    BY <1>2 DEF Lists
  <1> HIDE DEF n, text, s
  <1>4. \A k \in 1..Len(s) : t[k] = Parse(s[k], text) /\ t[k] \in Call /\ t[k][1] = "parse" /\ t[k][2] = s[k] /\ t[k][3] = text
    BY <1>1, <1>3, CallsMade
  <1>5. t \in Seq(Call) /\ Len(t) = Len(s)
    BY <1>3, <1>4
  <1>6. <<Leave>> \in Seq(Call) /\ Len(<<Leave>>) = 1 /\ <<Leave>>[1][1] = "leave"
    BY CallsMade
  <1> HIDE DEF t
  <1>7. /\ t \o <<Leave>> \in Seq(Call) /\ Len(t \o <<Leave>>) = Len(t) + Len(<<Leave>>)
        /\ \A k \in 1..Len(t) + Len(<<Leave>>) : (t \o <<Leave>>)[k] = IF k <= Len(t) THEN t[k] ELSE <<Leave>>[k - Len(t)]
    BY <1>5, <1>6, ConcatProperties
  <1> DEFINE calls == t \o <<Leave>>
  <1>8. Replaced(calls)
    BY <1>1, <1>7 DEF Replaced
  <1>9. /\ Len(calls) = Len(s) + 1
        /\ \A k \in 1..Len(s) : calls[k] = t[k]
        /\ calls[Len(s) + 1][1] = "leave"
    BY <1>3, <1>5, <1>6, <1>7
  <1> HIDE DEF calls
  <1>10. PICK m : m = Len(s)
    OBVIOUS
  <1>11. /\ \A j, k \in 1..m : s[j] = s[k] => j = k
         /\ \A p \in DOMAIN live : NameOf[p] = n => \E k \in 1..m : s[k] = p
    BY <1>2, <1>3, <1>10 DEF Lists
  <1>12. /\ Replaced(calls) /\ m \in Nat /\ m = Len(s) /\ Len(calls) = m + 1
         /\ calls[m + 1][1] = "leave"
         /\ \A k \in 1..m :
               /\ s[k] \in DOMAIN live /\ NameOf[s[k]] = n
               /\ calls[k][1] = "parse" /\ calls[k][2] = s[k] /\ calls[k][3] = text
    BY <1>3, <1>4, <1>8, <1>9, <1>10
  <1>13. StorePuts(calls, m, n, text)
    BY <1>11, <1>12 DEF StorePuts, s
  <1>14. \E c, k : StorePuts(c, k, n, text)
    BY <1>13
  <1> QED
    BY <1>1, <1>14, Zenon DEF n, text

\* A line is logged, unless the mutex is held twice.
ParsePuts(calls, m) ==
    /\ Replaced(calls) /\ m \in 0..1 /\ m = Len(calls)
    /\ m = 1 => lock_recurse <= 1 /\ calls[1][1] = "log"

\* The calls of the parser.
LEMMA ParseCalls ==
    ASSUME StackInv, ParseStep
    PROVE  /\ todo # <<>> /\ todo[1][1] = "parse" /\ Object \in Param /\ Object = todo[1][2]
           /\ todo[1][3] \in Text /\ Head(todo) = todo[1]
           /\ \E calls, m : ParsePuts(calls, m)
  <1>1. todo # <<>> /\ todo \in Seq(Call)
    BY DEF ParseStep, Now, StackInv
  <1>2. /\ todo[1][1] = "parse" /\ Object \in Param /\ todo[1][3] \in Text
        /\ Object = todo[1][2] /\ Head(todo) = todo[1]
    BY <1>1, First, CallParts DEF ParseStep, Now, Object
  <1>3. PICK sev \in DOMAIN severity : todo' = rlog(sev) \o Tail(todo)
    BY DEF ParseStep, Then, severity
  <1>4. CASE lock_recurse <= 1
    <2>1. rlog(sev) = <<Log(sev)>> /\ <<Log(sev)>> \in Seq(Call) /\ Log(sev)[1] = "log"
      BY <1>4, CallsMade DEF rlog
    <2>2. PICK calls, m : calls = <<Log(sev)>> /\ m = 1
      OBVIOUS
    <2>3. ParsePuts(calls, m)
      BY <1>1, <1>3, <1>4, <2>1, <2>2 DEF Replaced, ParsePuts
    <2> QED
      BY <1>1, <1>2, <2>3
  <1>5. CASE ~(lock_recurse <= 1)
    <2>1. PICK calls, m : calls = <<>> /\ m = 0
      OBVIOUS
    <2>2. ParsePuts(calls, m)
      BY <1>1, <1>3, <1>5, <2>1 DEF Replaced, ParsePuts, rlog
    <2> QED
      BY <1>1, <1>2, <2>2
  <1> QED
    BY <1>4, <1>5

\* A line that is logged first constructs the parameter it needs, once.
LogPuts(calls, p) ==
    /\ static[p] = "none" /\ static' = [static EXCEPT ![p] = "running"]
    /\ Replaced(calls) /\ Len(calls) = 3
    /\ calls[1][1] = "construct" /\ calls[1][2] = p
    /\ calls[2][1] = "ready" /\ calls[3] = todo[1]

\* The calls of a line that is logged.
LEMMA LogCalls ==
    ASSUME StackInv, ConfigAssumption, LogStep
    PROVE  /\ todo # <<>> /\ todo[1][1] = "log" /\ lock_recurse' = lock_recurse
           /\ \/ Replaced(<<>>) /\ static' = static
              \/ \E calls : \E p \in LogParams : LogPuts(calls, p)
  <1>1. todo # <<>> /\ todo[1][1] = "log" /\ lock_recurse' = lock_recurse
    BY First DEF LogStep, Now
  <1>2. todo \in Seq(Call) /\ todo[1] \in Call
    BY <1>1, First
  <1>3. ASSUME todo' = <<>> \o Tail(todo) PROVE Replaced(<<>>)
    BY <1>1, <1>3, First DEF Replaced
  <1>4. ASSUME NEW p \in LogParams, Needs(p)
        PROVE  \E calls : LogPuts(calls, p)
    <2> DEFINE calls == <<Construct(p), Ready(p), todo[1]>>
    <2>1. p \in Param
      BY DEF ConfigAssumption
    <2>2. calls \in Seq(Call) /\ Len(calls) = 3
      BY <1>2, <2>1, CallsMade
    <2>3. calls \o Tail(todo) = <<Construct(p), Ready(p)>> \o todo
      <3>1. Construct(p) \in Call /\ Ready(p) \in Call
        BY <2>1, CallsMade
      <3> QED
        BY <1>1, <1>2, <3>1
    <2>4. Replaced(calls)
      BY <1>1, <1>2, <1>4, <2>2, <2>3 DEF Replaced, Needs
    <2>5. Construct(p)[1] = "construct" /\ Construct(p)[2] = p /\ Ready(p)[1] = "ready"
      BY <2>1, CallsMade
    <2>6. LogPuts(calls, p)
      BY <1>4, <2>2, <2>4, <2>5 DEF Needs, LogPuts
    <2> QED
      BY <2>6
  <1> QED
    BY <1>1, <1>3, <1>4 DEF LogStep, Then, LogParams

\* The others make no call.
LEMMA NoCalls ==
    ASSUME StackInv, CopyStep \/ DestroyStep \/ LeaveStep \/ ReadyStep
    PROVE  /\ todo # <<>> /\ Replaced(<<>>) /\ Object = todo[1][2] /\ todo[1] \in Call
           /\ CopyStep => todo[1][1] = "copy"
           /\ DestroyStep => todo[1][1] = "destroy"
           /\ LeaveStep => todo[1][1] = "leave"
           /\ ReadyStep => todo[1][1] = "ready"
  <1>1. todo # <<>> /\ todo' = <<>> \o Tail(todo)
    BY DEF CopyStep, DestroyStep, LeaveStep, ReadyStep, Now, Then
  <1> QED
    BY <1>1, First DEF CopyStep, DestroyStep, LeaveStep, ReadyStep, Now, Replaced, Object

\* The mutex is held at most twice: nothing is logged from inside a line that is
\* logged.
LEMMA StackStep ==
    ASSUME StackInv, RegistryInv, ConfigAssumption, ConfigStep
    PROVE  StackInv'
  <1>1. todo # <<>> /\ todo \in Seq(Call) /\ todo[1] \in Call /\ Len(todo) \in Nat \ {0}
    <2>1. todo # <<>>
      BY DEF ConfigStep, ConstructStep, CopyStep, DestroyStep, StoreStep,
             ParseStep, LeaveStep, LogStep, ReadyStep, Now
    <2> QED
      BY <2>1, First
  <1>2. PICK depth : Depths(todo, Len(todo), lock_recurse, depth)
    BY DEF StackInv
  <1>3. /\ lock_recurse \in 0..2 /\ depth[2] \in 0..2
        /\ lock_recurse = IF todo[1][1] = "leave" THEN depth[2] + 1 ELSE depth[2]
        /\ Allowed(todo[1][1], lock_recurse)
    BY <1>1, <1>2 DEF Depths
  <1>4. Len(<<>>) = 0
    BY <1>1, First
  <1>5. CASE ConstructStep
    <2>1. todo[1][1] = "construct" /\ lock_recurse' = lock_recurse + 1
      BY <1>5, ConstructCalls DEF ConstructStep
    <2>2. PICK calls, m : ConstructPuts(calls, m, Object, environment[NameOf[Object]], stored[NameOf[Object]])
      BY <1>5, ConstructCalls
    <2>3. Replaced(calls) /\ m = Len(calls) /\ Fitting(calls, m, lock_recurse', depth[2])
      BY <1>3, <2>1, <2>2 DEF Fitting, Allowed, ConstructPuts
    <2> QED
      BY <1>2, <2>2, <2>3, StackPut
  <1>6. CASE StoreStep
    <2>1. todo[1][1] = "store" /\ lock_recurse' = lock_recurse + 1
      BY <1>6, StoreCalls
    <2>2. PICK calls, m : StorePuts(calls, m, todo[1][2], todo[1][3])
      BY <1>6, StoreCalls
    <2>3. /\ Replaced(calls) /\ m \in Nat /\ Len(calls) = m + 1
          /\ calls[m + 1][1] = "leave" /\ \A k \in 1..m : calls[k][1] = "parse"
      BY <2>2 DEF StorePuts
    <2>4. lock_recurse = 0 /\ lock_recurse' = 1 /\ depth[2] = 0
      BY <1>3, <2>1 DEF Allowed
    <2>5. \A k \in 1..m + 1 : calls[k][1] \in {"parse", "leave"}
      BY <2>3
    <2>6. Fitting(calls, m + 1, lock_recurse', depth[2])
      BY <2>3, <2>4, <2>5 DEF Fitting, Allowed
    <2> QED
      BY <1>2, <2>3, <2>6, StackPut
  <1>7. CASE ParseStep
    <2>1. todo[1][1] = "parse" /\ lock_recurse' = lock_recurse
      BY <1>7, ParseCalls DEF ParseStep
    <2>2. PICK calls, m : ParsePuts(calls, m)
      BY <1>7, ParseCalls
    <2>3. Replaced(calls) /\ m = Len(calls) /\ Fitting(calls, m, lock_recurse', depth[2])
      BY <1>3, <2>1, <2>2 DEF Fitting, Allowed, ParsePuts
    <2> QED
      BY <1>2, <2>2, <2>3, StackPut
  <1>8. CASE LogStep
    <2>1. todo[1][1] = "log" /\ lock_recurse' = lock_recurse
      BY <1>8, LogCalls
    <2>2. CASE Replaced(<<>>)
      <3>1. Fitting(<<>>, Len(<<>>), lock_recurse', depth[2])
        BY <1>3, <1>4, <2>1 DEF Fitting
      <3> QED
        BY <1>2, <2>2, <3>1, StackPut
    <2>3. CASE \E calls : \E p \in LogParams : LogPuts(calls, p)
      <3> PICK calls : \E p \in LogParams : LogPuts(calls, p)
        BY <2>3
      <3>1. PICK p \in LogParams : LogPuts(calls, p)
        OBVIOUS
      <3>2. Replaced(calls) /\ Fitting(calls, Len(calls), lock_recurse', depth[2])
        BY <1>3, <2>1, <3>1 DEF Fitting, Allowed, LogPuts
      <3> QED
        BY <1>2, <3>1, <3>2, StackPut
    <2> QED
      BY <1>8, <2>2, <2>3, LogCalls
  <1>9. CASE CopyStep \/ DestroyStep \/ LeaveStep \/ ReadyStep
    <2>1. /\ Replaced(<<>>)
          /\ lock_recurse' = IF todo[1][1] = "leave" THEN lock_recurse - 1 ELSE lock_recurse
      BY <1>9, NoCalls DEF CopyStep, DestroyStep, LeaveStep, ReadyStep
    <2>2. Fitting(<<>>, Len(<<>>), lock_recurse', depth[2])
      BY <1>3, <1>4, <2>1 DEF Fitting
    <2> QED
      BY <1>2, <2>1, <2>2, StackPut
  <1> QED
    BY <1>5, <1>6, <1>7, <1>8, <1>9 DEF ConfigStep

-----------------------------------------------------------------------------
(* The objects.                                                            *)

\* While the objects alive are there and n calls are to be made, t[k] of them the
\* k-th: what is to be constructed is not there yet, what is parsed is, what is
\* copied or destroyed is or will be by then; nothing is constructed or destroyed
\* twice, or copied when it is gone.
Orderly(t, n, alive) ==
    /\ \A k \in 1..n : t[k][1] = "construct" => t[k][2] \notin alive
    /\ \A k \in 1..n : t[k][1] = "parse" => t[k][2] \in alive
    /\ \A k \in 1..n : t[k][1] \in {"copy", "destroy"} =>
          t[k][2] \in alive \/ \E j \in 1..k - 1 : t[j][1] = "construct" /\ t[j][2] = t[k][2]
    /\ \A j, k \in 1..n : t[j][1] \in {"construct", "destroy"} /\ t[k][1] = t[j][1] /\ t[k][2] = t[j][2] => j = k
    /\ \A j, k \in 1..n : t[j][1] = "destroy" /\ t[k][1] = "copy" /\ t[k][2] = t[j][2] => k < j

\* What making the call c does to the objects there are.
Makes(c, alive, next) ==
    \/ c[1] \notin {"construct", "destroy"} /\ next = alive
    \/ c[1] = "construct" /\ next = alive \cup {c[2]}
    \/ c[1] = "destroy" /\ next = alive \ {c[2]}

\* A list of calls that parse, log and leave.
Harmless(calls, m, alive) ==
    \A k \in 1..m : /\ calls[k][1] \in {"parse", "leave", "log"}
                    /\ calls[k][1] = "parse" => calls[k][2] \in alive

\* The first call is made.
LEMMA OrderlyPut ==
    ASSUME NEW n \in Nat \ {0}, NEW t, NEW alive, Orderly(t, n, alive),
           NEW next, Makes(t[1], alive, next),
           t[1][1] = "destroy" => \A k \in 1..n : t[k][1] # "parse",
           NEW m \in Nat, NEW calls, NEW new, Shifted(new, calls, m, t, n), Harmless(calls, m, next)
    PROVE  Orderly(new, m + n - 1, next)
  <1> DEFINE w == m + n - 1
             From(k) == k - m + 1
  <1>1. /\ w \in Nat
        /\ \A k \in 1..w : k \in 1..m \/ k \in m + 1..w
        /\ \A k \in m + 1..w : From(k) \in 2..n /\ From(k) \in 1..n
        /\ \A j, k \in m + 1..w : From(j) = From(k) => j = k
        /\ \A j, k \in m + 1..w : From(j) < From(k) => j < k
        /\ \A j \in 2..n : j + m - 1 \in m + 1..w /\ From(j + m - 1) = j
    OBVIOUS
  <1>2. \A k \in m + 1..w : new[k] = t[From(k)]
    BY DEF Shifted
  <1>3. \A k \in 1..m : new[k][1] \in {"parse", "leave", "log"} /\ (new[k][1] = "parse" => new[k][2] \in next)
    BY DEF Shifted, Harmless
  <1> HIDE DEF From
  <1>4. 1 \in 1..n /\ \A k \in 2..n : k # 1
    OBVIOUS
  <1>5. \A k \in 1..w : new[k][1] = "construct" => new[k][2] \notin next
    <2> TAKE k \in 1..w
    <2> HAVE new[k][1] = "construct"
    <2>1. k \in m + 1..w /\ new[k] = t[From(k)] /\ From(k) \in 2..n /\ From(k) \in 1..n
      BY <1>1, <1>2, <1>3
    <2> QED
      BY <1>4, <2>1 DEF Orderly, Makes
  <1>6. \A k \in 1..w : new[k][1] = "parse" => new[k][2] \in next
    <2> SUFFICES ASSUME NEW k \in m + 1..w, new[k][1] = "parse" PROVE new[k][2] \in next
      BY <1>1, <1>3
    <2> QED
      BY <1>1, <1>2, <1>4 DEF Orderly, Makes
  <1>7. \A k \in 1..w : new[k][1] \in {"copy", "destroy"} =>
            new[k][2] \in next \/ \E j \in 1..k - 1 : new[j][1] = "construct" /\ new[j][2] = new[k][2]
    <2> TAKE k \in 1..w
    <2> HAVE new[k][1] \in {"copy", "destroy"}
    <2>1. k \in m + 1..w /\ new[k] = t[From(k)] /\ From(k) \in 2..n /\ From(k) \in 1..n
      BY <1>1, <1>2, <1>3
    <2>2. CASE t[From(k)][2] \in alive
      BY <1>4, <2>1, <2>2 DEF Orderly, Makes
    <2>3. ASSUME NEW j \in 1..From(k) - 1, t[j][1] = "construct", t[j][2] = t[From(k)][2]
          PROVE  new[k][2] \in next \/ \E i \in 1..k - 1 : new[i][1] = "construct" /\ new[i][2] = new[k][2]
      <3>1. CASE j = 1
        BY <2>1, <2>3, <3>1 DEF Makes
      <3>2. CASE j # 1
        <4>1. j \in 2..n /\ j < From(k)
          BY <2>1, <3>2
        <4>2. j + m - 1 \in m + 1..w /\ From(j + m - 1) = j /\ j + m - 1 < k
          BY <1>1, <2>1, <4>1
        <4>3. j + m - 1 \in 1..k - 1
          BY <2>1, <4>2
        <4> QED
          BY <1>2, <2>1, <2>3, <4>2, <4>3
      <3> QED
        BY <3>1, <3>2
    <2> QED
      BY <2>1, <2>2, <2>3 DEF Orderly
  <1>8. \A j, k \in 1..w : new[j][1] \in {"construct", "destroy"} /\ new[k][1] = new[j][1] /\ new[k][2] = new[j][2] => j = k
    <2> TAKE j, k \in 1..w
    <2> HAVE new[j][1] \in {"construct", "destroy"} /\ new[k][1] = new[j][1] /\ new[k][2] = new[j][2]
    <2>1. /\ j \in m + 1..w /\ new[j] = t[From(j)] /\ From(j) \in 1..n
          /\ k \in m + 1..w /\ new[k] = t[From(k)] /\ From(k) \in 1..n
      BY <1>1, <1>2, <1>3
    <2>2. From(j) = From(k)
      BY <2>1 DEF Orderly
    <2> QED
      BY <1>1, <2>1, <2>2
  <1>9. \A j, k \in 1..w : new[j][1] = "destroy" /\ new[k][1] = "copy" /\ new[k][2] = new[j][2] => k < j
    <2> TAKE j, k \in 1..w
    <2> HAVE new[j][1] = "destroy" /\ new[k][1] = "copy" /\ new[k][2] = new[j][2]
    <2>1. /\ j \in m + 1..w /\ new[j] = t[From(j)] /\ From(j) \in 1..n
          /\ k \in m + 1..w /\ new[k] = t[From(k)] /\ From(k) \in 1..n
      BY <1>1, <1>2, <1>3
    <2>2. From(k) < From(j)
      BY <2>1 DEF Orderly
    <2> QED
      BY <1>1, <2>1, <2>2
  <1> QED
    BY <1>5, <1>6, <1>7, <1>8, <1>9 DEF Orderly

\* Among the n calls is the construction of p.
Awaits(t, n, p) == \E k \in 1..n : t[k][1] = "construct" /\ t[k][2] = p

\* The m calls construct p and then make the first of t.
Needing(calls, m, p, t) ==
    /\ m = 3 /\ calls[1][1] = "construct" /\ calls[1][2] = p
    /\ calls[2][1] = "ready" /\ calls[3] = t[1]

\* A line is logged that needs a parameter.
LEMMA OrderlyLog ==
    ASSUME NEW n \in Nat \ {0}, NEW t, NEW alive, Orderly(t, n, alive), t[1][1] = "log",
           NEW m \in Nat, NEW calls, NEW new, Shifted(new, calls, m, t, n),
           NEW p, p \notin alive, ~Awaits(t, n, p), Needing(calls, m, p, t)
    PROVE  Orderly(new, m + n - 1, alive)
  <1>0. /\ m = 3 /\ calls[1][1] = "construct" /\ calls[1][2] = p /\ calls[2][1] = "ready" /\ calls[3] = t[1]
        /\ \A k \in 1..n : t[k][1] = "construct" => t[k][2] # p
    BY DEF Needing, Awaits
  <1> DEFINE w == m + n - 1
             From(k) == k - 2
  <1>1. /\ w \in Nat /\ 1 \in 1..n /\ 1 \in 1..w /\ 2 \in 1..w
        /\ \A k \in 1..w : k = 1 \/ k = 2 \/ k \in 3..w
        /\ \A k \in 3..w : From(k) \in 1..n
        /\ \A j, k \in 3..w : From(j) = From(k) => j = k
        /\ \A j, k \in 3..w : From(j) < From(k) => j < k
        /\ \A j \in 1..n : j + 2 \in 3..w /\ From(j + 2) = j
    BY <1>0
  <1>2. ASSUME NEW k \in 3..w PROVE new[k] = t[From(k)]
    <2>1. CASE k = 3
      BY <1>0, <1>1, <2>1 DEF Shifted
    <2>2. CASE k # 3
      BY <1>0, <1>1, <2>2 DEF Shifted
    <2> QED
      BY <2>1, <2>2
  <1>3. new[1][1] = "construct" /\ new[1][2] = p /\ new[2][1] = "ready"
    BY <1>0 DEF Shifted
  <1> HIDE DEF From
  <1>4. \A k \in 1..w : new[k][1] = "construct" => new[k][2] \notin alive
    BY <1>0, <1>1, <1>2, <1>3 DEF Orderly
  <1>5. \A k \in 1..w : new[k][1] = "parse" => new[k][2] \in alive
    BY <1>0, <1>1, <1>2, <1>3 DEF Orderly
  <1>6. \A k \in 1..w : new[k][1] \in {"copy", "destroy"} =>
            new[k][2] \in alive \/ \E j \in 1..k - 1 : new[j][1] = "construct" /\ new[j][2] = new[k][2]
    <2> TAKE k \in 1..w
    <2> HAVE new[k][1] \in {"copy", "destroy"}
    <2>1. k \in 3..w /\ new[k] = t[From(k)] /\ From(k) \in 1..n
      BY <1>1, <1>2, <1>3
    <2>2. ASSUME NEW j \in 1..From(k) - 1, t[j][1] = "construct", t[j][2] = t[From(k)][2]
          PROVE  \E i \in 1..k - 1 : new[i][1] = "construct" /\ new[i][2] = new[k][2]
      <3>1. j \in 1..n /\ j < From(k)
        BY <2>1
      <3>2. j + 2 \in 3..w /\ From(j + 2) = j /\ j + 2 < k
        BY <1>1, <2>1, <3>1
      <3>3. j + 2 \in 1..k - 1
        BY <2>1, <3>2
      <3> QED
        BY <1>2, <2>1, <2>2, <3>2, <3>3
    <2> QED
      BY <2>1, <2>2 DEF Orderly
  <1>7. \A j, k \in 1..w : new[j][1] \in {"construct", "destroy"} /\ new[k][1] = new[j][1] /\ new[k][2] = new[j][2] => j = k
    <2> TAKE j, k \in 1..w
    <2> HAVE new[j][1] \in {"construct", "destroy"} /\ new[k][1] = new[j][1] /\ new[k][2] = new[j][2]
    <2>1. j # 2 /\ k # 2
      BY <1>3
    <2>2. j = 1 => k = 1
      BY <1>0, <1>1, <1>2, <1>3, <2>1
    <2>3. k = 1 => j = 1
      BY <1>0, <1>1, <1>2, <1>3, <2>1
    <2>4. ASSUME j \in 3..w, k \in 3..w PROVE j = k
      <3>1. new[j] = t[From(j)] /\ From(j) \in 1..n /\ new[k] = t[From(k)] /\ From(k) \in 1..n
        BY <1>1, <1>2, <2>4
      <3>2. From(j) = From(k)
        BY <3>1 DEF Orderly
      <3> QED
        BY <1>1, <2>4, <3>2
    <2> QED
      BY <1>1, <2>1, <2>2, <2>3, <2>4
  <1>8. \A j, k \in 1..w : new[j][1] = "destroy" /\ new[k][1] = "copy" /\ new[k][2] = new[j][2] => k < j
    <2> TAKE j, k \in 1..w
    <2> HAVE new[j][1] = "destroy" /\ new[k][1] = "copy" /\ new[k][2] = new[j][2]
    <2>1. /\ j \in 3..w /\ new[j] = t[From(j)] /\ From(j) \in 1..n
          /\ k \in 3..w /\ new[k] = t[From(k)] /\ From(k) \in 1..n
      BY <1>1, <1>2, <1>3
    <2>2. From(k) < From(j)
      BY <2>1 DEF Orderly
    <2> QED
      BY <1>1, <2>1, <2>2
  <1> QED
    BY <1>4, <1>5, <1>6, <1>7, <1>8 DEF Orderly

\* Among them is one of that kind.
Occurs(t, n, do) == \E k \in 1..n : t[k][1] = do

\* What main() is about to do says what calls there may be, and whether its own
\* parameters are there.
Timely(t, n, alive) ==
    /\ Occurs(t, n, "store") => phase \in {"static", "arguments"}
    /\ Occurs(t, n, "copy") => phase = "static"
    /\ Occurs(t, n, "destroy") => phase \in {"static", "exit"}
    /\ phase \in {"static", "arguments"} =>
          \A i \in DOMAIN MainParams : MainParams[i] \notin alive /\ ~Awaits(t, n, MainParams[i])
    /\ phase = "main" => interval \in alive \/ Awaits(t, n, interval)
    /\ InLoop => interval \in alive /\ n = 0

LifeInv ==
    /\ Orderly(todo, Len(todo), DOMAIN live)
    /\ \A p \in LogParams : static[p] = "none" => p \notin DOMAIN live /\ ~Awaits(todo, Len(todo), p)
    /\ Timely(todo, Len(todo), DOMAIN live)

\* How the calls move.
LEMMA Moved ==
    ASSUME NEW calls, Replaced(calls)
    PROVE  /\ Len(calls) \in Nat /\ Len(todo) \in Nat \ {0} /\ Len(todo') = Len(calls) + Len(todo) - 1
           /\ Shifted(todo', calls, Len(calls), todo, Len(todo))
  BY Put DEF Replaced, Shifted

\* What a step comes to: harmless calls in place of the first, or, once for each
\* of the logging's parameters, its construction before a line is logged.
Quiet(calls) ==
    /\ Replaced(calls) /\ Harmless(calls, Len(calls), DOMAIN live')
    /\ \A p \in LogParams : static'[p] = "none" => static[p] = "none"

\* The steps, as far as the calls and the objects go.
LEMMA Effects ==
    ASSUME StackInv, RegistryInv, ConfigAssumption, ConfigStep, Orderly(todo, Len(todo), DOMAIN live)
    PROVE  /\ todo # <<>> /\ todo[1] \in Call /\ 1 \in 1..Len(todo)
           /\ Makes(todo[1], DOMAIN live, DOMAIN live')
           /\ todo[1][1] = "destroy" => \A k \in 1..Len(todo) : todo[k][1] # "parse"
           /\ \/ \E calls : Quiet(calls)
              \/ \E calls : \E p \in LogParams : LogPuts(calls, p) /\ todo[1][1] = "log"
  <1>1. todo # <<>>
    BY DEF ConfigStep, ConstructStep, CopyStep, DestroyStep, StoreStep,
           ParseStep, LeaveStep, LogStep, ReadyStep, Now
  <1>2. todo[1] \in Call /\ 1 \in 1..Len(todo)
    BY <1>1, First
  <1>3. ASSUME todo[1][1] = "destroy", NEW k \in 1..Len(todo) PROVE todo[k][1] # "parse"
    <2> PICK depth : Depths(todo, Len(todo), lock_recurse, depth)
      BY Zenon DEF StackInv
    <2> PICK n \in Nat \ {0} : n = Len(todo)
      BY <1>1, First, Zenon
    <2>1. depth[1] = 0 /\ depth[k] <= depth[1] /\ Allowed(todo[k][1], depth[k]) /\ depth[k] \in 0..2
      BY <1>3 DEF Depths, Allowed
    <2> QED
      BY <2>1 DEF Allowed
  <1>4. CASE ConstructStep
    <2>1. todo[1][1] = "construct" /\ Object \in Param /\ Object = todo[1][2] /\ static' = static
      BY <1>4, ConstructCalls DEF ConstructStep
    <2>2. DOMAIN live' = DOMAIN live \cup {Object}
      BY <1>4 DEF ConstructStep, With
    <2>3. PICK calls, m : ConstructPuts(calls, m, Object, environment[NameOf[Object]], stored[NameOf[Object]])
      BY <1>4, ConstructCalls
    <2>4. Quiet(calls)
      BY <2>1, <2>2, <2>3 DEF Quiet, ConstructPuts, Harmless
    <2> QED
      BY <1>1, <1>2, <2>1, <2>2, <2>4 DEF Makes
  <1>5. CASE StoreStep
    <2>1. todo[1][1] = "store" /\ live' = live /\ static' = static
      BY <1>5, StoreCalls DEF StoreStep
    <2>2. PICK calls, m : StorePuts(calls, m, todo[1][2], todo[1][3])
      BY <1>5, StoreCalls
    <2>3. /\ Replaced(calls) /\ m \in Nat /\ Len(calls) = m + 1
          /\ calls[m + 1][1] = "leave" /\ \A k \in 1..m : calls[k][1] = "parse" /\ calls[k][2] \in DOMAIN live
      BY <2>2 DEF StorePuts
    <2>4. Quiet(calls)
      BY <2>1, <2>3 DEF Quiet, Harmless
    <2> QED
      BY <1>1, <1>2, <2>1, <2>4 DEF Makes
  <1>6. CASE ParseStep
    <2>1. todo[1][1] = "parse" /\ DOMAIN live' = DOMAIN live /\ static' = static
      BY <1>6, ParseCalls DEF ParseStep
    <2>2. PICK calls, m : ParsePuts(calls, m)
      BY <1>6, ParseCalls
    <2>3. Quiet(calls)
      BY <2>1, <2>2 DEF Quiet, Harmless, ParsePuts
    <2> QED
      BY <1>1, <1>2, <2>1, <2>3 DEF Makes
  <1>7. CASE LogStep
    <2>1. todo[1][1] = "log" /\ live' = live
      BY <1>7, LogCalls DEF LogStep, registryVars
    <2>2. Replaced(<<>>) /\ static' = static => Quiet(<<>>)
      BY DEF Quiet, Harmless
    <2> QED
      BY <1>1, <1>2, <1>7, <2>1, <2>2, LogCalls DEF Makes
  <1>8. CASE DestroyStep
    <2>1. /\ todo[1][1] = "destroy" /\ Object = todo[1][2] /\ DOMAIN live' = DOMAIN live \ {Object}
          /\ static' = static /\ Replaced(<<>>)
      BY <1>8, NoCalls DEF DestroyStep
    <2>2. Quiet(<<>>)
      BY <2>1 DEF Quiet, Harmless
    <2> QED
      BY <1>1, <1>2, <1>3, <2>1, <2>2 DEF Makes
  <1>9. CASE CopyStep \/ LeaveStep \/ ReadyStep
    <2>1. /\ todo[1][1] \in {"copy", "leave", "ready"} /\ live' = live /\ Replaced(<<>>)
      BY <1>9, NoCalls DEF CopyStep, LeaveStep, ReadyStep, registryVars
    <2>2. \A p \in LogParams : static'[p] = "none" => static[p] = "none"
      BY <1>9 DEF CopyStep, LeaveStep, ReadyStep, RegistryInv
    <2>3. Quiet(<<>>)
      BY <2>1, <2>2 DEF Quiet, Harmless
    <2> QED
      BY <1>1, <1>2, <2>1, <2>3 DEF Makes
  <1> QED
    BY <1>4, <1>5, <1>6, <1>7, <1>8, <1>9 DEF ConfigStep

\* Every call of the new list is one put in front or was there, and all but the
\* first of those are on it.
Origins(new, calls, m, t, n) ==
    /\ \A k \in 1..m + n - 1 : (\E j \in 1..m : new[k] = calls[j]) \/ \E j \in 2..n : new[k] = t[j]
    /\ \A j \in 2..n : \E k \in 1..m + n - 1 : new[k] = t[j]

\* Where the calls of the new list are from.
LEMMA ShiftedFrom ==
    ASSUME NEW n \in Nat \ {0}, NEW m \in Nat, NEW t, NEW calls, NEW new, Shifted(new, calls, m, t, n)
    PROVE  Origins(new, calls, m, t, n)
  <1>1. ASSUME NEW k \in 1..m + n - 1
        PROVE  (\E j \in 1..m : new[k] = calls[j]) \/ \E j \in 2..n : new[k] = t[j]
    <2>1. k \in 1..m => new[k] = calls[k]
      BY DEF Shifted
    <2>2. k \notin 1..m => k - m + 1 \in 2..n /\ new[k] = t[k - m + 1]
      BY DEF Shifted
    <2> QED
      BY <2>1, <2>2
  <1>2. ASSUME NEW j \in 2..n PROVE \E k \in 1..m + n - 1 : new[k] = t[j]
    <2> PICK k : k = j + m - 1
      OBVIOUS
    <2>1. k \in 1..m + n - 1 /\ k \in m + 1..m + n - 1 /\ k - m + 1 = j
      OBVIOUS
    <2> QED
      BY <2>1 DEF Shifted
  <1> QED
    BY <1>1, <1>2 DEF Origins

\* What is waiting after a step that is harmless.
LEMMA WaitingPut ==
    ASSUME NEW n \in Nat \ {0}, NEW m \in Nat, NEW t, NEW calls, NEW new, Shifted(new, calls, m, t, n),
           NEW alive, Harmless(calls, m, alive)
    PROVE  /\ \A p : Awaits(new, m + n - 1, p) => Awaits(t, n, p)
           /\ \A p : Awaits(t, n, p) => (t[1][1] = "construct" /\ t[1][2] = p) \/ Awaits(new, m + n - 1, p)
           /\ \A do \in {"store", "copy", "destroy"} : Occurs(new, m + n - 1, do) => Occurs(t, n, do)
  <1>0. /\ \A k \in 1..m + n - 1 : (\E j \in 1..m : new[k] = calls[j]) \/ \E j \in 2..n : new[k] = t[j]
        /\ \A j \in 2..n : \E k \in 1..m + n - 1 : new[k] = t[j]
    <2>1. Origins(new, calls, m, t, n)
      BY ShiftedFrom
    <2> QED
      BY <2>1, Zenon DEF Origins
  <1> PICK w \in Nat : w = m + n - 1
    OBVIOUS
  <1>1. /\ \A k \in 1..w : (\E j \in 1..m : new[k] = calls[j]) \/ \E j \in 2..n : new[k] = t[j]
        /\ \A j \in 2..n : \E k \in 1..w : new[k] = t[j]
    BY <1>0
  <1>2. \A k \in 1..w : new[k][1] \in {"parse", "leave", "log"} \/ \E j \in 2..n : new[k] = t[j]
    BY <1>1 DEF Harmless
  <1>3. (\A j \in 1..n : j = 1 \/ j \in 2..n) /\ (\A j \in 2..n : j \in 1..n)
    OBVIOUS
  <1>4. ASSUME NEW p, Awaits(new, w, p) PROVE Awaits(t, n, p)
    BY <1>2, <1>3, <1>4 DEF Awaits
  <1>5. ASSUME NEW p, Awaits(t, n, p) PROVE (t[1][1] = "construct" /\ t[1][2] = p) \/ Awaits(new, w, p)
    BY <1>1, <1>3, <1>5 DEF Awaits
  <1>6. ASSUME NEW do \in {"store", "copy", "destroy"}, Occurs(new, w, do) PROVE Occurs(t, n, do)
    BY <1>2, <1>3, <1>6 DEF Occurs
  <1> QED
    BY <1>4, <1>5, <1>6

\* What is waiting after one that is to construct p for a line that is logged.
LEMMA WaitingLog ==
    ASSUME NEW n \in Nat \ {0}, NEW m \in Nat, NEW t, NEW calls, NEW new, Shifted(new, calls, m, t, n),
           NEW p, Needing(calls, m, p, t)
    PROVE  /\ \A q : Awaits(new, m + n - 1, q) => q = p \/ Awaits(t, n, q)
           /\ \A q : Awaits(t, n, q) => Awaits(new, m + n - 1, q)
           /\ \A do \in {"store", "copy", "destroy"} : Occurs(new, m + n - 1, do) => Occurs(t, n, do)
  <1>0. /\ \A k \in 1..m + n - 1 : (\E j \in 1..m : new[k] = calls[j]) \/ \E j \in 2..n : new[k] = t[j]
        /\ \A j \in 2..n : \E k \in 1..m + n - 1 : new[k] = t[j]
    <2>1. Origins(new, calls, m, t, n)
      BY ShiftedFrom
    <2> QED
      BY <2>1, Zenon DEF Origins
  <1> PICK w \in Nat : w = m + n - 1
    OBVIOUS
  <1>1. /\ \A k \in 1..w : (\E j \in 1..m : new[k] = calls[j]) \/ \E j \in 2..n : new[k] = t[j]
        /\ \A j \in 2..n : \E k \in 1..w : new[k] = t[j]
    BY <1>0
  <1>1a. m = 3 /\ calls[1][1] = "construct" /\ calls[1][2] = p /\ calls[2][1] = "ready" /\ calls[3] = t[1]
    BY DEF Needing
  <1>2. /\ \A j \in 1..m : j = 1 \/ j = 2 \/ j = 3
        /\ \A j \in 1..n : j = 1 \/ j \in 2..n
        /\ \A j \in 2..n : j \in 1..n
        /\ 1 \in 1..n /\ 3 \in 1..w /\ 3 \in 1..m
    BY <1>1a
  <1>3. new[3] = t[1]
    BY <1>1a, <1>2 DEF Shifted
  <1>4. ASSUME NEW k \in 1..w
        PROVE  \/ new[k][1] = "construct" /\ new[k][2] = p
               \/ new[k][1] = "ready"
               \/ \E j \in 1..n : new[k] = t[j]
    <2>1. CASE \E j \in 1..m : new[k] = calls[j]
      <3>1. new[k] = calls[1] \/ new[k] = calls[2] \/ new[k] = calls[3]
        BY <1>2, <2>1
      <3> QED
        BY <1>1a, <1>2, <3>1
    <2>2. CASE \E j \in 2..n : new[k] = t[j]
      BY <1>2, <2>2
    <2> QED
      BY <1>1, <2>1, <2>2
  <1>5. ASSUME NEW q, Awaits(new, w, q) PROVE q = p \/ Awaits(t, n, q)
    BY <1>4, <1>5 DEF Awaits
  <1>6. ASSUME NEW q, Awaits(t, n, q) PROVE Awaits(new, w, q)
    BY <1>1, <1>2, <1>3, <1>6 DEF Awaits
  <1>7. ASSUME NEW do \in {"store", "copy", "destroy"}, Occurs(new, w, do) PROVE Occurs(t, n, do)
    BY <1>4, <1>7 DEF Occurs
  <1> QED
    BY <1>5, <1>6, <1>7

\* What is constructed twice at once, or before its time, never is.
LEMMA LifeStep ==
    ASSUME StackInv, RegistryInv, LifeInv, ConfigAssumption, ObjectAssumption,
           ConfigStep, UNCHANGED phase
    PROVE  LifeInv'
  <1>1. /\ todo # <<>> /\ todo[1] \in Call /\ 1 \in 1..Len(todo)
        /\ Makes(todo[1], DOMAIN live, DOMAIN live')
        /\ todo[1][1] = "destroy" => \A k \in 1..Len(todo) : todo[k][1] # "parse"
        /\ \/ \E calls : Quiet(calls)
           \/ \E calls : \E p \in LogParams : LogPuts(calls, p) /\ todo[1][1] = "log"
    BY Effects DEF LifeInv
  <1>2. /\ Orderly(todo, Len(todo), DOMAIN live)
        /\ \A p \in LogParams : static[p] = "none" => p \notin DOMAIN live /\ ~Awaits(todo, Len(todo), p)
        /\ Timely(todo, Len(todo), DOMAIN live)
    BY DEF LifeInv
  <1>3. ~InLoop
    BY <1>1 DEF LifeInv, Timely
  <1>4. CASE \E calls : Quiet(calls)
    <2>1. PICK calls : Quiet(calls)
      BY <1>4
    <2>2. /\ Len(calls) \in Nat /\ Len(todo) \in Nat \ {0} /\ Len(todo') = Len(calls) + Len(todo) - 1
          /\ Shifted(todo', calls, Len(calls), todo, Len(todo)) /\ Harmless(calls, Len(calls), DOMAIN live')
          /\ \A p \in LogParams : static'[p] = "none" => static[p] = "none"
      BY <2>1, Moved DEF Quiet
    <2>3. Orderly(todo', Len(todo'), DOMAIN live')
      BY <1>1, <1>2, <2>2, OrderlyPut
    <2>4. /\ \A p : Awaits(todo', Len(todo'), p) => Awaits(todo, Len(todo), p)
          /\ \A p : Awaits(todo, Len(todo), p) =>
                (todo[1][1] = "construct" /\ todo[1][2] = p) \/ Awaits(todo', Len(todo'), p)
          /\ \A do \in {"store", "copy", "destroy"} : Occurs(todo', Len(todo'), do) => Occurs(todo, Len(todo), do)
      BY <2>2, WaitingPut
    <2>5. \A p : p \in DOMAIN live' => p \in DOMAIN live \/ Awaits(todo, Len(todo), p)
      BY <1>1 DEF Makes, Awaits
    <2>6. \A p \in LogParams : static'[p] = "none" => p \notin DOMAIN live' /\ ~Awaits(todo', Len(todo'), p)
      BY <1>2, <2>2, <2>4, <2>5
    <2>7. ASSUME phase = "main" PROVE interval \in DOMAIN live' \/ Awaits(todo', Len(todo'), interval)
      <3>1. todo[1][1] # "destroy"
        BY <1>1, <1>2, <2>7 DEF Timely, Occurs
      <3>2. interval \in DOMAIN live => interval \in DOMAIN live'
        BY <1>1, <3>1 DEF Makes
      <3>3. todo[1][1] = "construct" /\ todo[1][2] = interval => interval \in DOMAIN live'
        BY <1>1 DEF Makes
      <3> QED
        BY <1>2, <2>4, <2>7, <3>2, <3>3 DEF Timely
    <2>8. Timely(todo, Len(todo), DOMAIN live)'
      BY <1>2, <1>3, <2>4, <2>5, <2>7 DEF Timely, InLoop
    <2> QED
      BY <2>3, <2>6, <2>8 DEF LifeInv
  <1>5. CASE \E calls : \E p \in LogParams : LogPuts(calls, p) /\ todo[1][1] = "log"
    <2> PICK calls : \E p \in LogParams : LogPuts(calls, p) /\ todo[1][1] = "log"
      BY <1>5
    <2>1. PICK p \in LogParams : LogPuts(calls, p) /\ todo[1][1] = "log"
      OBVIOUS
    <2>2. /\ static[p] = "none" /\ static' = [static EXCEPT ![p] = "running"] /\ DOMAIN static = LogParams
          /\ Replaced(calls) /\ Len(calls) = 3
          /\ calls[1][1] = "construct" /\ calls[1][2] = p
          /\ calls[2][1] = "ready" /\ calls[3] = todo[1]
      BY <2>1 DEF LogPuts, RegistryInv
    <2>3. /\ Len(todo) \in Nat \ {0} /\ Len(todo') = Len(calls) + Len(todo) - 1
          /\ Shifted(todo', calls, Len(calls), todo, Len(todo))
      BY <2>2, Moved
    <2>4. Needing(calls, Len(calls), p, todo)
      BY <2>2 DEF Needing
    <2>5. p \notin DOMAIN live /\ ~Awaits(todo, Len(todo), p)
      BY <1>2, <2>2
    <2>6. DOMAIN live' = DOMAIN live
      BY <1>1, <2>1 DEF Makes
    <2>7. Orderly(todo', Len(todo'), DOMAIN live)
      BY <1>2, <2>1, <2>3, <2>4, <2>5, OrderlyLog
    <2>8. /\ \A q : Awaits(todo', Len(todo'), q) => q = p \/ Awaits(todo, Len(todo), q)
          /\ \A q : Awaits(todo, Len(todo), q) => Awaits(todo', Len(todo'), q)
          /\ \A do \in {"store", "copy", "destroy"} : Occurs(todo', Len(todo'), do) => Occurs(todo, Len(todo), do)
      BY <2>3, <2>4, WaitingLog
    <2>9. \A q \in LogParams : static'[q] = "none" => q \notin DOMAIN live /\ ~Awaits(todo', Len(todo'), q)
      BY <1>2, <2>2, <2>8
    <2>10. \A i \in DOMAIN MainParams : MainParams[i] # p
      BY DEF ObjectAssumption
    <2>11. Timely(todo, Len(todo), DOMAIN live)'
      BY <1>2, <1>3, <2>6, <2>8, <2>10 DEF Timely, InLoop
    <2> QED
      BY <2>6, <2>7, <2>9, <2>11 DEF LifeInv
  <1> QED
    BY <1>1, <1>4, <1>5

\* The registry holds together.
LEMMA RegistryStep ==
    ASSUME StackInv, RegistryInv, LifeInv, ConfigAssumption, ConfigStep
    PROVE  RegistryInv'
  <1>1. /\ todo # <<>> /\ todo[1] \in Call /\ 1 \in 1..Len(todo) /\ Head(todo) = todo[1] /\ Object = todo[1][2]
    <2>1. todo # <<>> /\ todo[1] \in Call /\ 1 \in 1..Len(todo)
      BY Effects DEF LifeInv
    <2> QED
      BY <2>1, First DEF Object
  <1>2. /\ todo[1][1] = "construct" => Object \notin DOMAIN live
        /\ todo[1][1] \in {"parse", "copy", "destroy"} => Object \in DOMAIN live
    <2>1. 1..1 - 1 = {}
      OBVIOUS
    <2> QED
      BY <1>1, <2>1 DEF LifeInv, Orderly
  <1>3. CASE ConstructStep
    <2>1. /\ todo[1][1] = "construct" /\ Object \in Param /\ NameOf[Object] \in ParamName
          /\ live' = With(live, Object, Default[Object]) /\ constructed' = Append(constructed, Object)
          /\ subscribers' = [subscribers EXCEPT ![NameOf[Object]] = Append(@, Object)]
          /\ UNCHANGED <<environment, stored, copied, static>>
      BY <1>3, ConstructCalls DEF ConstructStep, ConfigAssumption
    <2>2. /\ DOMAIN live' = DOMAIN live \cup {Object} /\ live'[Object] = Default[Object]
          /\ \A p \in DOMAIN live : p # Object => live'[p] = live[p]
      BY <2>1 DEF With
    <2>3. DOMAIN live' \subseteq Param /\ \A p \in DOMAIN live' : live'[p] \in ValuesOf(p)
      BY <2>1, <2>2 DEF RegistryInv, ValuesOf
    <2>4. Object \notin DOMAIN live
      BY <1>2, <2>1
    <2>5. Lists(constructed', DOMAIN live')
      BY <2>1, <2>2, <2>4, ListsAppend DEF RegistryInv
    <2>6. ASSUME NEW n \in ParamName PROVE Lists(subscribers'[n], {p \in DOMAIN live' : NameOf[p] = n})
      <3> DEFINE S == {p \in DOMAIN live : NameOf[p] = n}
      <3>1. Lists(subscribers[n], S) /\ DOMAIN subscribers = ParamName
        BY DEF RegistryInv
      <3>2. CASE n = NameOf[Object]
        <4>1. {p \in DOMAIN live' : NameOf[p] = n} = S \cup {Object} /\ Object \notin S
          BY <2>2, <2>4, <3>2
        <4>2. subscribers'[n] = Append(subscribers[n], Object)
          BY <2>1, <3>1, <3>2
        <4> HIDE DEF S
        <4> QED
          BY <3>1, <4>1, <4>2, ListsAppend
      <3>3. CASE n # NameOf[Object]
        <4>1. {p \in DOMAIN live' : NameOf[p] = n} = S
          BY <2>2, <3>3
        <4> QED
          BY <2>1, <3>1, <3>3, <4>1
      <3> QED
        BY <3>2, <3>3
    <2>7. DOMAIN subscribers' = ParamName
      BY <2>1 DEF RegistryInv
    <2> QED
      BY <2>1, <2>3, <2>5, <2>6, <2>7 DEF RegistryInv
  <1>4. CASE CopyStep
    <2>1. /\ todo[1][1] = "copy" /\ copied' = With(copied, Object, live[Object])
          /\ UNCHANGED <<environment, stored, subscribers, live, constructed, static>>
      BY <1>4, NoCalls DEF CopyStep
    <2>2. Object \in DOMAIN live
      BY <1>2, <2>1
    <2>3. DOMAIN copied' \subseteq Param /\ \A p \in DOMAIN copied' : copied'[p] \in ValuesOf(p)
      BY <2>1, <2>2 DEF RegistryInv, With
    <2> QED
      BY <2>1, <2>3 DEF RegistryInv
  <1>5. CASE DestroyStep
    <2>1. /\ todo[1][1] = "destroy"
          /\ live' = [p \in DOMAIN live \ {Object} |-> live[p]] /\ constructed' = RemoveFirst(constructed, Object)
          /\ subscribers' = [subscribers EXCEPT ![NameOf[Object]] = RemoveFirst(@, Object)]
          /\ UNCHANGED <<environment, stored, copied, static>>
      BY <1>5, NoCalls DEF DestroyStep, Unsubscribed
    <2>2. /\ DOMAIN live' = DOMAIN live \ {Object} /\ \A p \in DOMAIN live' : live'[p] = live[p]
      BY <2>1
    <2>3. DOMAIN live' \subseteq Param /\ \A p \in DOMAIN live' : live'[p] \in ValuesOf(p)
      BY <2>2 DEF RegistryInv
    <2>4. Object \in DOMAIN live /\ NameOf[Object] \in ParamName
      BY <1>2, <2>1 DEF RegistryInv, ConfigAssumption
    <2>5. Lists(constructed', DOMAIN live')
      BY <2>1, <2>2, <2>4, ListsErase DEF RegistryInv
    <2>6. ASSUME NEW n \in ParamName PROVE Lists(subscribers'[n], {p \in DOMAIN live' : NameOf[p] = n})
      <3> DEFINE S == {p \in DOMAIN live : NameOf[p] = n}
      <3>1. Lists(subscribers[n], S) /\ DOMAIN subscribers = ParamName
        BY DEF RegistryInv
      <3>2. CASE n = NameOf[Object]
        <4>1. {p \in DOMAIN live' : NameOf[p] = n} = S \ {Object} /\ Object \in S
          BY <2>2, <2>4, <3>2
        <4>2. subscribers'[n] = RemoveFirst(subscribers[n], Object)
          BY <2>1, <3>1, <3>2
        <4> HIDE DEF S
        <4> QED
          BY <3>1, <4>1, <4>2, ListsErase
      <3>3. CASE n # NameOf[Object]
        <4>1. {p \in DOMAIN live' : NameOf[p] = n} = S
          BY <2>2, <3>3
        <4>2. subscribers'[n] = subscribers[n]
          BY <2>1, <3>1, <3>3
        <4> QED
          BY <3>1, <4>1, <4>2
      <3> QED
        BY <3>2, <3>3
    <2>7. DOMAIN subscribers' = ParamName
      BY <2>1 DEF RegistryInv
    <2> QED
      BY <2>1, <2>3, <2>5, <2>6, <2>7 DEF RegistryInv
  <1>6. CASE StoreStep
    <2>1. /\ todo[1][2] \in ParamName /\ todo[1][3] \in Text /\ stored' = [stored EXCEPT ![todo[1][2]] = todo[1][3]]
          /\ UNCHANGED <<environment, subscribers, live, constructed, copied, static>>
      BY <1>6, StoreCalls DEF StoreStep
    <2>2. stored' \in [ParamName -> Text \cup {Unset}]
      BY <2>1 DEF RegistryInv
    <2> QED
      BY <2>1, <2>2 DEF RegistryInv
  <1>7. CASE ParseStep
    <2>1. /\ todo[1][1] = "parse" /\ todo[1][3] \in Text /\ Head(todo) = todo[1]
          /\ UNCHANGED <<environment, stored, subscribers, constructed, copied, static>>
      BY <1>7, ParseCalls DEF ParseStep
    <2>2. live' = live \/ \E v \in Parses[<<Object, todo[1][3]>>] : live' = [live EXCEPT ![Object] = v]
      BY <1>7, <2>1 DEF ParseStep
    <2>3. DOMAIN live' = DOMAIN live /\ \A p \in DOMAIN live : live'[p] \in ValuesOf(p)
      <3>1. \A v \in Parses[<<Object, todo[1][3]>>] : v \in ValuesOf(Object)
        BY <2>1 DEF ValuesOf
      <3> QED
        BY <2>2, <3>1 DEF RegistryInv
    <2> QED
      BY <2>1, <2>3 DEF RegistryInv
  <1>8. CASE LeaveStep \/ LogStep \/ ReadyStep
    <2>1. UNCHANGED <<environment, stored, subscribers, live, constructed, copied>>
      BY <1>8 DEF LeaveStep, LogStep, ReadyStep, registryVars
    <2>2. static' \in [LogParams -> {"none", "running", "done"}]
      BY <1>8 DEF LeaveStep, LogStep, ReadyStep, Needs, RegistryInv, LogParams
    <2> QED
      BY <2>1, <2>2 DEF RegistryInv
  <1> QED
    BY <1>3, <1>4, <1>5, <1>6, <1>7, <1>8 DEF ConfigStep

-----------------------------------------------------------------------------
(* The calls main() starts with.                                           *)

\* What is constructed before main().
LEMMA StaticCalls ==
    ASSUME ConfigAssumption, ObjectAssumption
    PROVE  /\ Statics \in Seq(Call) /\ Len(Statics) \in Nat /\ DOMAIN Statics = 1..Len(Statics)
           /\ \A k \in 1..Len(Statics) :
                 /\ Statics[k] \in Call
                 /\ Statics[k][1] \in {"construct", "copy", "destroy", "log"}
                 /\ Statics[k][1] = "construct" => Statics[k][2] \in Param \ LogParams /\ Statics[k] = Construct(Statics[k][2])
                 /\ Statics[k][1] = "copy" => Statics[k][2] \in Param \ LogParams /\ Statics[k] = Copy(Statics[k][2])
                 /\ Statics[k][1] = "destroy" => Statics[k][2] \in Param \ LogParams /\ Statics[k] = Destroy(Statics[k][2])
  <1> DEFINE others == Param \ LogParams
             calls == UNION {{Construct(p), Copy(p), Destroy(p)} : p \in others}
             All == calls \cup {Log(sev) : sev \in DOMAIN severity}
  <1>1. Statics \in Seq(All)
    BY DEF ObjectAssumption
  <1>2. ASSUME NEW c \in All
        PROVE  /\ c \in Call
               /\ c[1] \in {"construct", "copy", "destroy", "log"}
               /\ c[1] = "construct" => c[2] \in others /\ c = Construct(c[2])
               /\ c[1] = "copy" => c[2] \in others /\ c = Copy(c[2])
               /\ c[1] = "destroy" => c[2] \in others /\ c = Destroy(c[2])
    <2>1. CASE c \in {Log(sev) : sev \in DOMAIN severity}
      <3>1. PICK sev \in DOMAIN severity : c = Log(sev)
        BY <2>1
      <3>2. c \in Call /\ c[1] = "log"
        BY <3>1, CallsMade
      <3> QED
        BY <3>2
    <2>2. ASSUME NEW p \in others, c \in {Construct(p), Copy(p), Destroy(p)}
          PROVE  /\ c \in Call
                 /\ c[1] \in {"construct", "copy", "destroy", "log"}
                 /\ c[1] = "construct" => c[2] \in others /\ c = Construct(c[2])
                 /\ c[1] = "copy" => c[2] \in others /\ c = Copy(c[2])
                 /\ c[1] = "destroy" => c[2] \in others /\ c = Destroy(c[2])
      <3>1. /\ Construct(p) \in Call /\ Construct(p)[1] = "construct" /\ Construct(p)[2] = p
            /\ Copy(p) \in Call /\ Copy(p)[1] = "copy" /\ Copy(p)[2] = p
            /\ Destroy(p) \in Call /\ Destroy(p)[1] = "destroy" /\ Destroy(p)[2] = p
        BY CallsMade
      <3>2. CASE c = Construct(p)
        BY <3>1, <3>2
      <3>3. CASE c = Copy(p)
        BY <3>1, <3>3
      <3>4. CASE c = Destroy(p)
        BY <3>1, <3>4
      <3> QED
        BY <2>2, <3>2, <3>3, <3>4
    <2> QED
      BY <2>1, <2>2
  <1> HIDE DEF calls, All
  <1>3. Len(Statics) \in Nat /\ DOMAIN Statics = 1..Len(Statics) /\ \A k \in 1..Len(Statics) : Statics[k] \in All
    BY <1>1
  <1>4. Statics \in Seq(Call)
    BY <1>1, <1>2, <1>3
  <1> QED
    BY <1>2, <1>3, <1>4

\* What a file sets.
LEMMA FileCalls ==
    ASSUME NEW options \in Seq(Option)
    PROVE  /\ File(options) \in Seq(Call) /\ Len(File(options)) = Len(options) + 1
           /\ File(options)[1][1] = "log" /\ Len(options) \in Nat
           /\ \A i \in 1..Len(options) : /\ options[i] \in Option
                                         /\ File(options)[i + 1] = Store(options[i][1], options[i][2])
                                         /\ File(options)[i + 1][1] = "store"
  <1> DEFINE s == [i \in DOMAIN options |-> Store(options[i][1], options[i][2])]
             a == <<Log("debug")>>
  <1>1. Len(options) \in Nat /\ DOMAIN options = 1..Len(options) /\ \A i \in 1..Len(options) : options[i] \in Option
    OBVIOUS
  <1>2. \A o \in Option : o[1] \in ParamName /\ o[2] \in Text
    BY DEF Option
  <1>3. \A i \in 1..Len(options) : s[i] = Store(options[i][1], options[i][2]) /\ s[i] \in Call /\ s[i][1] = "store"
    BY <1>1, <1>2, CallsMade
  <1>4. s \in Seq(Call) /\ Len(s) = Len(options)
    BY <1>1, <1>3
  <1>5. "debug" \in DOMAIN severity
    BY DEF severity
  <1>6. Log("debug") \in Call /\ Log("debug")[1] = "log"
    BY <1>5, CallsMade
  <1>7. a \in Seq(Call) /\ Len(a) = 1 /\ a[1] = Log("debug")
    BY <1>6
  <1>8. File(options) = a \o s
    BY DEF File
  <1> HIDE DEF a, s
  <1>9. /\ a \o s \in Seq(Call) /\ Len(a \o s) = Len(a) + Len(s)
        /\ \A k \in 1..Len(a) + Len(s) : (a \o s)[k] = IF k <= Len(a) THEN a[k] ELSE s[k - Len(a)]
    BY <1>4, <1>7, ConcatProperties
  <1>10. File(options)[1][1] = "log"
    BY <1>1, <1>4, <1>6, <1>7, <1>8, <1>9
  <1>11. ASSUME NEW i \in 1..Len(options) PROVE File(options)[i + 1] = s[i]
    <2>1. i + 1 \in 1..Len(a) + Len(s) /\ ~(i + 1 <= Len(a)) /\ i + 1 - Len(a) = i
      BY <1>1, <1>4, <1>7
    <2> QED
      BY <1>8, <1>9, <2>1
  <1> QED
    BY <1>1, <1>3, <1>4, <1>7, <1>8, <1>9, <1>10, <1>11

\* A list in three parts.
LEMMA ThreeParts ==
    ASSUME NEW S, NEW a \in Seq(S), NEW b \in Seq(S), NEW c \in Seq(S)
    PROVE  /\ a \o b \o c \in Seq(S) /\ Len(a \o b \o c) = Len(a) + Len(b) + Len(c)
           /\ \A k \in 1..Len(a) : (a \o b \o c)[k] = a[k]
           /\ \A k \in 1..Len(b) : (a \o b \o c)[Len(a) + k] = b[k]
           /\ \A k \in 1..Len(c) : (a \o b \o c)[Len(a) + Len(b) + k] = c[k]
  <1>1. /\ a \o b \in Seq(S) /\ Len(a \o b) = Len(a) + Len(b)
        /\ \A k \in 1..Len(a) + Len(b) : (a \o b)[k] = IF k <= Len(a) THEN a[k] ELSE b[k - Len(a)]
    BY ConcatProperties
  <1>2. /\ (a \o b) \o c \in Seq(S) /\ Len((a \o b) \o c) = Len(a \o b) + Len(c)
        /\ \A k \in 1..Len(a \o b) + Len(c) :
              ((a \o b) \o c)[k] = IF k <= Len(a \o b) THEN (a \o b)[k] ELSE c[k - Len(a \o b)]
    BY <1>1, ConcatProperties
  <1>3. Len(a) \in Nat /\ Len(b) \in Nat /\ Len(c) \in Nat
    OBVIOUS
  <1> PICK t : t = (a \o b) \o c
    OBVIOUS
  <1>4. /\ t \in Seq(S) /\ Len(t) = Len(a) + Len(b) + Len(c)
        /\ \A k \in 1..Len(a) + Len(b) : t[k] = IF k <= Len(a) THEN a[k] ELSE b[k - Len(a)]
    BY <1>1, <1>2, <1>3
  <1>5. ASSUME NEW k \in 1..Len(c) PROVE t[Len(a) + Len(b) + k] = c[k]
    <2>1. /\ Len(a) + Len(b) + k \in 1..Len(a \o b) + Len(c) /\ ~(Len(a) + Len(b) + k <= Len(a \o b))
          /\ Len(a) + Len(b) + k - Len(a \o b) = k
      BY <1>1, <1>3
    <2> QED
      BY <1>2, <2>1
  <1>6. ASSUME NEW k \in 1..Len(b) PROVE t[Len(a) + k] = b[k]
    <2>1. Len(a) + k \in 1..Len(a) + Len(b) /\ ~(Len(a) + k <= Len(a)) /\ Len(a) + k - Len(a) = k
      BY <1>3
    <2> QED
      BY <1>4, <2>1
  <1>7. ASSUME NEW k \in 1..Len(a) PROVE t[k] = a[k]
    <2>1. k \in 1..Len(a) + Len(b) /\ k <= Len(a)
      BY <1>3
    <2> QED
      BY <1>4, <2>1
  <1> QED
    BY <1>4, <1>5, <1>6, <1>7

\* The calls t before main(): the files', then the static objects'.
BeforeMain(t, c, e, d, z) ==
    /\ t \in Seq(Call) /\ e \in Nat /\ d \in Nat /\ z \in Nat /\ Len(t) = e + d + z + 2
    /\ t[1][1] = "log" /\ t[e + 2][1] = "log"
    /\ \A i \in 1..e : /\ c.etc[i] \in Option /\ t[i + 1][1] = "store"
                       /\ t[i + 1] = Store(c.etc[i][1], c.etc[i][2])
    /\ \A i \in 1..d : /\ c.cwd[i] \in Option /\ t[e + i + 2][1] = "store"
                       /\ t[e + i + 2] = Store(c.cwd[i][1], c.cwd[i][2])
    /\ \A k \in 1..z : t[e + d + 2 + k] = Statics[k]

\* They are these.
LEMMA InitialCalls ==
    ASSUME ConfigAssumption, ProgramAssumption, ObjectAssumption, NEW c \in Configurations
    PROVE  BeforeMain(File(c.etc) \o File(c.cwd) \o Statics, c, Len(c.etc), Len(c.cwd), Len(Statics))
  <1>ab. PICK a, b : a = File(c.etc) /\ b = File(c.cwd)
    OBVIOUS
  <1>1. c.etc \in Seq(Option) /\ c.cwd \in Seq(Option)
    BY DEF ProgramAssumption
  <1>2. /\ a \in Seq(Call) /\ Len(a) = Len(c.etc) + 1 /\ a[1][1] = "log" /\ Len(c.etc) \in Nat
        /\ \A i \in 1..Len(c.etc) : /\ c.etc[i] \in Option /\ a[i + 1] = Store(c.etc[i][1], c.etc[i][2])
                                    /\ a[i + 1][1] = "store"
    BY <1>1, <1>ab, FileCalls
  <1>3. /\ b \in Seq(Call) /\ Len(b) = Len(c.cwd) + 1 /\ b[1][1] = "log" /\ Len(c.cwd) \in Nat
        /\ \A i \in 1..Len(c.cwd) : /\ c.cwd[i] \in Option /\ b[i + 1] = Store(c.cwd[i][1], c.cwd[i][2])
                                    /\ b[i + 1][1] = "store"
    BY <1>1, <1>ab, FileCalls
  <1>4. Statics \in Seq(Call) /\ Len(Statics) \in Nat
    BY StaticCalls
  <1>t. PICK t : t = a \o b \o Statics
    OBVIOUS
  <1>5. /\ t \in Seq(Call) /\ Len(t) = Len(a) + Len(b) + Len(Statics)
        /\ \A k \in 1..Len(a) : t[k] = a[k]
        /\ \A k \in 1..Len(b) : t[Len(a) + k] = b[k]
        /\ \A k \in 1..Len(Statics) : t[Len(a) + Len(b) + k] = Statics[k]
    <2>1. /\ a \o b \o Statics \in Seq(Call) /\ Len(a \o b \o Statics) = Len(a) + Len(b) + Len(Statics)
          /\ \A k \in 1..Len(a) : (a \o b \o Statics)[k] = a[k]
          /\ \A k \in 1..Len(b) : (a \o b \o Statics)[Len(a) + k] = b[k]
          /\ \A k \in 1..Len(Statics) : (a \o b \o Statics)[Len(a) + Len(b) + k] = Statics[k]
      <3>1. a \in Seq(Call) /\ b \in Seq(Call) /\ Statics \in Seq(Call)
        BY <1>2, <1>3, <1>4
      <3> QED
        BY <3>1, ThreeParts
    <2> QED
      BY <1>t, <2>1
  <1>e. PICK e \in Nat, d \in Nat, z \in Nat : e = Len(c.etc) /\ d = Len(c.cwd) /\ z = Len(Statics)
    BY <1>2, <1>3, <1>4
  <1>6. /\ t \in Seq(Call) /\ Len(t) = e + d + z + 2
        /\ \A k \in 1..e + 1 : t[k] = a[k]
        /\ \A k \in 1..d + 1 : t[e + 1 + k] = b[k]
        /\ \A k \in 1..z : t[e + d + 2 + k] = Statics[k]
    <2>1. Len(a) = e + 1 /\ Len(b) = d + 1 /\ Len(Statics) = z
      BY <1>2, <1>3, <1>e
    <2>2. /\ t \in Seq(Call) /\ Len(t) = (e + 1) + (d + 1) + z
          /\ \A k \in 1..e + 1 : t[k] = a[k]
          /\ \A k \in 1..d + 1 : t[(e + 1) + k] = b[k]
          /\ \A k \in 1..z : t[(e + 1) + (d + 1) + k] = Statics[k]
      BY <1>5, <2>1
    <2>3. \A k \in 1..z : (e + 1) + (d + 1) + k = e + d + 2 + k
      OBVIOUS
    <2> QED
      BY <2>2, <2>3
  <1>7. t[1][1] = "log" /\ t[e + 2][1] = "log"
    <2>1. 1 \in 1..e + 1 /\ 1 \in 1..d + 1 /\ e + 1 + 1 = e + 2
      OBVIOUS
    <2>2. t[1] = a[1]
      BY <1>6, <2>1
    <2>3. t[e + 2] = b[1]
      BY <1>6, <2>1
    <2> QED
      BY <1>2, <1>3, <2>2, <2>3
  <1>8. \A i \in 1..e : t[i + 1] = a[i + 1]
    BY <1>6
  <1>9. ASSUME NEW i \in 1..d PROVE t[e + i + 2] = b[i + 1]
    <2>1. i + 1 \in 1..d + 1 /\ e + 1 + (i + 1) = e + i + 2
      OBVIOUS
    <2> QED
      BY <1>6, <2>1
  <1>10. /\ \A i \in 1..e : /\ c.etc[i] \in Option /\ t[i + 1][1] = "store"
                            /\ t[i + 1] = Store(c.etc[i][1], c.etc[i][2])
         /\ \A i \in 1..d : /\ c.cwd[i] \in Option /\ t[e + i + 2][1] = "store"
                            /\ t[e + i + 2] = Store(c.cwd[i][1], c.cwd[i][2])
    <2>1. \A i \in 1..e : /\ c.etc[i] \in Option /\ a[i + 1][1] = "store"
                          /\ a[i + 1] = Store(c.etc[i][1], c.etc[i][2])
      BY <1>2, <1>e
    <2>2. \A i \in 1..d : /\ c.cwd[i] \in Option /\ b[i + 1][1] = "store"
                          /\ b[i + 1] = Store(c.cwd[i][1], c.cwd[i][2])
      BY <1>3, <1>e
    <2> QED
      <3>1. ASSUME NEW i \in 1..e
            PROVE  /\ c.etc[i] \in Option /\ t[i + 1][1] = "store"
                   /\ t[i + 1] = Store(c.etc[i][1], c.etc[i][2])
        BY <1>8, <2>1
      <3>2. ASSUME NEW i \in 1..d
            PROVE  /\ c.cwd[i] \in Option /\ t[e + i + 2][1] = "store"
                   /\ t[e + i + 2] = Store(c.cwd[i][1], c.cwd[i][2])
        BY <1>9, <2>2
      <3> QED
        BY <3>1, <3>2, Zenon
  <1> QED
    <2>1. BeforeMain(t, c, e, d, z)
      BY <1>6, <1>7, <1>10, Zenon DEF BeforeMain
    <2> QED
      BY <1>ab, <1>t, <1>e, <2>1, Zenon

\* Calls that none of them calls in turn, while the mutex is free.
LEMMA StackFresh ==
    ASSUME NEW t \in Seq(Call), \A k \in 1..Len(t) : t[k][1] \notin {"parse", "leave"}
    PROVE  \E depth : Depths(t, Len(t), 0, depth)
  <1> PICK n \in Nat : n = Len(t)
    OBVIOUS
  <1> DEFINE depth == [k \in 1..n + 1 |-> 0]
  <1>1. Depths(t, n, 0, depth)
    BY DEF Depths, Allowed
  <1> QED
    BY <1>1

\* The argument list is one the configuration may have, and only the phases there
\* are occur.
ArgumentsInv ==
    /\ given \in Configurations /\ phase \in Phases
    /\ arguments \in Seq(Option \cup {BadArgument})

StartInv == StackInv /\ RegistryInv /\ LifeInv /\ ArgumentsInv

\* The program starts in order.
LEMMA StartInit ==
    ASSUME ConfigAssumption, ProgramAssumption, ObjectAssumption, Init
    PROVE  StartInv
  <1>0. BeforeMain(todo, given, Len(given.etc), Len(given.cwd), Len(Statics))
    BY InitialCalls DEF Init
  <1>e. PICK e \in Nat, d \in Nat, z \in Nat : e = Len(given.etc) /\ d = Len(given.cwd) /\ z = Len(Statics)
    BY <1>0, Zenon DEF BeforeMain
  <1>1. /\ todo \in Seq(Call) /\ Len(todo) = e + d + z + 2
        /\ todo[1][1] = "log" /\ todo[e + 2][1] = "log"
        /\ \A i \in 1..e : todo[i + 1][1] = "store"
        /\ \A i \in 1..d : todo[e + i + 2][1] = "store"
        /\ \A k \in 1..z : todo[e + d + 2 + k] = Statics[k]
    <2>1. BeforeMain(todo, given, e, d, z)
      BY <1>0, <1>e
    <2> QED
      BY <2>1, Zenon DEF BeforeMain
  <1>2. /\ \A k \in 1..z :
              /\ Statics[k] \in Call
              /\ Statics[k][1] \in {"construct", "copy", "destroy", "log"}
              /\ Statics[k][1] = "construct" => Statics[k][2] \in Param \ LogParams /\ Statics[k] = Construct(Statics[k][2])
              /\ Statics[k][1] = "copy" => Statics[k][2] \in Param \ LogParams /\ Statics[k] = Copy(Statics[k][2])
              /\ Statics[k][1] = "destroy" => Statics[k][2] \in Param \ LogParams /\ Statics[k] = Destroy(Statics[k][2])
        /\ DOMAIN Statics = 1..z
    BY <1>e, StaticCalls
  <1>3. /\ \A j, k \in 1..z : Statics[j] = Statics[k] /\ Statics[j][1] \in {"construct", "destroy"} => j = k
        /\ \A p \in Param \ LogParams, k \in 1..z : Statics[k] \in {Copy(p), Destroy(p)} =>
              /\ \E j \in 1..k - 1 : Statics[j] = Construct(p)
              /\ \A j \in 1..k - 1 : Statics[j] # Destroy(p)
        /\ \A j \in DOMAIN MainParams, k \in 1..z : Statics[k] # Construct(MainParams[j])
    BY <1>2 DEF ObjectAssumption
  <1>n. PICK n \in Nat : n = e + d + z + 2
    OBVIOUS
  <1>4. ASSUME NEW k \in 1..n
        PROVE  \/ todo[k][1] \in {"log", "store"}
               \/ \E j \in 1..z : k = e + d + 2 + j /\ todo[k] = Statics[j]
    <2>1. CASE k = 1 \/ k = e + 2
      BY <1>1, <2>1
    <2>2. CASE k \in 2..e + 1
      <3>1. PICK j \in 1..e : k = j + 1
        <4>1. k - 1 \in 1..e /\ k = (k - 1) + 1
          BY <2>2
        <4> QED
          BY <4>1, Zenon
      <3> QED
        BY <1>1, <3>1, Zenon
    <2>3. CASE k \in e + 3..e + d + 2
      <3>1. PICK j \in 1..d : k = e + j + 2
        <4>1. k - e - 2 \in 1..d /\ k = e + (k - e - 2) + 2
          BY <2>3
        <4> QED
          BY <4>1, Zenon
      <3> QED
        BY <1>1, <3>1, Zenon
    <2>4. CASE k \in e + d + 3..n
      <3>1. PICK j \in 1..z : k = e + d + 2 + j
        <4>1. k - e - d - 2 \in 1..z /\ k = e + d + 2 + (k - e - d - 2)
          BY <1>n, <2>4
        <4> QED
          BY <4>1, Zenon
      <3> QED
        BY <1>1, <3>1, Zenon
    <2> QED
      BY <1>n, <2>1, <2>2, <2>3, <2>4
  <1>5. StackInv
    <2>1. ASSUME NEW k \in 1..n PROVE todo[k][1] \notin {"parse", "leave"}
      <3>1. PICK word : word = todo[k][1]
        OBVIOUS
      <3>2. word \in {"log", "store", "construct", "copy", "destroy"}
        BY <1>2, <1>4, <3>1
      <3> QED
        BY <3>1, <3>2
    <2>2. lock_recurse = 0
      BY DEF Init, ConfigInit
    <2> QED
      BY <1>1, <1>n, <2>1, <2>2, StackFresh DEF StackInv
  <1>6. /\ live = None /\ DOMAIN live = {} /\ static = [p \in LogParams |-> "none"] /\ phase = "static"
        /\ copied = None /\ constructed = <<>> /\ subscribers = [m \in ParamName |-> <<>>]
        /\ stored = [m \in ParamName |-> Unset] /\ environment = given.environment /\ given \in Configurations
        /\ arguments = given.arguments
    BY DEF Init, ConfigInit, None
  <1>7. RegistryInv
    <2>1. environment \in [ParamName -> Text \cup {Unset}]
      BY <1>6 DEF ProgramAssumption
    <2>2. Lists(<<>>, {})
      BY DEF Lists
    <2>3. \A m \in ParamName : {p \in DOMAIN live : NameOf[p] = m} = {}
      BY <1>6
    <2> QED
      BY <1>6, <2>1, <2>2, <2>3 DEF RegistryInv, None
  <1>8. ASSUME NEW k \in 1..n, todo[k][1] \in {"construct", "copy", "destroy"}
        PROVE  \E j \in 1..z : /\ k = e + d + 2 + j /\ todo[k] = Statics[j]
                               /\ Statics[j][1] = todo[k][1] /\ Statics[j][2] = todo[k][2]
    BY <1>4, <1>8
  <1>9. Orderly(todo, n, {})
    <2>1. ASSUME NEW k \in 1..n PROVE todo[k][1] # "parse"
      <3>1. PICK word : word = todo[k][1]
        OBVIOUS
      <3>2. word \in {"log", "store", "construct", "copy", "destroy"}
        BY <1>2, <1>4, <3>1
      <3> QED
        BY <3>1, <3>2
    <2>2. ASSUME NEW k \in 1..n, todo[k][1] \in {"copy", "destroy"}
          PROVE  \E j \in 1..k - 1 : todo[j][1] = "construct" /\ todo[j][2] = todo[k][2]
      <3>1. PICK i \in 1..z : /\ k = e + d + 2 + i /\ todo[k] = Statics[i]
                              /\ Statics[i][1] = todo[k][1] /\ Statics[i][2] = todo[k][2]
        BY <1>8, <2>2
      <3>3. todo[k][2] \in Param \ LogParams /\ Statics[i] \in {Copy(todo[k][2]), Destroy(todo[k][2])}
        BY <1>2, <2>2, <3>1
      <3>2. PICK j \in 1..i - 1 : Statics[j] = Construct(todo[k][2])
        BY <1>3, <3>3, Zenon
      <3>4. Statics[j][1] = "construct" /\ Statics[j][2] = todo[k][2]
        BY <3>2, <3>3, CallsMade
      <3>5. e + d + 2 + j \in 1..k - 1 /\ j \in 1..z
        BY <3>1
      <3>6. todo[e + d + 2 + j] = Statics[j]
        BY <1>1, <3>5, Zenon
      <3> QED
        BY <3>4, <3>5, <3>6, Zenon
    <2>3. ASSUME NEW j \in 1..n, NEW k \in 1..n,
                 todo[j][1] \in {"construct", "destroy"}, todo[k][1] = todo[j][1], todo[k][2] = todo[j][2]
          PROVE  j = k
      <3>1. PICK a \in 1..z : /\ j = e + d + 2 + a /\ todo[j] = Statics[a]
                              /\ Statics[a][1] = todo[j][1] /\ Statics[a][2] = todo[j][2]
        BY <1>8, <2>3
      <3>2. PICK b \in 1..z : /\ k = e + d + 2 + b /\ todo[k] = Statics[b]
                              /\ Statics[b][1] = todo[k][1] /\ Statics[b][2] = todo[k][2]
        BY <1>8, <2>3
      <3>3. Statics[a] = Statics[b]
        BY <1>2, <2>3, <3>1, <3>2
      <3>4. a = b
        BY <1>3, <2>3, <3>1, <3>3
      <3> QED
        BY <3>1, <3>2, <3>4
    <2>4. ASSUME NEW j \in 1..n, NEW k \in 1..n, todo[j][1] = "destroy", todo[k][1] = "copy", todo[k][2] = todo[j][2]
          PROVE  k < j
      <3>1. PICK a \in 1..z : /\ j = e + d + 2 + a /\ todo[j] = Statics[a]
                              /\ Statics[a][1] = todo[j][1] /\ Statics[a][2] = todo[j][2]
        BY <1>8, <2>4
      <3>2. PICK b \in 1..z : /\ k = e + d + 2 + b /\ todo[k] = Statics[b]
                              /\ Statics[b][1] = todo[k][1] /\ Statics[b][2] = todo[k][2]
        BY <1>8, <2>4
      <3>3. todo[j][2] \in Param \ LogParams /\ Statics[a] = Destroy(todo[j][2]) /\ Statics[b] = Copy(todo[j][2])
        BY <1>2, <2>4, <3>1, <3>2
      <3>4. a \notin 1..b - 1
        BY <1>3, <3>3
      <3>5. a # b
        BY <2>4, <3>1, <3>2
      <3>6. j = e + d + 2 + a /\ k = e + d + 2 + b
        BY <3>1, <3>2
      <3> QED
        BY <3>4, <3>5, <3>6
    <2> QED
      BY <2>1, <2>2, <2>3, <2>4 DEF Orderly
  <1>10. ASSUME NEW p, Awaits(todo, n, p)
         PROVE  p \in Param \ LogParams /\ \A j \in DOMAIN MainParams : MainParams[j] # p
    <2>1. PICK k \in 1..n : todo[k][1] = "construct" /\ todo[k][2] = p
      BY <1>10 DEF Awaits
    <2>2. PICK i \in 1..z : Statics[i][1] = "construct" /\ Statics[i][2] = p
      <3>1. todo[k][1] \in {"construct", "copy", "destroy"}
        BY <2>1
      <3>2. PICK i \in 1..z : Statics[i][1] = todo[k][1] /\ Statics[i][2] = todo[k][2]
        BY <1>8, <3>1, Zenon
      <3> QED
        BY <2>1, <3>2, Zenon
    <2> QED
      <3>1. p \in Param \ LogParams /\ Statics[i] = Construct(p)
        BY <1>2, <2>2
      <3> QED
        BY <1>3, <3>1
  <1>11. LifeInv
    <2>1. Timely(todo, n, {})
      BY <1>6, <1>10 DEF Timely, InLoop
    <2> QED
      BY <1>1, <1>n, <1>6, <1>9, <1>10, <2>1 DEF LifeInv
  <1>12. ArgumentsInv
    BY <1>6 DEF ArgumentsInv, ProgramAssumption, Phases
  <1> QED
    BY <1>5, <1>7, <1>11, <1>12 DEF StartInv

\* Between the calls nobody holds the mutex, and nothing is waiting.
LEMMA Idle ==
    ASSUME StartInv, todo = <<>>
    PROVE  /\ lock_recurse = 0 /\ Len(todo) = 0
           /\ \A do : ~Occurs(todo, 0, do)
           /\ \A p : ~Awaits(todo, 0, p)
           /\ Timely(todo, 0, DOMAIN live)
  <1>1. Len(todo) = 0
    OBVIOUS
  <1>2. PICK depth : Depths(todo, 0, lock_recurse, depth)
    BY <1>1 DEF StartInv, StackInv
  <1> QED
    BY <1>1, <1>2 DEF Depths, Occurs, Awaits, StartInv, LifeInv

\* What main() itself calls while nothing is waiting.
LEMMA StackCalled ==
    ASSUME StartInv, todo = <<>>, UNCHANGED lock_recurse,
           todo' \in Seq(Call), \A k \in 1..Len(todo') : todo'[k][1] \notin {"parse", "leave"}
    PROVE  StackInv'
  <1>1. lock_recurse' = 0
    BY Idle
  <1>2. \E depth : Depths(todo', Len(todo'), 0, depth)
    BY StackFresh
  <1> QED
    BY <1>1, <1>2 DEF StackInv

\* An option of the command line is set.
LEMMA ArgumentStart ==
    ASSUME StartInv, Argument, ConfigAssumption, ProgramAssumption
    PROVE  StartInv'
  <1>1. /\ phase = "arguments" /\ todo = <<>> /\ arguments # <<>> /\ arguments' = Tail(arguments)
        /\ UNCHANGED <<given, environment, stored, subscribers, live, constructed, copied, static, lock_recurse>>
    BY DEF Argument, registryVars
  <1>3. arguments \in Seq(Option \cup {BadArgument}) /\ Head(arguments) \in Option \cup {BadArgument}
    BY <1>1 DEF StartInv, ArgumentsInv
  <1>4. arguments' \in Seq(Option \cup {BadArgument})
    BY <1>1, <1>3
  <1>5. RegistryInv'
    BY <1>1 DEF StartInv, RegistryInv
  <1>6. ArgumentsInv'
    BY <1>1, <1>4 DEF Argument, StartInv, ArgumentsInv, Phases
  <1>7. CASE Head(arguments) = BadArgument
    <2>1. todo' = <<>> /\ Len(todo') = 0 /\ phase' = "exit"
      BY <1>3, <1>7 DEF Argument
    <2>2. StackInv'
      BY <1>1, <2>1, StackCalled
    <2>3. LifeInv'
      BY <1>1, <2>1 DEF StartInv, LifeInv, Orderly, Timely, InLoop, Occurs, Awaits
    <2> QED
      BY <1>5, <1>6, <2>2, <2>3 DEF StartInv
  <1>8. CASE Head(arguments) # BadArgument
    <2>1. PICK n \in ParamName, text \in Text : todo' = <<Store(n, text)>> /\ phase' = phase
      BY <1>3, <1>8 DEF Argument, Option
    <2>2. Store(n, text) \in Call /\ Store(n, text)[1] = "store"
      BY CallsMade
    <2>3. todo' \in Seq(Call) /\ Len(todo') = 1 /\ \A k \in 1..1 : todo'[k][1] = "store"
      BY <2>1, <2>2
    <2>4. StackInv'
      BY <1>1, <2>3, StackCalled
    <2>5. Orderly(todo', 1, DOMAIN live)
      BY <2>3 DEF Orderly
    <2>6. ~Occurs(todo', 1, "copy") /\ ~Occurs(todo', 1, "destroy") /\ \A p : ~Awaits(todo', 1, p)
      BY <2>3 DEF Occurs, Awaits
    <2>7. LifeInv'
      BY <1>1, <2>1, <2>3, <2>5, <2>6 DEF StartInv, LifeInv, Timely, InLoop
    <2> QED
      BY <1>5, <1>6, <2>4, <2>7 DEF StartInv
  <1> QED
    BY <1>7, <1>8

\* main()'s parameters are constructed.
LEMMA BeginStart ==
    ASSUME StartInv, Begin, ConfigAssumption, ObjectAssumption
    PROVE  StartInv'
  <1>1. /\ phase = "arguments" /\ todo = <<>> /\ phase' = "main"
        /\ todo' = [i \in DOMAIN MainParams |-> Construct(MainParams[i])]
        /\ UNCHANGED <<given, arguments, environment, stored, subscribers, live, constructed, copied, static, lock_recurse>>
    BY DEF Begin, registryVars
  <1>2. PICK m \in Nat : m = Len(MainParams) /\ DOMAIN MainParams = 1..m
    BY DEF ObjectAssumption
  <1>3. /\ \A k \in 1..m : MainParams[k] \in Param \ LogParams
        /\ \A j, k \in 1..m : MainParams[j] = MainParams[k] => j = k
        /\ \E k \in 1..m : MainParams[k] = interval
    BY <1>2 DEF ObjectAssumption
  <1>4. \A k \in 1..m : todo'[k] \in Call /\ todo'[k][1] = "construct" /\ todo'[k][2] = MainParams[k]
    BY <1>1, <1>2, <1>3, CallsMade
  <1>5. todo' \in Seq(Call) /\ Len(todo') = m
    BY <1>1, <1>2, <1>4
  <1>6. StackInv'
    BY <1>1, <1>4, <1>5, StackCalled
  <1>7. RegistryInv' /\ ArgumentsInv'
    BY <1>1 DEF StartInv, RegistryInv, ArgumentsInv, Phases
  <1>8. \A k \in 1..m : MainParams[k] \notin DOMAIN live
    BY <1>1, <1>2 DEF StartInv, LifeInv, Timely
  <1>9. Orderly(todo', m, DOMAIN live)
    <2>1. \A j, k \in 1..m : todo'[k][2] = todo'[j][2] => j = k
      BY <1>3, <1>4
    <2> QED
      BY <1>4, <1>8, <2>1 DEF Orderly
  <1>10. /\ ~Occurs(todo', m, "store") /\ ~Occurs(todo', m, "copy") /\ ~Occurs(todo', m, "destroy")
         /\ Awaits(todo', m, interval)
         /\ \A p \in LogParams : ~Awaits(todo', m, p)
    <2>1. ~Occurs(todo', m, "store") /\ ~Occurs(todo', m, "copy") /\ ~Occurs(todo', m, "destroy")
      BY <1>4 DEF Occurs
    <2>2. Awaits(todo', m, interval)
      BY <1>3, <1>4 DEF Awaits
    <2>3. \A p \in LogParams : ~Awaits(todo', m, p)
      BY <1>3, <1>4 DEF Awaits
    <2> QED
      BY <2>1, <2>2, <2>3
  <1>11. LifeInv'
    BY <1>1, <1>5, <1>9, <1>10 DEF StartInv, LifeInv, Timely, InLoop
  <1> QED
    BY <1>6, <1>7, <1>11 DEF StartInv

\* The last parameter goes.
LEMMA DestroyStart ==
    ASSUME StartInv, DestroyLast
    PROVE  StartInv'
  <1>1. /\ phase = "exit" /\ todo = <<>> /\ constructed # <<>>
        /\ todo' = <<Destroy(constructed[Len(constructed)])>>
        /\ UNCHANGED <<phase, given, arguments, environment, stored, subscribers, live, constructed, copied, static, lock_recurse>>
    BY DEF DestroyLast, mainVars, registryVars
  <1>2. PICK p \in DOMAIN live : p \in Param /\ p = constructed[Len(constructed)]
    BY <1>1 DEF StartInv, RegistryInv, Lists
  <1>3. Destroy(p) \in Call /\ Destroy(p)[1] = "destroy" /\ Destroy(p)[2] = p
    BY <1>2, CallsMade
  <1>4. todo' \in Seq(Call) /\ Len(todo') = 1 /\ \A k \in 1..1 : todo'[k][1] = "destroy" /\ todo'[k][2] = p
    BY <1>1, <1>2, <1>3
  <1>5. StackInv'
    BY <1>1, <1>4, StackCalled
  <1>6. RegistryInv' /\ ArgumentsInv'
    BY <1>1 DEF StartInv, RegistryInv, ArgumentsInv
  <1>7. Orderly(todo', 1, DOMAIN live)
    BY <1>4 DEF Orderly
  <1>8. ~Occurs(todo', 1, "store") /\ ~Occurs(todo', 1, "copy") /\ \A q : ~Awaits(todo', 1, q)
    BY <1>4 DEF Occurs, Awaits
  <1>9. LifeInv'
    BY <1>1, <1>4, <1>7, <1>8 DEF StartInv, LifeInv, Timely, InLoop
  <1> QED
    BY <1>5, <1>6, <1>9 DEF StartInv

\* main() goes on while nothing is waiting.
LEMMA PhaseStart ==
    ASSUME StartInv, todo = <<>>, UNCHANGED <<configVars, given, arguments>>, phase' \in Phases,
           phase' = "arguments" => phase = "static",
           phase' = "static" => phase = "static",
           phase' = "main" => phase = "main",
           InLoop' => phase = "main" \/ InLoop
    PROVE  StartInv'
  <1>1. UNCHANGED <<todo, environment, stored, subscribers, live, constructed, copied, static, lock_recurse>>
    BY DEF configVars, registryVars
  <1>2. StackInv' /\ RegistryInv' /\ ArgumentsInv'
    BY <1>1 DEF StartInv, StackInv, RegistryInv, ArgumentsInv
  <1>3. /\ Len(todo) = 0 /\ Timely(todo, 0, DOMAIN live)
        /\ \A do : ~Occurs(todo, 0, do)
        /\ \A p : ~Awaits(todo, 0, p)
    BY Idle
  <1>4. Timely(todo, 0, DOMAIN live)'
    BY <1>1, <1>3 DEF Timely, InLoop
  <1>5. LifeInv'
    BY <1>1, <1>3, <1>4 DEF StartInv, LifeInv
  <1> QED
    BY <1>2, <1>5 DEF StartInv

\* Every step of the program.
LEMMA StartNext ==
    ASSUME StartInv, ConfigAssumption, ProgramAssumption, ObjectAssumption, [Next]_vars
    PROVE  StartInv'
  <1>1. InLoop => todo = <<>>
    BY DEF StartInv, StackInv, LifeInv, Timely
  <1>2. CASE Calls
    <2>1. ConfigStep /\ UNCHANGED <<given, phase, arguments>>
      BY <1>2 DEF Calls, mainVars
    <2>2. StackInv'
      BY <2>1, StackStep DEF StartInv
    <2>3. RegistryInv'
      BY <2>1, RegistryStep DEF StartInv
    <2>4. LifeInv'
      BY <2>1, LifeStep DEF StartInv
    <2>5. ArgumentsInv'
      BY <2>1 DEF StartInv, ArgumentsInv
    <2> QED
      BY <2>2, <2>3, <2>4, <2>5 DEF StartInv
  <1>3. CASE Argument
    BY <1>3, ArgumentStart
  <1>4. CASE Begin
    BY <1>4, BeginStart
  <1>5. CASE DestroyLast
    BY <1>5, DestroyStart
  <1>6. CASE Constructed \/ FirstPass \/ Exited
    BY <1>6, PhaseStart DEF Constructed, FirstPass, Exited, InLoop, Phases
  <1>7. CASE Reconnect \/ Write \/ Pace \/ Wake \/ Stop
    <2>1. todo = <<>>
      BY <1>1, <1>7 DEF Reconnect, Write, Pace, Wake, Stop, InLoop
    <2> QED
      BY <1>7, <2>1, PhaseStart DEF Reconnect, Write, Pace, Wake, Stop, InLoop, Phases
  <1>8. CASE Close \/ Kill \/ Tick \/ ClockStep \/ Unplug \/ UNCHANGED vars
    <2>1. UNCHANGED <<phase, given, arguments, todo, environment, stored, subscribers, live, constructed,
                      copied, static, lock_recurse>>
      BY <1>8 DEF Close, Kill, Tick, ClockStep, Unplug, vars, mainVars, configVars, registryVars
    <2> QED
      BY <2>1 DEF StartInv, StackInv, RegistryInv, LifeInv, Timely, InLoop, ArgumentsInv
  <1> QED
    BY <1>2, <1>3, <1>4, <1>5, <1>6, <1>7, <1>8 DEF Next, Main

\* From the first static object to the last destructor.
LEMMA StartCorrect == Spec => []StartInv
  <1>1. Init => StartInv
    BY StartInit, ConfigAssumption, ProgramAssumption, ObjectAssumption
  <1>2. StartInv /\ [Next]_vars => StartInv'
    BY StartNext, ConfigAssumption, ProgramAssumption, ObjectAssumption
  <1> QED
    BY <1>1, <1>2, PTL DEF Spec

-----------------------------------------------------------------------------
(* What has been said of each name.                                        *)

\* An option that concerns a name.
About(option, n) == option # BadArgument /\ option[1] = n

\* v is what the first r options say of the name n.
Says(options, r, n, v) ==
    \/ v = Unset /\ \A i \in 1..r : ~About(options[i], n)
    \/ \E i \in 1..r : /\ About(options[i], n) /\ v = options[i][2]
                       /\ \A j \in i + 1..r : ~About(options[j], n)

\* The last option that concerns a name.
LEMMA LastSaid ==
    ASSUME NEW S, NEW options \in Seq(S), NEW n, NEW v, Says(options, Len(options), n, v)
    PROVE  LastOf(options, n) = v
  <1> DEFINE C == Concerning(options, n)
  <1>1. PICK m \in Nat : m = Len(options) /\ DOMAIN options = 1..m
    OBVIOUS
  <1>2. C = {k \in 1..m : About(options[k], n)}
    BY <1>1 DEF Concerning, About
  <1>3. CASE \A i \in 1..m : ~About(options[i], n)
    <2>1. C = {}
      BY <1>2, <1>3
    <2>2. v = Unset
      BY <1>1, <1>3 DEF Says
    <2> QED
      BY <2>1, <2>2 DEF LastOf
  <1>4. ASSUME NEW i \in 1..m, About(options[i], n), v = options[i][2],
               \A j \in i + 1..m : ~About(options[j], n)
        PROVE  LastOf(options, n) = v
    <2>1. i \in C /\ \A j \in C : j \in 1..m /\ j <= i
      BY <1>2, <1>4
    <2> HIDE DEF C
    <2>2. \A x \in C : (\A y \in C : x >= y) => x = i
      BY <2>1
    <2>3. \A y \in C : i >= y
      BY <2>1
    <2>4. Max(C) = i
      BY <2>1, <2>2, <2>3 DEF Max
    <2> QED
      BY <1>4, <2>1, <2>4 DEF LastOf, C
  <1> QED
    BY <1>1, <1>3, <1>4 DEF Says

\* One option more.
LEMMA SaysMore ==
    ASSUME NEW options, NEW r \in Nat, NEW n, NEW v, Says(options, r, n, v), options[r + 1] # BadArgument
    PROVE  Says(options, r + 1, n, IF options[r + 1][1] = n THEN options[r + 1][2] ELSE v)
  <1>1. CASE options[r + 1][1] = n
    <2>1. r + 1 \in 1..r + 1 /\ About(options[r + 1], n) /\ \A j \in (r + 1) + 1..r + 1 : ~About(options[j], n)
      BY <1>1 DEF About
    <2> QED
      BY <1>1, <2>1 DEF Says
  <1>2. CASE options[r + 1][1] # n
    <2>1. ~About(options[r + 1], n)
      BY <1>2 DEF About
    <2>2. \A i \in 1..r + 1 : i \in 1..r \/ i = r + 1
      OBVIOUS
    <2>3. CASE v = Unset /\ \A i \in 1..r : ~About(options[i], n)
      BY <1>2, <2>1, <2>2, <2>3 DEF Says
    <2>4. ASSUME NEW i \in 1..r, About(options[i], n), v = options[i][2], \A j \in i + 1..r : ~About(options[j], n)
          PROVE  Says(options, r + 1, n, v)
      <3>1. \A j \in i + 1..r + 1 : j \in i + 1..r \/ j = r + 1
        OBVIOUS
      <3>2. i \in 1..r + 1
        OBVIOUS
      <3> QED
        BY <2>1, <2>4, <3>1, <3>2 DEF Says
    <2> QED
      BY <1>2, <2>3, <2>4 DEF Says
  <1> QED
    BY <1>1, <1>2

\* As many options of another list that begins with the same.
LEMMA SaysSame ==
    ASSUME NEW options, NEW others, NEW r \in Nat, \A i \in 1..r : options[i] = others[i],
           NEW n, NEW v, Says(options, r, n, v)
    PROVE  Says(others, r, n, v)
  <1>1. ASSUME NEW i \in 1..r, NEW j \in i + 1..r PROVE j \in 1..r
    OBVIOUS
  <1> QED
    BY <1>1 DEF Says

-----------------------------------------------------------------------------
(* What is still to be said of them, before main().                        *)

\* How far from the end of the list of calls the i-th of the files' options is,
\* when they have e and d of them and z calls follow.
Rank(i, e, d, z) == IF i <= e THEN e + d + z + 2 - i ELSE e + d + z + 1 - i

\* Of the n calls t those that set names are the options from the r-th on, in
\* their places; what is copied is copied after them.
Ranked(t, n, r, options, e, d, z) ==
    /\ \A i \in r + 1..e + d : /\ Rank(i, e, d, z) <= n
                               /\ t[n + 1 - Rank(i, e, d, z)] = Store(options[i][1], options[i][2])
    /\ \A k \in 1..n : t[k][1] = "store" => \E i \in r + 1..e + d : k = n + 1 - Rank(i, e, d, z)
    /\ \A k \in 1..n : t[k][1] = "copy" => n - k < z

\* Places.
LEMMA Ranks ==
    ASSUME NEW e \in Nat, NEW d \in Nat, NEW z \in Nat
    PROVE  /\ \A i \in 1..e + d : Rank(i, e, d, z) \in Nat /\ Rank(i, e, d, z) > z
           /\ \A i, j \in 1..e + d : i < j => Rank(j, e, d, z) < Rank(i, e, d, z)
  BY DEF Rank

\* They set and copy nothing.
Mute(calls, m) == \A k \in 1..m : calls[k][1] \notin {"store", "copy"}

\* The first call is made and calls that set nothing come in its place.
LEMMA RankedPut ==
    ASSUME NEW n \in Nat \ {0}, NEW t, NEW m \in Nat, NEW calls, NEW new, Shifted(new, calls, m, t, n),
           Mute(calls, m), NEW e \in Nat, NEW d \in Nat, NEW z \in Nat, NEW r \in Nat, r <= e + d, NEW options,
           Ranked(t, n, r, options, e, d, z)
    PROVE  /\ t[1][1] # "store" => Ranked(new, m + n - 1, r, options, e, d, z)
           /\ t[1][1] = "store" => /\ r + 1 <= e + d /\ t[1] = Store(options[r + 1][1], options[r + 1][2])
                                   /\ Ranked(new, m + n - 1, r + 1, options, e, d, z)
  <1> DEFINE R(i) == Rank(i, e, d, z)
             w == m + n - 1
  <1>1. /\ \A i \in 1..e + d : R(i) \in Nat /\ R(i) > z
        /\ \A i, j \in 1..e + d : i < j => R(j) < R(i)
    BY Ranks
  <1> HIDE DEF R
  <1>2. /\ \A i \in r + 1..e + d : i \in 1..e + d /\ R(i) <= n /\ t[n + 1 - R(i)] = Store(options[i][1], options[i][2])
        /\ \A k \in 1..n : t[k][1] = "store" => \E i \in r + 1..e + d : k = n + 1 - R(i)
        /\ \A k \in 1..n : t[k][1] = "copy" => n - k < z
    BY DEF Ranked, R
  <1>3. ASSUME NEW k \in m + 1..w PROVE new[k] = t[k - m + 1] /\ k - m + 1 \in 2..n /\ w - k = n - (k - m + 1)
    BY DEF Shifted
  <1>4. ASSUME NEW k \in 1..m PROVE new[k][1] \notin {"store", "copy"}
    BY DEF Shifted, Mute
  <1>5. ASSUME NEW s \in Nat, r <= s, \A i \in s + 1..e + d : R(i) < n,
               \A k \in 2..n : t[k][1] = "store" => \E i \in s + 1..e + d : k = n + 1 - R(i)
        PROVE  Ranked(new, w, s, options, e, d, z)
    <2>1. ASSUME NEW i \in s + 1..e + d
          PROVE  R(i) <= w /\ new[w + 1 - R(i)] = Store(options[i][1], options[i][2])
      <3>1. i \in r + 1..e + d /\ R(i) \in Nat /\ R(i) < n /\ R(i) > 0
        BY <1>1, <1>5
      <3>2. w + 1 - R(i) \in m + 1..w /\ (w + 1 - R(i)) - m + 1 = n + 1 - R(i)
        BY <3>1
      <3> QED
        BY <1>2, <1>3, <3>1, <3>2
    <2>2. ASSUME NEW k \in 1..w, new[k][1] = "store" PROVE \E i \in s + 1..e + d : k = w + 1 - R(i)
      <3>1. k \in m + 1..w
        BY <1>4, <2>2
      <3>2. PICK i \in s + 1..e + d : k - m + 1 = n + 1 - R(i)
        BY <1>3, <1>5, <2>2, <3>1
      <3>3. k = w + 1 - R(i)
        <4>1. R(i) \in Nat
          BY <1>1, <1>2, <3>2
        <4> QED
          BY <3>2, <4>1
      <3> QED
        BY <3>3
    <2>3. ASSUME NEW k \in 1..w, new[k][1] = "copy" PROVE w - k < z
      <3>1. k \in m + 1..w
        BY <1>4, <2>3
      <3>2. k - m + 1 \in 1..n
        BY <1>3, <3>1
      <3> QED
        BY <1>2, <1>3, <2>3, <3>1, <3>2
    <2> QED
      BY <2>1, <2>2, <2>3 DEF Ranked, R
  <1>6. ASSUME t[1][1] # "store" PROVE Ranked(new, w, r, options, e, d, z)
    <2>1. ASSUME NEW i \in r + 1..e + d PROVE R(i) < n
      <3>1. R(i) = n => n + 1 - R(i) = 1
        OBVIOUS
      <3>2. R(i) # n
        BY <1>2, <1>6, <3>1 DEF Store
      <3> QED
        BY <1>1, <1>2, <3>2
    <2>2. \A k \in 2..n : k \in 1..n
      OBVIOUS
    <2> QED
      BY <1>2, <1>5, <2>1, <2>2
  <1>7. ASSUME t[1][1] = "store"
        PROVE  /\ r + 1 <= e + d /\ t[1] = Store(options[r + 1][1], options[r + 1][2])
               /\ Ranked(new, w, r + 1, options, e, d, z)
    <2>1. PICK i \in r + 1..e + d : 1 = n + 1 - R(i)
      BY <1>2, <1>7
    <2>2. R(i) = n /\ i \in 1..e + d
      <3>1. i \in 1..e + d /\ R(i) \in Nat
        BY <1>1, <1>2
      <3> QED
        BY <2>1, <3>1
    <2>3. r + 1 \in r + 1..e + d /\ R(r + 1) <= n
      BY <1>2, <2>1
    <2>4. i = r + 1
      <3>1. r + 1 < i => R(i) < R(r + 1)
        BY <1>1, <1>2, <2>2, <2>3
      <3>2. R(r + 1) \in Nat /\ R(i) \in Nat
        BY <1>1, <1>2, <2>2, <2>3
      <3> QED
        BY <2>1, <2>2, <2>3, <3>1, <3>2
    <2>5. \A j \in (r + 1) + 1..e + d : R(j) < n
      BY <1>1, <1>2, <2>2, <2>3, <2>4
    <2>6. ASSUME NEW k \in 2..n, t[k][1] = "store" PROVE \E j \in (r + 1) + 1..e + d : k = n + 1 - R(j)
      <3>1. PICK j \in r + 1..e + d : k = n + 1 - R(j)
        BY <1>2, <2>6
      <3>2. j # r + 1
        BY <2>2, <2>4, <3>1
      <3> QED
        BY <3>1, <3>2
    <2>7. Ranked(new, w, r + 1, options, e, d, z)
      BY <1>5, <2>5, <2>6
    <2> QED
      BY <1>2, <2>2, <2>3, <2>4, <2>7
  <1> QED
    BY <1>6, <1>7

\* What is copied is copied when all of the files has been set.
LEMMA RankedCopy ==
    ASSUME NEW n \in Nat \ {0}, NEW t, NEW e \in Nat, NEW d \in Nat, NEW z \in Nat, NEW r \in Nat, r <= e + d,
           NEW options, Ranked(t, n, r, options, e, d, z), t[1][1] = "copy"
    PROVE  r = e + d
  <1>1. \A i \in 1..e + d : Rank(i, e, d, z) \in Nat /\ Rank(i, e, d, z) > z
    BY Ranks
  <1>2. n - 1 < z
    BY DEF Ranked
  <1>3. ASSUME NEW i \in r + 1..e + d PROVE FALSE
    <2>1. i \in 1..e + d
      OBVIOUS
    <2>2. Rank(i, e, d, z) <= n
      BY DEF Ranked
    <2> QED
      BY <1>1, <1>2, <2>1, <2>2
  <1> QED
    BY <1>3

-----------------------------------------------------------------------------
(* What is still to be said of them, on the command line.                  *)

\* Of the n calls t the last at most sets a name: what the option after the first
\* r says.  The rest of the options are those after it.
Remaining(t, n, r, rest, options) ==
    /\ \A k \in 1..n : t[k][1] = "store" =>
          /\ k = n /\ t[n] = Store(options[r + 1][1], options[r + 1][2]) /\ options[r + 1] # BadArgument
          /\ Len(rest) + r + 1 = Len(options)
    /\ ~Occurs(t, n, "store") => Len(rest) + r = Len(options)
    /\ \A i \in 1..Len(rest) : rest[i] = options[Len(options) - Len(rest) + i]

\* The first call is made and calls that set nothing come in its place.
LEMMA RemainingPut ==
    ASSUME NEW n \in Nat \ {0}, NEW t, NEW m \in Nat, NEW calls, NEW new, Shifted(new, calls, m, t, n),
           Mute(calls, m), NEW r \in Nat, NEW rest, NEW options, Remaining(t, n, r, rest, options),
           Len(rest) \in Nat, Len(options) \in Nat
    PROVE  /\ t[1][1] # "store" => Remaining(new, m + n - 1, r, rest, options)
           /\ t[1][1] = "store" => /\ r + 1 <= Len(options) /\ options[r + 1] # BadArgument
                                   /\ t[1] = Store(options[r + 1][1], options[r + 1][2])
                                   /\ Remaining(new, m + n - 1, r + 1, rest, options)
  <1> DEFINE w == m + n - 1
  <1>1. ASSUME NEW k \in 1..w, new[k][1] = "store" PROVE k - m + 1 \in 2..n /\ new[k] = t[k - m + 1]
    <2>1. k \notin 1..m
      <3>1. k \in 1..m => new[k] = calls[k] /\ calls[k][1] # "store"
        BY DEF Shifted, Mute
      <3> QED
        BY <1>1, <3>1, Zenon
    <2>2. k \in m + 1..m + n - 1 /\ k - m + 1 \in 2..n
      BY <2>1
    <2> QED
      BY <2>2, Zenon DEF Shifted
  <1>2. ASSUME NEW k \in 2..n PROVE k + m - 1 \in 1..w /\ new[k + m - 1] = t[k]
    <2>1. k + m - 1 \in m + 1..w /\ (k + m - 1) - m + 1 = k
      OBVIOUS
    <2>2. new[k + m - 1] = t[(k + m - 1) - m + 1]
      BY <2>1, Zenon DEF Shifted
    <2> QED
      BY <2>1, <2>2
  <1>3. ASSUME t[1][1] # "store" PROVE Remaining(new, w, r, rest, options)
    <2>1. ASSUME NEW k \in 1..w, new[k][1] = "store"
          PROVE  /\ k = w /\ new[w] = Store(options[r + 1][1], options[r + 1][2]) /\ options[r + 1] # BadArgument
                 /\ Len(rest) + r + 1 = Len(options)
      <3>1. k - m + 1 \in 2..n /\ new[k] = t[k - m + 1]
        BY <1>1, <2>1
      <3>2. k - m + 1 = n
        BY <2>1, <3>1 DEF Remaining
      <3>3. k = w
        BY <3>2
      <3> QED
        BY <2>1, <3>1, <3>2, <3>3 DEF Remaining
    <2>2. ASSUME ~Occurs(new, w, "store") PROVE ~Occurs(t, n, "store")
      <3>1. \A k \in 1..n : k = 1 \/ k \in 2..n
        OBVIOUS
      <3> QED
        BY <1>2, <1>3, <2>2, <3>1 DEF Occurs
    <2> QED
      BY <2>1, <2>2 DEF Remaining
  <1>4. ASSUME t[1][1] = "store"
        PROVE  /\ r + 1 <= Len(options) /\ options[r + 1] # BadArgument
               /\ t[1] = Store(options[r + 1][1], options[r + 1][2])
               /\ Remaining(new, w, r + 1, rest, options)
    <2>1. /\ 1 = n /\ t[1] = Store(options[r + 1][1], options[r + 1][2]) /\ options[r + 1] # BadArgument
          /\ Len(rest) + r + 1 = Len(options)
      BY <1>4 DEF Remaining
    <2>2. \A k \in 1..w : new[k][1] # "store"
      BY <1>1, <2>1
    <2>3. Remaining(new, w, r + 1, rest, options)
      BY <2>1, <2>2 DEF Remaining, Occurs
    <2> QED
      BY <2>1, <2>3
  <1> QED
    BY <1>3, <1>4

\* Of the options the first r have been set, and the n calls t and the arguments
\* that wait are the others.
Told(ph, t, n, r, rest, options, e, d, z) ==
    /\ ph = "static" => r <= e + d /\ Ranked(t, n, r, options, e, d, z)
    /\ ph = "arguments" => Remaining(t, n, r, rest, options)

\* The files have e and d of the options, and z calls follow them.
Sized(options, rest, e, d, z) ==
    /\ e \in Nat /\ d \in Nat /\ z \in Nat /\ Len(options) \in Nat /\ Len(rest) \in Nat
    /\ e + d <= Len(options) /\ \A i \in 1..e + d : options[i] # BadArgument

\* The first call is made.
LEMMA ToldPut ==
    ASSUME NEW n \in Nat \ {0}, NEW t, NEW m \in Nat, NEW calls, NEW new, Shifted(new, calls, m, t, n),
           Mute(calls, m), NEW e, NEW d, NEW z, NEW options, NEW rest, Sized(options, rest, e, d, z),
           NEW r \in Nat, NEW ph, Told(ph, t, n, r, rest, options, e, d, z)
    PROVE  /\ t[1][1] # "store" => Told(ph, new, m + n - 1, r, rest, options, e, d, z)
           /\ t[1][1] = "store" /\ ph \in {"static", "arguments"} =>
                 /\ r + 1 <= Len(options) /\ options[r + 1] # BadArgument
                 /\ t[1] = Store(options[r + 1][1], options[r + 1][2])
                 /\ Told(ph, new, m + n - 1, r + 1, rest, options, e, d, z)
           /\ t[1][1] = "copy" /\ ph = "static" => r = e + d
  <1>1. /\ e \in Nat /\ d \in Nat /\ z \in Nat /\ Len(options) \in Nat /\ Len(rest) \in Nat
        /\ e + d <= Len(options) /\ \A i \in 1..e + d : options[i] # BadArgument
    BY DEF Sized
  <1>2. ASSUME ph = "static"
        PROVE  /\ t[1][1] # "store" => Ranked(new, m + n - 1, r, options, e, d, z)
               /\ t[1][1] = "store" => /\ r + 1 <= e + d /\ t[1] = Store(options[r + 1][1], options[r + 1][2])
                                       /\ Ranked(new, m + n - 1, r + 1, options, e, d, z)
               /\ t[1][1] = "copy" => r = e + d
    <2>1. r <= e + d /\ Ranked(t, n, r, options, e, d, z)
      BY <1>2 DEF Told
    <2>2. e \in Nat /\ d \in Nat /\ z \in Nat
      BY <1>1
    <2> QED
      <3>1. t[1][1] # "store" => Ranked(new, m + n - 1, r, options, e, d, z)
        BY <2>1, <2>2, RankedPut
      <3>2. t[1][1] = "store" => /\ r + 1 <= e + d /\ t[1] = Store(options[r + 1][1], options[r + 1][2])
                                 /\ Ranked(new, m + n - 1, r + 1, options, e, d, z)
        BY <2>1, <2>2, RankedPut
      <3>3. t[1][1] = "copy" => r = e + d
        BY <2>1, <2>2, RankedCopy
      <3> QED
        BY <3>1, <3>2, <3>3, Zenon
  <1>3. ASSUME ph = "arguments"
        PROVE  /\ t[1][1] # "store" => Remaining(new, m + n - 1, r, rest, options)
               /\ t[1][1] = "store" => /\ r + 1 <= Len(options) /\ options[r + 1] # BadArgument
                                       /\ t[1] = Store(options[r + 1][1], options[r + 1][2])
                                       /\ Remaining(new, m + n - 1, r + 1, rest, options)
    <2>1. Remaining(t, n, r, rest, options)
      BY <1>3 DEF Told
    <2> QED
      BY <1>1, <2>1, RemainingPut
  <1>4. ASSUME t[1][1] # "store" PROVE Told(ph, new, m + n - 1, r, rest, options, e, d, z)
    BY <1>2, <1>3, <1>4 DEF Told
  <1>5. ASSUME t[1][1] = "store", ph = "static"
        PROVE  /\ r + 1 <= Len(options) /\ options[r + 1] # BadArgument
               /\ t[1] = Store(options[r + 1][1], options[r + 1][2])
               /\ Told(ph, new, m + n - 1, r + 1, rest, options, e, d, z)
    <2>1. r + 1 <= e + d
      BY <1>2, <1>5
    <2>2. r + 1 \in 1..e + d /\ r + 1 <= Len(options)
      BY <1>1, <2>1
    <2>3. options[r + 1] # BadArgument
      BY <1>1, <2>2
    <2> QED
      BY <1>2, <1>5, <2>1, <2>2, <2>3 DEF Told
  <1>6. ASSUME t[1][1] = "store", ph = "arguments"
        PROVE  /\ r + 1 <= Len(options) /\ options[r + 1] # BadArgument
               /\ t[1] = Store(options[r + 1][1], options[r + 1][2])
               /\ Told(ph, new, m + n - 1, r + 1, rest, options, e, d, z)
    BY <1>3, <1>6 DEF Told
  <1>7. t[1][1] = "copy" /\ ph = "static" => r = e + d
    BY <1>2
  <1> QED
    BY <1>4, <1>5, <1>6, <1>7, Zenon

\* The options of the files, and all there are.
FileOptions == given.etc \o given.cwd
AllOptions == given.etc \o given.cwd \o given.arguments

\* The first r of the options have been set, and the calls and the arguments that
\* wait are the others.
SaidInv(r) ==
    /\ \A n \in ParamName : Says(AllOptions, r, n, stored[n])
    /\ Told(phase, todo, Len(todo), r, arguments, AllOptions, Len(given.etc), Len(given.cwd), Len(Statics))
    /\ phase = "static" => arguments = given.arguments
    /\ phase = "main" \/ InLoop => r = Len(AllOptions)

OptionsInv == \E r \in Nat : r <= Len(AllOptions) /\ SaidInv(r)

\* Three lists of options, one after the other.
InTurn(a, b, c) ==
    /\ a \o b \o c \in Seq(Option \cup {BadArgument}) /\ a \o b \in Seq(Option)
    /\ Len(a) \in Nat /\ Len(b) \in Nat /\ Len(c) \in Nat
    /\ Len(a \o b \o c) = Len(a) + Len(b) + Len(c) /\ Len(a \o b) = Len(a) + Len(b)
    /\ \A i \in 1..Len(a) : (a \o b \o c)[i] = a[i]
    /\ \A i \in 1..Len(b) : (a \o b \o c)[Len(a) + i] = b[i]
    /\ \A i \in 1..Len(c) : (a \o b \o c)[Len(a) + Len(b) + i] = c[i]
    /\ \A i \in 1..Len(a) + Len(b) : (a \o b \o c)[i] = (a \o b)[i] /\ (a \o b)[i] \in Option

\* What they are together.
LEMMA OptionLists ==
    ASSUME NEW a \in Seq(Option), NEW b \in Seq(Option), NEW c \in Seq(Option \cup {BadArgument})
    PROVE  InTurn(a, b, c)
  <1>1. a \in Seq(Option \cup {BadArgument}) /\ b \in Seq(Option \cup {BadArgument})
    OBVIOUS
  <1>2. /\ a \o b \o c \in Seq(Option \cup {BadArgument}) /\ Len(a \o b \o c) = Len(a) + Len(b) + Len(c)
        /\ \A k \in 1..Len(a) : (a \o b \o c)[k] = a[k]
        /\ \A k \in 1..Len(b) : (a \o b \o c)[Len(a) + k] = b[k]
        /\ \A k \in 1..Len(c) : (a \o b \o c)[Len(a) + Len(b) + k] = c[k]
    BY <1>1, ThreeParts
  <1>3. /\ a \o b \in Seq(Option) /\ Len(a \o b) = Len(a) + Len(b)
        /\ \A k \in 1..Len(a) + Len(b) : (a \o b)[k] = IF k <= Len(a) THEN a[k] ELSE b[k - Len(a)]
    BY ConcatProperties
  <1>4. Len(a) \in Nat /\ Len(b) \in Nat /\ Len(c) \in Nat
    OBVIOUS
  <1>5. ASSUME NEW k \in 1..Len(a) + Len(b)
        PROVE  (a \o b \o c)[k] = (a \o b)[k]
    <2>1. CASE k <= Len(a)
      BY <1>2, <1>3, <1>4, <2>1
    <2>2. CASE ~(k <= Len(a))
      <3>1. k - Len(a) \in 1..Len(b) /\ Len(a) + (k - Len(a)) = k
        BY <1>4, <2>2
      <3>2. (a \o b)[k] = b[k - Len(a)]
        BY <1>3, <1>4, <2>2
      <3>3. (a \o b \o c)[k] = b[k - Len(a)]
        BY <1>2, <3>1
      <3> QED
        BY <3>2, <3>3
    <2> QED
      BY <2>1, <2>2
  <1>6. \A k \in 1..Len(a) + Len(b) : (a \o b)[k] \in Option
    <2>1. \A k \in 1..Len(a \o b) : (a \o b)[k] \in Option
      BY <1>3, ElementOfSeq
    <2> QED
      BY <1>3, <2>1
  <1> QED
    BY <1>2, <1>3, <1>4, <1>5, <1>6 DEF InTurn

\* The lists.
GivenInv ==
    /\ AllOptions \in Seq(Option \cup {BadArgument}) /\ FileOptions \in Seq(Option)
    /\ Len(given.etc) \in Nat /\ Len(given.cwd) \in Nat /\ Len(given.arguments) \in Nat
    /\ Len(AllOptions) = Len(given.etc) + Len(given.cwd) + Len(given.arguments)
    /\ Len(FileOptions) = Len(given.etc) + Len(given.cwd)
    /\ \A i \in 1..Len(given.etc) : AllOptions[i] = given.etc[i]
    /\ \A i \in 1..Len(given.cwd) : AllOptions[Len(given.etc) + i] = given.cwd[i]
    /\ \A i \in 1..Len(given.arguments) : AllOptions[Len(given.etc) + Len(given.cwd) + i] = given.arguments[i]
    /\ \A i \in 1..Len(given.etc) + Len(given.cwd) :
          AllOptions[i] = FileOptions[i] /\ AllOptions[i] \in Option /\ AllOptions[i] # BadArgument
    /\ Len(Statics) \in Nat

LEMMA GivenLists ==
    ASSUME ConfigAssumption, ProgramAssumption, ObjectAssumption, ArgumentsInv
    PROVE  GivenInv
  <1>1. given.etc \in Seq(Option) /\ given.cwd \in Seq(Option) /\ given.arguments \in Seq(Option \cup {BadArgument})
    BY DEF ArgumentsInv, ProgramAssumption
  <1>2. \A o \in Option : o # BadArgument
    BY DEF ProgramAssumption
  <1>3. /\ AllOptions \in Seq(Option \cup {BadArgument}) /\ FileOptions \in Seq(Option)
        /\ Len(given.etc) \in Nat /\ Len(given.cwd) \in Nat /\ Len(given.arguments) \in Nat
        /\ Len(AllOptions) = Len(given.etc) + Len(given.cwd) + Len(given.arguments)
        /\ Len(FileOptions) = Len(given.etc) + Len(given.cwd)
        /\ \A i \in 1..Len(given.etc) : AllOptions[i] = given.etc[i]
        /\ \A i \in 1..Len(given.cwd) : AllOptions[Len(given.etc) + i] = given.cwd[i]
        /\ \A i \in 1..Len(given.arguments) : AllOptions[Len(given.etc) + Len(given.cwd) + i] = given.arguments[i]
        /\ \A i \in 1..Len(given.etc) + Len(given.cwd) : AllOptions[i] = FileOptions[i] /\ FileOptions[i] \in Option
    <2>1. InTurn(given.etc, given.cwd, given.arguments)
      BY <1>1, OptionLists, Zenon
    <2> QED
      BY <2>1, Zenon DEF InTurn, AllOptions, FileOptions
  <1>4. \A i \in 1..Len(given.etc) + Len(given.cwd) : AllOptions[i] \in Option
    BY <1>3
  <1>5. \A i \in 1..Len(given.etc) + Len(given.cwd) : AllOptions[i] # BadArgument
    BY <1>2, <1>4
  <1>6. Len(Statics) \in Nat
    BY StaticCalls
  <1> QED
    BY <1>3, <1>4, <1>5, <1>6 DEF GivenInv

\* Two of three numbers.
LEMMA Sums ==
    ASSUME NEW a \in Nat, NEW b \in Nat, NEW c \in Nat, NEW s, s = a + b + c
    PROVE  s \in Nat /\ a + b <= s
  OBVIOUS

\* How many they are.
LEMMA GivenSizes ==
    ASSUME GivenInv, arguments \in Seq(Option \cup {BadArgument})
    PROVE  Sized(AllOptions, arguments, Len(given.etc), Len(given.cwd), Len(Statics))
  <1>1. Len(arguments) \in Nat
    OBVIOUS
  <1>2. /\ Len(given.etc) \in Nat /\ Len(given.cwd) \in Nat /\ Len(given.arguments) \in Nat
        /\ Len(AllOptions) = Len(given.etc) + Len(given.cwd) + Len(given.arguments)
        /\ Len(Statics) \in Nat
    BY Zenon DEF GivenInv
  <1>3. Len(AllOptions) \in Nat /\ Len(given.etc) + Len(given.cwd) <= Len(AllOptions)
    BY <1>2, Sums, Zenon
  <1>4. \A i \in 1..Len(given.etc) + Len(given.cwd) : AllOptions[i] # BadArgument
    BY Zenon DEF GivenInv
  <1> QED
    BY <1>1, <1>2, <1>3, <1>4, Zenon DEF Sized

\* Calls that set and copy nothing take the place of the first.
Adds(calls) == Replaced(calls) /\ Mute(calls, Len(calls))

\* What the steps do to what is said.
LEMMA Saying ==
    ASSUME StackInv, RegistryInv, LifeInv, ConfigAssumption, ConfigStep
    PROVE  /\ todo # <<>> /\ todo[1] \in Call /\ 1 \in 1..Len(todo)
           /\ environment' = environment
           /\ todo[1][1] # "store" => stored' = stored
           /\ todo[1][1] = "store" => stored' = [stored EXCEPT ![todo[1][2]] = todo[1][3]]
           /\ todo[1][1] # "copy" => copied' = copied
           /\ todo[1][1] = "copy" => copied' = With(copied, todo[1][2], live[todo[1][2]]) /\ live' = live
           /\ \E calls : Adds(calls)
  <1>1. /\ todo # <<>> /\ todo[1] \in Call /\ 1 \in 1..Len(todo)
        /\ \/ \E calls : Quiet(calls)
           \/ \E calls : \E p \in LogParams : LogPuts(calls, p) /\ todo[1][1] = "log"
    BY Effects DEF LifeInv
  <1>6. todo # <<>>
    BY DEF ConfigStep, ConstructStep, CopyStep, DestroyStep, StoreStep, ParseStep, LeaveStep,
           LogStep, ReadyStep, Now
  <1>2. Head(todo) = todo[1]
    BY <1>6, First
  <1>3. /\ environment' = environment
        /\ todo[1][1] # "store" => stored' = stored
        /\ todo[1][1] = "store" => stored' = [stored EXCEPT ![todo[1][2]] = todo[1][3]]
        /\ todo[1][1] # "copy" => copied' = copied
        /\ todo[1][1] = "copy" => copied' = With(copied, todo[1][2], live[todo[1][2]]) /\ live' = live
    <2>1. CASE ConstructStep \/ DestroyStep
      BY <1>2, <2>1 DEF ConstructStep, DestroyStep, Now, registryVars
    <2>2. CASE CopyStep
      BY <1>2, <2>2 DEF CopyStep, Now, Object
    <2>3. CASE StoreStep
      BY <1>2, <2>3 DEF StoreStep, Now
    <2>4. CASE ParseStep \/ LeaveStep
      BY <1>2, <2>4 DEF ParseStep, LeaveStep, Now, registryVars
    <2>5. CASE LogStep \/ ReadyStep
      BY <1>2, <2>5 DEF LogStep, ReadyStep, Now, registryVars
    <2> QED
      BY <2>1, <2>2, <2>3, <2>4, <2>5 DEF ConfigStep
  <1>4. ASSUME NEW calls, Quiet(calls) PROVE Adds(calls)
    BY <1>4 DEF Quiet, Harmless, Adds, Mute
  <1>5. ASSUME NEW calls, NEW p, LogPuts(calls, p), todo[1][1] = "log" PROVE Adds(calls)
    <2>1. \A k \in 1..3 : k = 1 \/ k = 2 \/ k = 3
      OBVIOUS
    <2> QED
      BY <1>5, <2>1 DEF LogPuts, Adds, Mute
  <1> QED
    BY <1>1, <1>3, <1>4, <1>5

\* A call is made: the next option, if it is that which is made.
LEMMA OptionsStep ==
    ASSUME ConfigAssumption, GivenInv, StartInv, OptionsInv,
           ConfigStep, UNCHANGED <<given, phase, arguments>>
    PROVE  OptionsInv'
  <1>1. /\ todo # <<>> /\ todo[1] \in Call /\ 1 \in 1..Len(todo)
        /\ todo[1][1] # "store" => stored' = stored
        /\ todo[1][1] = "store" => stored' = [stored EXCEPT ![todo[1][2]] = todo[1][3]]
        /\ \E calls : Adds(calls)
    BY Saying DEF StartInv
  <1>2. PICK calls : Adds(calls)
    BY <1>1
  <1>3. /\ Len(calls) \in Nat /\ Len(todo) \in Nat \ {0} /\ Len(todo') = Len(calls) + Len(todo) - 1
        /\ Shifted(todo', calls, Len(calls), todo, Len(todo))
        /\ Mute(calls, Len(calls))
    BY <1>2, Moved DEF Adds
  <1>4. PICK r \in Nat : r <= Len(AllOptions) /\ SaidInv(r)
    BY DEF OptionsInv
  <1>5. Sized(AllOptions, arguments, Len(given.etc), Len(given.cwd), Len(Statics))
    BY GivenSizes DEF StartInv, ArgumentsInv
  <1>6. AllOptions' = AllOptions /\ given' = given /\ phase' = phase /\ arguments' = arguments /\ InLoop' = InLoop
    BY DEF AllOptions, InLoop
  <1>7. /\ ~InLoop
        /\ Occurs(todo, Len(todo), "store") => phase \in {"static", "arguments"}
    BY <1>1, <1>3 DEF StartInv, LifeInv, Timely
  <1>8. CASE todo[1][1] # "store"
    <2>1. stored' = stored
      BY <1>1, <1>8
    <2>2. Told(phase, todo, Len(todo), r, arguments, AllOptions, Len(given.etc), Len(given.cwd), Len(Statics))
      BY <1>4 DEF SaidInv
    <2>3. Told(phase, todo', Len(todo'), r, arguments, AllOptions, Len(given.etc), Len(given.cwd), Len(Statics))
      BY <1>3, <1>4, <1>5, <1>8, <2>2, ToldPut
    <2>4. SaidInv(r)'
      BY <1>4, <1>6, <2>1, <2>3 DEF SaidInv
    <2> QED
      BY <1>4, <1>6, <2>4 DEF OptionsInv
  <1>9. CASE todo[1][1] = "store"
    <2>1. phase \in {"static", "arguments"}
      <3>1. Occurs(todo, Len(todo), "store")
        BY <1>1, <1>9 DEF Occurs
      <3> QED
        BY <1>7, <3>1
    <2>2. Told(phase, todo, Len(todo), r, arguments, AllOptions, Len(given.etc), Len(given.cwd), Len(Statics))
      BY <1>4 DEF SaidInv
    <2>3. /\ r + 1 <= Len(AllOptions) /\ AllOptions[r + 1] # BadArgument
          /\ todo[1] = Store(AllOptions[r + 1][1], AllOptions[r + 1][2])
          /\ Told(phase, todo', Len(todo'), r + 1, arguments, AllOptions, Len(given.etc), Len(given.cwd), Len(Statics))
      BY <1>3, <1>4, <1>5, <1>9, <2>1, <2>2, ToldPut
    <2>4. r + 1 \in Nat
      BY <1>4
    <2>5. todo[1][2] = AllOptions[r + 1][1] /\ todo[1][3] = AllOptions[r + 1][2]
      BY <2>3 DEF Store
    <2>6. ASSUME NEW n \in ParamName PROVE Says(AllOptions, r + 1, n, stored'[n])
      <3>1. Says(AllOptions, r, n, stored[n])
        BY <1>4 DEF SaidInv
      <3>2. stored'[n] = IF AllOptions[r + 1][1] = n THEN AllOptions[r + 1][2] ELSE stored[n]
        BY <1>1, <1>9, <2>5 DEF StartInv, RegistryInv
      <3> QED
        BY <1>4, <2>3, <3>1, <3>2, SaysMore
    <2>7. SaidInv(r + 1)'
      <3>1. phase = "static" => arguments = given.arguments
        BY <1>4 DEF SaidInv
      <3> QED
        BY <1>6, <1>7, <2>1, <2>3, <2>6, <3>1 DEF SaidInv
    <2> QED
      BY <1>6, <2>3, <2>4, <2>7 DEF OptionsInv
  <1> QED
    BY <1>8, <1>9

\* All of the files has been set when no call is left.
LEMMA RankedNone ==
    ASSUME NEW t, NEW e \in Nat, NEW d \in Nat, NEW z \in Nat, NEW r \in Nat, r <= e + d,
           NEW options, Ranked(t, 0, r, options, e, d, z)
    PROVE  r = e + d
  <1>1. \A i \in 1..e + d : Rank(i, e, d, z) \in Nat /\ Rank(i, e, d, z) > z
    BY Ranks
  <1>2. ASSUME NEW i \in r + 1..e + d PROVE FALSE
    <2>1. i \in 1..e + d
      OBVIOUS
    <2>2. Rank(i, e, d, z) <= 0
      BY DEF Ranked
    <2> QED
      BY <1>1, <2>1, <2>2
  <1> QED
    BY <1>2

\* The command line is all that is left then ...
LEMMA RemainingAll ==
    ASSUME NEW t, NEW r \in Nat, NEW rest, NEW options, Len(rest) \in Nat, Len(options) = r + Len(rest),
           \A i \in 1..Len(rest) : options[r + i] = rest[i]
    PROVE  Remaining(t, 0, r, rest, options)
  <1>1. Len(options) - Len(rest) = r /\ ~Occurs(t, 0, "store")
    BY DEF Occurs
  <1> QED
    BY <1>1 DEF Remaining

\* ... and its first option is the next that is set.
LEMMA RemainingNext ==
    ASSUME NEW t, NEW r \in Nat, NEW S, NEW rest \in Seq(S), rest # <<>>, NEW options, Len(options) \in Nat,
           Remaining(t, 0, r, rest, options),
           NEW new, new[1] = Store(rest[1][1], rest[1][2]), rest[1] # BadArgument
    PROVE  Remaining(new, 1, r, Tail(rest), options)
  <1>1. Len(rest) \in Nat \ {0} /\ Len(Tail(rest)) = Len(rest) - 1
    OBVIOUS
  <1>2. \A i \in 1..Len(rest) - 1 : Tail(rest)[i] = rest[i + 1]
    BY <1>1
  <1>3. /\ Len(rest) + r = Len(options)
        /\ \A i \in 1..Len(rest) : rest[i] = options[Len(options) - Len(rest) + i]
    BY DEF Remaining, Occurs
  <1>4. rest[1] = options[r + 1]
    <2>1. 1 \in 1..Len(rest) /\ Len(options) - Len(rest) + 1 = r + 1
      BY <1>1, <1>3
    <2> QED
      BY <1>3, <2>1
  <1>5. ASSUME NEW i \in 1..Len(rest) - 1 PROVE rest[i + 1] = options[Len(options) - (Len(rest) - 1) + i]
    <2>1. i + 1 \in 1..Len(rest) /\ Len(options) - Len(rest) + (i + 1) = Len(options) - (Len(rest) - 1) + i
      BY <1>1
    <2> QED
      BY <1>3, <2>1
  <1>6. new[1][1] = "store" /\ Occurs(new, 1, "store")
    BY DEF Store, Occurs
  <1>7. (Len(rest) - 1) + r + 1 = Len(options)
    BY <1>1, <1>3
  <1>8. ASSUME NEW i \in 1..Len(Tail(rest)) PROVE Tail(rest)[i] = options[Len(options) - Len(Tail(rest)) + i]
    BY <1>1, <1>2, <1>5
  <1> QED
    BY <1>1, <1>4, <1>6, <1>7, <1>8 DEF Remaining

\* Before anything is set.
LEMMA RankedAll ==
    ASSUME NEW e \in Nat, NEW d \in Nat, NEW z \in Nat, NEW t, NEW options,
           t[1][1] = "log", t[e + 2][1] = "log",
           \A i \in 1..e : t[i + 1] = Store(options[i][1], options[i][2]),
           \A i \in 1..d : t[e + i + 2] = Store(options[e + i][1], options[e + i][2]),
           \A k \in 1..z : t[e + d + 2 + k][1] # "store"
    PROVE  Ranked(t, e + d + z + 2, 0, options, e, d, z)
  <1> DEFINE R(i) == Rank(i, e, d, z)
             n == e + d + z + 2
  <1>1. ASSUME NEW i \in 1..e + d PROVE R(i) <= n /\ t[n + 1 - R(i)] = Store(options[i][1], options[i][2])
    <2>1. CASE i <= e
      <3>1. i \in 1..e /\ R(i) = n - i /\ R(i) <= n /\ n + 1 - R(i) = i + 1
        BY <2>1 DEF Rank
      <3> QED
        BY <3>1
    <2>2. CASE ~(i <= e)
      <3>1. i - e \in 1..d /\ e + (i - e) = i /\ R(i) = n - 1 - i /\ R(i) <= n /\ n + 1 - R(i) = e + (i - e) + 2
        BY <2>2 DEF Rank
      <3> HIDE DEF R, n
      <3> QED
        BY <3>1
    <2> QED
      BY <2>1, <2>2
  <1>2. ASSUME NEW k \in 1..n, t[k][1] \in {"store", "copy"}
        PROVE  n - k < z \/ \E i \in 1..e + d : k = n + 1 - R(i)
    <2>1. k # 1 /\ k # e + 2
      BY <1>2
    <2>2. CASE k <= e + 1
      <3>1. k - 1 \in 1..e + d /\ k = n + 1 - R(k - 1)
        BY <2>1, <2>2 DEF Rank
      <3> QED
        BY <3>1
    <2>3. CASE k > e + 1 /\ k <= e + d + 2
      <3>1. k - 2 \in 1..e + d /\ k = n + 1 - R(k - 2)
        BY <2>1, <2>3 DEF Rank
      <3> QED
        BY <3>1
    <2>4. CASE k > e + d + 2
      BY <2>4
    <2> QED
      BY <2>2, <2>3, <2>4
  <1>3. ASSUME NEW k \in 1..n, t[k][1] = "store" PROVE \E i \in 1..e + d : k = n + 1 - R(i)
    <2>1. n - k < z => k - (e + d + 2) \in 1..z /\ e + d + 2 + (k - (e + d + 2)) = k
      OBVIOUS
    <2>2. ~(n - k < z)
      BY <1>3, <2>1
    <2> QED
      BY <1>2, <1>3, <2>2
  <1>4. ASSUME NEW k \in 1..n, t[k][1] = "copy" PROVE n - k < z
    <2>1. ASSUME NEW i \in 1..e + d, k = n + 1 - R(i) PROVE FALSE
      <3>1. t[k][1] = "store"
        BY <1>1, <2>1 DEF Store
      <3> QED
        BY <1>4, <3>1
    <2> QED
      BY <1>2, <1>4, <2>1
  <1>5. 0 + 1 = 1
    OBVIOUS
  <1> QED
    BY <1>1, <1>3, <1>4, <1>5 DEF Ranked

\* The files are read first.
LEMMA OptionsInit ==
    ASSUME ConfigAssumption, ProgramAssumption, ObjectAssumption, Init
    PROVE  OptionsInv
  <1>1. ArgumentsInv /\ given \in Configurations
    BY StartInit DEF StartInv, ArgumentsInv
  <1>2. GivenInv
    BY <1>1, GivenLists
  <1>e. PICK e \in Nat, d \in Nat, z \in Nat : e = Len(given.etc) /\ d = Len(given.cwd) /\ z = Len(Statics)
    BY <1>2 DEF GivenInv
  <1>3. /\ Len(todo) = e + d + z + 2 /\ todo[1][1] = "log" /\ todo[e + 2][1] = "log"
        /\ \A i \in 1..e : todo[i + 1] = Store(given.etc[i][1], given.etc[i][2])
        /\ \A i \in 1..d : todo[e + i + 2] = Store(given.cwd[i][1], given.cwd[i][2])
        /\ \A k \in 1..z : todo[e + d + 2 + k] = Statics[k]
    <2>1. BeforeMain(todo, given, e, d, z)
      BY <1>1, <1>e, InitialCalls DEF Init
    <2> QED
      BY <2>1, Zenon DEF BeforeMain
  <1>4. /\ \A i \in 1..e : AllOptions[i] = given.etc[i]
        /\ \A i \in 1..d : AllOptions[e + i] = given.cwd[i]
    BY <1>2, <1>e, Zenon DEF GivenInv
  <1>5. \A k \in 1..z : todo[e + d + 2 + k][1] # "store"
    BY <1>e, <1>3, StaticCalls
  <1>6. Ranked(todo, Len(todo), 0, AllOptions, e, d, z)
    <2>1. ASSUME NEW i \in 1..e PROVE todo[i + 1] = Store(AllOptions[i][1], AllOptions[i][2])
      BY <1>3, <1>4, Zenon
    <2>2. ASSUME NEW i \in 1..d PROVE todo[e + i + 2] = Store(AllOptions[e + i][1], AllOptions[e + i][2])
      <3>1. todo[e + i + 2] = Store(given.cwd[i][1], given.cwd[i][2])
        BY <1>3
      <3>2. AllOptions[e + i] = given.cwd[i]
        BY <1>4
      <3> QED
        BY <3>1, <3>2
    <2>3. Ranked(todo, e + d + z + 2, 0, AllOptions, e, d, z)
      BY <1>3, <1>5, <2>1, <2>2, RankedAll
    <2> QED
      BY <1>3, <2>3
  <1>7. Told("static", todo, Len(todo), 0, arguments, AllOptions, e, d, z)
    BY <1>6 DEF Told
  <1>8. phase = "static" /\ arguments = given.arguments /\ \A n \in ParamName : stored[n] = Unset
    BY DEF Init, ConfigInit
  <1>9. \A n \in ParamName : Says(AllOptions, 0, n, stored[n])
    BY <1>8 DEF Says
  <1>10. SaidInv(0)
    BY <1>e, <1>7, <1>8, <1>9 DEF SaidInv, InLoop
  <1>11. 0 <= Len(AllOptions)
    BY <1>1, <1>2, GivenSizes DEF Sized, ArgumentsInv
  <1> QED
    BY <1>10, <1>11 DEF OptionsInv

\* The command line comes after the files.
LEMMA OptionsConstructed ==
    ASSUME GivenInv, StartInv, OptionsInv, Constructed
    PROVE  OptionsInv'
  <1>e. PICK e \in Nat, d \in Nat, z \in Nat : e = Len(given.etc) /\ d = Len(given.cwd) /\ z = Len(Statics)
    BY DEF GivenInv
  <1>1. /\ phase = "static" /\ phase' = "arguments" /\ todo = <<>> /\ todo' = todo /\ Len(todo) = 0
        /\ given' = given /\ arguments' = arguments /\ stored' = stored
    BY DEF Constructed, configVars, registryVars
  <1>2. PICK r \in Nat : r <= Len(AllOptions) /\ SaidInv(r)
    BY DEF OptionsInv
  <1>3. arguments = given.arguments /\ r <= e + d /\ Ranked(todo, 0, r, AllOptions, e, d, z)
    BY <1>e, <1>1, <1>2 DEF SaidInv, Told
  <1>4. r = e + d
    BY <1>3, RankedNone
  <1>5. /\ Len(arguments) \in Nat /\ Len(AllOptions) = r + Len(arguments)
        /\ \A i \in 1..Len(arguments) : AllOptions[r + i] = arguments[i]
    BY <1>e, <1>3, <1>4, Zenon DEF GivenInv
  <1>6. Remaining(todo, 0, r, arguments, AllOptions)
    BY <1>5, RemainingAll
  <1>7. Told("arguments", todo, 0, r, arguments, AllOptions, e, d, z)
    BY <1>6 DEF Told
  <1>8. AllOptions' = AllOptions
    BY <1>1 DEF AllOptions
  <1>9. \A n \in ParamName : Says(AllOptions, r, n, stored[n])
    BY <1>2 DEF SaidInv
  <1>10. SaidInv(r)'
    BY <1>e, <1>1, <1>7, <1>8, <1>9 DEF SaidInv, InLoop
  <1> QED
    BY <1>2, <1>8, <1>10 DEF OptionsInv

\* The next option of the command line is set, or main() returns.
LEMMA OptionsArgument ==
    ASSUME GivenInv, StartInv, OptionsInv, Argument
    PROVE  OptionsInv'
  <1>1. /\ phase = "arguments" /\ todo = <<>> /\ Len(todo) = 0 /\ arguments # <<>> /\ arguments' = Tail(arguments)
        /\ given' = given /\ stored' = stored
    BY DEF Argument, registryVars
  <1>2. PICK r \in Nat : r <= Len(AllOptions) /\ SaidInv(r)
    BY DEF OptionsInv
  <1>3. AllOptions' = AllOptions
    BY <1>1 DEF AllOptions
  <1>4. \A n \in ParamName : Says(AllOptions, r, n, stored[n])
    BY <1>2 DEF SaidInv
  <1>5. arguments \in Seq(Option \cup {BadArgument}) /\ Head(arguments) = arguments[1]
    BY <1>1 DEF StartInv, ArgumentsInv
  <1>6. CASE Head(arguments) = BadArgument
    <2>1. phase' = "exit"
      BY <1>6 DEF Argument
    <2>2. SaidInv(r)'
      BY <1>1, <1>3, <1>4, <2>1 DEF SaidInv, Told, InLoop
    <2> QED
      BY <1>2, <1>3, <2>2 DEF OptionsInv
  <1>7. CASE Head(arguments) # BadArgument
    <2>1. phase' = "arguments" /\ todo' = <<Store(arguments[1][1], arguments[1][2])>>
      BY <1>1, <1>5, <1>7 DEF Argument
    <2>2. Remaining(todo, 0, r, arguments, AllOptions)
      BY <1>1, <1>2 DEF SaidInv, Told
    <2>3. Len(AllOptions) \in Nat
      BY <1>5, GivenSizes DEF Sized
    <2>4. todo'[1] = Store(arguments[1][1], arguments[1][2]) /\ Len(todo') = 1
      BY <2>1
    <2>5. Remaining(todo', 1, r, arguments', AllOptions)
      BY <1>1, <1>5, <1>7, <2>2, <2>3, <2>4, RemainingNext
    <2>6. SaidInv(r)'
      BY <1>1, <1>3, <1>4, <2>1, <2>4, <2>5 DEF SaidInv, Told, InLoop
    <2> QED
      BY <1>2, <1>3, <2>6 DEF OptionsInv
  <1> QED
    BY <1>6, <1>7

\* All has been said when main() constructs its parameters.
LEMMA OptionsBegin ==
    ASSUME GivenInv, StartInv, OptionsInv, Begin
    PROVE  OptionsInv'
  <1>1. /\ phase = "arguments" /\ phase' = "main" /\ todo = <<>> /\ Len(todo) = 0 /\ arguments = <<>> /\ Len(arguments) = 0
        /\ given' = given /\ stored' = stored
    BY DEF Begin, registryVars
  <1>2. PICK r \in Nat : r <= Len(AllOptions) /\ SaidInv(r)
    BY DEF OptionsInv
  <1>3. AllOptions' = AllOptions
    BY <1>1 DEF AllOptions
  <1>4. \A n \in ParamName : Says(AllOptions, r, n, stored[n])
    BY <1>2 DEF SaidInv
  <1>5. Len(arguments) + r = Len(AllOptions)
    BY <1>1, <1>2 DEF SaidInv, Told, Remaining, Occurs
  <1>6. r = Len(AllOptions)
    BY <1>1, <1>5
  <1>7. SaidInv(r)'
    BY <1>1, <1>3, <1>4, <1>6 DEF SaidInv, Told, InLoop
  <1> QED
    BY <1>2, <1>3, <1>7 DEF OptionsInv

\* main() goes on and nothing more is said.
LEMMA OptionsPhase ==
    ASSUME OptionsInv, UNCHANGED <<given, stored>>,
           \/ UNCHANGED <<phase, arguments, todo>>
           \/ /\ phase' \notin {"static", "arguments"}
              /\ phase' = "main" \/ InLoop' => phase = "main" \/ InLoop
    PROVE  OptionsInv'
  <1>1. PICK r \in Nat : r <= Len(AllOptions) /\ SaidInv(r)
    BY DEF OptionsInv
  <1>2. AllOptions' = AllOptions
    BY DEF AllOptions
  <1>3. SaidInv(r)'
    BY <1>1, <1>2 DEF SaidInv, Told, InLoop
  <1> QED
    BY <1>1, <1>2, <1>3 DEF OptionsInv

\* Every step of the program.
LEMMA OptionsNext ==
    ASSUME ConfigAssumption, GivenInv, StartInv, OptionsInv, [Next]_vars
    PROVE  OptionsInv'
  <1>1. InLoop => todo = <<>>
    BY DEF StartInv, StackInv, LifeInv, Timely
  <1>2. CASE Calls
    BY <1>2, OptionsStep DEF Calls, mainVars
  <1>3. CASE Constructed
    BY <1>3, OptionsConstructed
  <1>4. CASE Argument
    BY <1>4, OptionsArgument
  <1>5. CASE Begin
    BY <1>5, OptionsBegin
  <1>6. CASE FirstPass \/ Exited \/ DestroyLast \/ Reconnect \/ Write \/ Pace \/ Wake \/ Stop
    <2>1. UNCHANGED <<given, stored>>
      BY <1>6 DEF FirstPass, Exited, DestroyLast, Reconnect, Write, Pace, Wake, Stop, mainVars, configVars, registryVars
    <2>2. phase' \notin {"static", "arguments"} /\ (phase' = "main" \/ InLoop' => phase = "main" \/ InLoop)
      BY <1>6 DEF FirstPass, Exited, DestroyLast, Reconnect, Write, Pace, Wake, Stop, InLoop, mainVars
    <2> QED
      BY <2>1, <2>2, OptionsPhase
  <1>7. CASE Close \/ Kill \/ Tick \/ ClockStep \/ Unplug \/ UNCHANGED vars
    <2>1. UNCHANGED <<given, stored, phase, arguments, todo>>
      BY <1>7 DEF Close, Kill, Tick, ClockStep, Unplug, vars, mainVars, configVars, registryVars
    <2> QED
      BY <2>1, OptionsPhase
  <1> QED
    BY <1>2, <1>3, <1>4, <1>5, <1>6, <1>7 DEF Next, Main

-----------------------------------------------------------------------------
(* The values.                                                             *)

\* The parser is called for p.
Parsing(c, p) == c[1] = "parse" /\ c[2] = p

\* p has the value v while n calls are to be made, t[k] of them the k-th, the text
\* is stored for it and the environment says env: once the parser has been called
\* for the last time the value is that of the text, or of the environment.
Current(t, n, p, v, text, env) ==
    /\ (\A k \in 1..n : ~Parsing(t[k], p)) => v \in Proper(p, text, env)
    /\ \A k \in 1..n : Parsing(t[k], p) =>
          IF text # Unset
          THEN (\A j \in k + 1..n : ~Parsing(t[j], p)) => t[k][3] = text
          ELSE t[k][3] = env /\ v = Default[p] /\ \A j \in k + 1..n : ~Parsing(t[j], p)

\* Of the m calls none is for p.
Silent(calls, m, p) == \A k \in 1..m : ~Parsing(calls[k], p)

\* What is called for p after the first call is called later.
Later(new, w, t, n, p) ==
    /\ \A k \in 1..w : Parsing(new[k], p) =>
          \E i \in 2..n : /\ new[k] = t[i]
                          /\ (\A j \in k + 1..w : ~Parsing(new[j], p)) => \A j \in i + 1..n : ~Parsing(t[j], p)
                          /\ (\A j \in i + 1..n : ~Parsing(t[j], p)) => \A j \in k + 1..w : ~Parsing(new[j], p)
    /\ (\A k \in 1..w : ~Parsing(new[k], p)) => \A i \in 2..n : ~Parsing(t[i], p)

\* Calls for others are put in front.
LEMMA LaterPut ==
    ASSUME NEW n \in Nat \ {0}, NEW t, NEW m \in Nat, NEW calls, NEW new, Shifted(new, calls, m, t, n),
           NEW p, Silent(calls, m, p)
    PROVE  Later(new, m + n - 1, t, n, p)
  <1> DEFINE w == m + n - 1
  <1>1. ASSUME NEW k \in m + 1..w PROVE new[k] = t[k - m + 1] /\ k - m + 1 \in 2..n
    BY DEF Shifted
  <1>2. ASSUME NEW i \in 2..n PROVE i + m - 1 \in m + 1..w /\ i + m - 1 \in 1..w /\ new[i + m - 1] = t[i]
    <2>1. i + m - 1 \in m + 1..w /\ (i + m - 1) - m + 1 = i
      OBVIOUS
    <2> QED
      BY <2>1 DEF Shifted
  <1>3. ASSUME NEW k \in 1..m PROVE ~Parsing(new[k], p)
    BY DEF Shifted, Silent
  <1>4. ASSUME NEW k \in 1..w, Parsing(new[k], p)
        PROVE  \E i \in 2..n : /\ new[k] = t[i]
                               /\ (\A j \in k + 1..w : ~Parsing(new[j], p)) => \A j \in i + 1..n : ~Parsing(t[j], p)
                               /\ (\A j \in i + 1..n : ~Parsing(t[j], p)) => \A j \in k + 1..w : ~Parsing(new[j], p)
    <2>1. k \in m + 1..w
      BY <1>3, <1>4
    <2>2. new[k] = t[k - m + 1] /\ k - m + 1 \in 2..n
      BY <1>1, <2>1
    <2>3. ASSUME NEW j \in (k - m + 1) + 1..n, \A l \in k + 1..w : ~Parsing(new[l], p) PROVE ~Parsing(t[j], p)
      <3>1. j \in 2..n /\ j + m - 1 \in k + 1..w
        BY <2>1
      <3> QED
        BY <1>2, <2>3, <3>1
    <2>4. ASSUME NEW j \in k + 1..w, \A l \in (k - m + 1) + 1..n : ~Parsing(t[l], p) PROVE ~Parsing(new[j], p)
      <3>1. j \in m + 1..w /\ j - m + 1 \in (k - m + 1) + 1..n
        BY <2>1
      <3> QED
        BY <1>1, <2>4, <3>1
    <2> QED
      BY <2>2, <2>3, <2>4
  <1>5. ASSUME \A k \in 1..w : ~Parsing(new[k], p), NEW i \in 2..n PROVE ~Parsing(t[i], p)
    BY <1>2, <1>5
  <1> QED
    BY <1>4, <1>5 DEF Later

\* A call that is not for p is made.
LEMMA CurrentPut ==
    ASSUME NEW n \in Nat \ {0}, NEW t, NEW w, NEW new, NEW p, Later(new, w, t, n, p), ~Parsing(t[1], p),
           NEW v, NEW text, NEW env, Current(t, n, p, v, text, env)
    PROVE  Current(new, w, p, v, text, env)
  <1>1. \A i \in 1..n : i = 1 \/ i \in 2..n
    OBVIOUS
  <1>2. \A i \in 2..n : i \in 1..n
    OBVIOUS
  <1>3. ASSUME \A k \in 1..w : ~Parsing(new[k], p) PROVE v \in Proper(p, text, env)
    BY <1>1, <1>3 DEF Later, Current
  <1>4. ASSUME NEW k \in 1..w, Parsing(new[k], p)
        PROVE  IF text # Unset
               THEN (\A j \in k + 1..w : ~Parsing(new[j], p)) => new[k][3] = text
               ELSE new[k][3] = env /\ v = Default[p] /\ \A j \in k + 1..w : ~Parsing(new[j], p)
    <2>1. PICK i \in 2..n : /\ new[k] = t[i]
                            /\ (\A j \in k + 1..w : ~Parsing(new[j], p)) => \A j \in i + 1..n : ~Parsing(t[j], p)
                            /\ (\A j \in i + 1..n : ~Parsing(t[j], p)) => \A j \in k + 1..w : ~Parsing(new[j], p)
      BY <1>4 DEF Later
    <2>2. i \in 1..n /\ Parsing(t[i], p)
      BY <1>2, <1>4, <2>1
    <2> QED
      BY <2>1, <2>2 DEF Current
  <1> QED
    BY <1>3, <1>4 DEF Current

\* The parser is called for p: it leaves the value that was there when it throws.
LEMMA CurrentParse ==
    ASSUME NEW n \in Nat \ {0}, NEW t, NEW w, NEW new, NEW p, Later(new, w, t, n, p), Parsing(t[1], p),
           NEW v, NEW text, NEW env, Current(t, n, p, v, text, env), v \in ValuesOf(p), t[1][3] # Unset,
           NEW u, u \in Parses[<<p, t[1][3]>>] \/ (Parses[<<p, t[1][3]>>] = {} /\ u = v)
    PROVE  Current(new, w, p, u, text, env)
  <1>1. /\ \A i \in 2..n : i \in 1..n /\ i \in 1 + 1..n
        /\ \A i \in 1 + 1..n : i \in 2..n
        /\ 1 \in 1..n
    OBVIOUS
  <1>2. CASE text # Unset
    <2>1. ASSUME \A k \in 1..w : ~Parsing(new[k], p) PROVE u \in Proper(p, text, env)
      <3>1. \A j \in 1 + 1..n : ~Parsing(t[j], p)
        BY <1>1, <2>1 DEF Later
      <3>2. t[1][3] = text
        BY <1>1, <1>2, <3>1 DEF Current
      <3> QED
        BY <1>2, <3>2 DEF Proper
    <2>2. ASSUME NEW k \in 1..w, Parsing(new[k], p), \A j \in k + 1..w : ~Parsing(new[j], p) PROVE new[k][3] = text
      <3>1. PICK i \in 2..n : new[k] = t[i] /\ \A j \in i + 1..n : ~Parsing(t[j], p)
        BY <2>2 DEF Later
      <3>2. i \in 1..n /\ Parsing(t[i], p)
        BY <1>1, <2>2, <3>1
      <3> QED
        BY <1>2, <3>1, <3>2 DEF Current
    <2> QED
      BY <1>2, <2>1, <2>2 DEF Current
  <1>3. CASE text = Unset
    <2>1. t[1][3] = env /\ v = Default[p] /\ \A j \in 1 + 1..n : ~Parsing(t[j], p)
      BY <1>1, <1>3 DEF Current
    <2>2. ASSUME NEW k \in 1..w, Parsing(new[k], p) PROVE FALSE
      <3>1. PICK i \in 2..n : new[k] = t[i]
        BY <2>2 DEF Later
      <3> QED
        BY <1>1, <2>1, <2>2, <3>1
    <2>3. u \in Proper(p, text, env)
      BY <1>3, <2>1 DEF Proper
    <2> QED
      BY <2>2, <2>3 DEF Current
  <1> QED
    BY <1>2, <1>3

\* p is constructed: the environment, then what is stored.
LEMMA CurrentConstruct ==
    ASSUME NEW n \in Nat \ {0}, NEW t, NEW p, \A k \in 1..n : ~Parsing(t[k], p),
           NEW calls, NEW m, NEW text, NEW env, ConstructPuts(calls, m, p, env, text),
           NEW new, Shifted(new, calls, m, t, n)
    PROVE  Current(new, m + n - 1, p, Default[p], text, env)
  <1> DEFINE w == m + n - 1
  <1>1. /\ m \in {1, 2, 3} /\ calls[m][1] = "leave"
        /\ \A k \in 1..m - 1 : calls[k][1] = "parse" /\ calls[k][2] = p
        /\ m = 1 <=> env = Unset /\ text = Unset
        /\ m > 1 => calls[m - 1][3] = IF text # Unset THEN text ELSE env
        /\ text = Unset => m <= 2
    BY DEF ConstructPuts
  <1>2. ASSUME NEW k \in m + 1..w PROVE ~Parsing(new[k], p)
    <2>1. k - m + 1 \in 1..n /\ new[k] = t[k - m + 1]
      BY <1>1 DEF Shifted
    <2> QED
      BY <2>1
  <1>3. \A k \in 1..m : new[k] = calls[k]
    BY DEF Shifted
  <1>4. \A k \in 1..m - 1 : Parsing(new[k], p) /\ k \in 1..w
    BY <1>1, <1>3 DEF Parsing
  <1>5. ~Parsing(new[m], p)
    BY <1>1, <1>3 DEF Parsing
  <1>6. ASSUME NEW k \in 1..w, Parsing(new[k], p) PROVE k \in 1..m - 1
    BY <1>1, <1>2, <1>5, <1>6
  <1>7. ASSUME \A k \in 1..w : ~Parsing(new[k], p) PROVE Default[p] \in Proper(p, text, env)
    <2>1. m = 1
      BY <1>1, <1>4, <1>7
    <2> QED
      BY <1>1, <2>1 DEF Proper
  <1>8. ASSUME NEW k \in 1..w, Parsing(new[k], p), text # Unset, \A j \in k + 1..w : ~Parsing(new[j], p)
        PROVE  new[k][3] = text
    <2>1. k \in 1..m - 1
      BY <1>6, <1>8
    <2>2. k = m - 1
      <3>1. k < m - 1 => m - 1 \in k + 1..w /\ m - 1 \in 1..m - 1
        BY <1>1, <2>1
      <3> QED
        BY <1>1, <1>4, <1>8, <2>1, <3>1
    <2> QED
      BY <1>1, <1>3, <1>8, <2>1, <2>2
  <1>9. ASSUME NEW k \in 1..w, Parsing(new[k], p), text = Unset
        PROVE  new[k][3] = env /\ \A j \in k + 1..w : ~Parsing(new[j], p)
    <2>1. k \in 1..m - 1 /\ m <= 2
      BY <1>1, <1>6, <1>9
    <2>2. k = 1 /\ m = 2
      BY <1>1, <2>1
    <2>3. new[k][3] = env
      BY <1>1, <1>3, <1>9, <2>2
    <2>4. ASSUME NEW j \in k + 1..w PROVE ~Parsing(new[j], p)
      <3>1. j \in 1..w /\ j \notin 1..m - 1
        BY <2>2
      <3> QED
        BY <1>6, <3>1
    <2> QED
      BY <2>3, <2>4
  <1> QED
    BY <1>7, <1>8, <1>9 DEF Current

\* Of m calls and another the i-th alone is for p.
Once(calls, m, i, p, text) ==
    /\ i \in 1..m /\ Parsing(calls[i], p) /\ calls[i][3] = text
    /\ \A k \in 1..m : Parsing(calls[k], p) => k = i
    /\ calls[m + 1][1] = "leave"

\* The name of p is set.
LEMMA CurrentStore ==
    ASSUME NEW n \in Nat \ {0}, NEW t, NEW p, Silent(t, n, p), NEW m \in Nat,
           NEW calls, NEW i, NEW text, Once(calls, m, i, p, text), text # Unset,
           NEW new, Shifted(new, calls, m + 1, t, n), NEW v, NEW env
    PROVE  Current(new, (m + 1) + n - 1, p, v, text, env)
  <1> DEFINE w == (m + 1) + n - 1
  <1>0. /\ i \in 1..m /\ Parsing(calls[i], p) /\ calls[i][3] = text
        /\ \A k \in 1..m : Parsing(calls[k], p) => k = i
        /\ calls[m + 1][1] = "leave"
        /\ \A k \in 1..n : ~Parsing(t[k], p)
    BY DEF Once, Silent
  <1>1. ASSUME NEW k \in 1..w, Parsing(new[k], p) PROVE k = i
    <2>1. CASE k \in (m + 1) + 1..w
      <3>1. k - (m + 1) + 1 \in 1..n /\ new[k] = t[k - (m + 1) + 1]
        BY <2>1 DEF Shifted
      <3> QED
        BY <1>0, <1>1, <3>1
    <2>2. CASE k \in 1..m
      <3>1. new[k] = calls[k]
        BY <2>2 DEF Shifted
      <3> QED
        BY <1>0, <1>1, <2>2, <3>1
    <2>3. CASE k = m + 1
      <3>1. new[k] = calls[m + 1]
        BY <2>3 DEF Shifted
      <3> QED
        BY <1>0, <1>1, <3>1 DEF Parsing
    <2> QED
      BY <2>1, <2>2, <2>3
  <1>2. i \in 1..w /\ new[i] = calls[i]
    BY <1>0 DEF Shifted
  <1>3. Parsing(new[i], p) /\ new[i][3] = text
    BY <1>0, <1>2
  <1> QED
    BY <1>1, <1>2, <1>3 DEF Current

\* Every parameter has the value given last, or will have when the parser has been
\* called.
ValuesInv ==
    \A p \in DOMAIN live :
        Current(todo, Len(todo), p, live[p], stored[NameOf[p]], environment[NameOf[p]])

\* A step that is not about p.
LEMMA ValueKept ==
    ASSUME ValuesInv, NEW p \in DOMAIN live, ~Parsing(todo[1], p),
           NEW calls, Replaced(calls), Silent(calls, Len(calls), p),
           live'[p] = live[p], stored'[NameOf[p]] = stored[NameOf[p]], environment' = environment
    PROVE  Current(todo', Len(todo'), p, live'[p], stored'[NameOf[p]], environment'[NameOf[p]])
  <1>1. /\ Len(calls) \in Nat /\ Len(todo) \in Nat \ {0} /\ Len(todo') = Len(calls) + Len(todo) - 1
        /\ Shifted(todo', calls, Len(calls), todo, Len(todo))
    BY Moved
  <1>2. Later(todo', Len(todo'), todo, Len(todo), p)
    BY <1>1, LaterPut
  <1>3. Current(todo, Len(todo), p, live[p], stored[NameOf[p]], environment[NameOf[p]])
    BY DEF ValuesInv
  <1>4. Current(todo', Len(todo'), p, live[p], stored[NameOf[p]], environment[NameOf[p]])
    BY <1>1, <1>2, <1>3, CurrentPut
  <1> QED
    BY <1>4

\* A parameter is constructed.
LEMMA ValuesConstruct ==
    ASSUME StackInv, RegistryInv, LifeInv, ConfigAssumption, ConstructStep, ValuesInv
    PROVE  ValuesInv'
  <1>1. /\ todo # <<>> /\ todo[1][1] = "construct" /\ Object \in Param /\ Object = todo[1][2]
        /\ \E calls, m : ConstructPuts(calls, m, Object, environment[NameOf[Object]], stored[NameOf[Object]])
    BY ConstructCalls
  <1>2. PICK calls, m : ConstructPuts(calls, m, Object, environment[NameOf[Object]], stored[NameOf[Object]])
    BY <1>1
  <1>3. Replaced(calls) /\ m = Len(calls)
    BY <1>2 DEF ConstructPuts
  <1>4. /\ Len(calls) \in Nat /\ Len(todo) \in Nat \ {0} /\ Len(todo') = Len(calls) + Len(todo) - 1
        /\ Shifted(todo', calls, Len(calls), todo, Len(todo))
    BY <1>3, Moved
  <1>5. live' = With(live, Object, Default[Object]) /\ stored' = stored /\ environment' = environment
    BY DEF ConstructStep
  <1>6. \A k \in 1..Len(todo) : ~Parsing(todo[k], Object)
    <2>1. 1 \in 1..Len(todo)
      BY <1>4
    <2> QED
      BY <1>1, <2>1 DEF LifeInv, Orderly, Parsing
  <1>7. ASSUME NEW p \in DOMAIN live, p # Object
        PROVE  Current(todo', Len(todo'), p, live'[p], stored'[NameOf[p]], environment'[NameOf[p]])
    <2>1. live'[p] = live[p]
      BY <1>5, <1>7 DEF With
    <2>2. ~Parsing(todo[1], p)
      BY <1>1 DEF Parsing
    <2>3. Silent(calls, Len(calls), p)
      BY <1>2, <1>3, <1>7 DEF ConstructPuts, Silent, Parsing
    <2> QED
      BY <1>3, <1>5, <2>1, <2>2, <2>3, ValueKept
  <1>8. Current(todo', Len(todo'), Object, live'[Object], stored'[NameOf[Object]], environment'[NameOf[Object]])
    <2>1. live'[Object] = Default[Object]
      BY <1>5 DEF With
    <2>2. Current(todo', m + Len(todo) - 1, Object, Default[Object], stored[NameOf[Object]], environment[NameOf[Object]])
      BY <1>2, <1>3, <1>4, <1>6, CurrentConstruct
    <2> QED
      BY <1>3, <1>4, <1>5, <2>1, <2>2
  <1>9. DOMAIN live' = DOMAIN live \cup {Object}
    BY <1>5 DEF With
  <1> QED
    BY <1>7, <1>8, <1>9 DEF ValuesInv

\* Where the mutex is free nobody has called the parser.
LEMMA NoneParsing ==
    ASSUME StackInv, todo # <<>>, todo[1][1] \in {"store", "copy"}, NEW k \in 1..Len(todo)
    PROVE  todo[k][1] # "parse"
  <1>1. PICK depth : Depths(todo, Len(todo), lock_recurse, depth)
    BY DEF StackInv
  <1>2. 1 \in 1..Len(todo) /\ 1 <= k /\ k \in 1..Len(todo) + 1 /\ 1 \in 1..Len(todo) + 1
    <2>1. Len(todo) \in Nat \ {0}
      BY First
    <2> QED
      BY <2>1
  <1>3. Allowed(todo[1][1], depth[1]) /\ Allowed(todo[k][1], depth[k]) /\ depth[k] <= depth[1] /\ depth[k] \in 0..2
    BY <1>1, <1>2 DEF Depths
  <1> QED
    BY <1>3 DEF Allowed

\* A name is set: nobody has called the parser who does not come back first.
LEMMA ValuesStore ==
    ASSUME StackInv, RegistryInv, LifeInv, ConfigAssumption, StoreStep, ValuesInv
    PROVE  ValuesInv'
  <1>1. /\ todo # <<>> /\ todo[1][1] = "store" /\ todo[1][2] \in ParamName /\ todo[1][3] \in Text
        /\ stored' = [stored EXCEPT ![todo[1][2]] = todo[1][3]]
        /\ \E calls, m : StorePuts(calls, m, todo[1][2], todo[1][3])
    BY StoreCalls
  <1>2. PICK calls, m : StorePuts(calls, m, todo[1][2], todo[1][3])
    BY <1>1
  <1>3. /\ Replaced(calls) /\ m \in Nat /\ Len(calls) = m + 1 /\ calls[m + 1][1] = "leave"
        /\ \A k \in 1..m : /\ subscribers[todo[1][2]][k] \in DOMAIN live
                           /\ NameOf[subscribers[todo[1][2]][k]] = todo[1][2]
                           /\ calls[k][1] = "parse" /\ calls[k][2] = subscribers[todo[1][2]][k] /\ calls[k][3] = todo[1][3]
        /\ \A j, k \in 1..m : subscribers[todo[1][2]][j] = subscribers[todo[1][2]][k] => j = k
        /\ \A p \in DOMAIN live : NameOf[p] = todo[1][2] => \E k \in 1..m : subscribers[todo[1][2]][k] = p
    BY <1>2 DEF StorePuts
  <1>4. /\ Len(calls) \in Nat /\ Len(todo) \in Nat \ {0} /\ Len(todo') = Len(calls) + Len(todo) - 1
        /\ Shifted(todo', calls, Len(calls), todo, Len(todo))
    BY <1>3, Moved
  <1>5. live' = live /\ environment' = environment
    BY DEF StoreStep
  <1>6. ASSUME NEW k \in 1..Len(todo) PROVE todo[k][1] # "parse"
    BY <1>1, NoneParsing
  <1>7. ASSUME NEW p \in DOMAIN live, NameOf[p] # todo[1][2]
        PROVE  Current(todo', Len(todo'), p, live'[p], stored'[NameOf[p]], environment'[NameOf[p]])
    <2>1. ~Parsing(todo[1], p)
      BY <1>1 DEF Parsing
    <2>2. Silent(calls, Len(calls), p)
      <3>1. \A k \in 1..m + 1 : k \in 1..m \/ k = m + 1
        BY <1>3
      <3> QED
        BY <1>3, <1>7, <3>1 DEF Silent, Parsing
    <2>3. stored'[NameOf[p]] = stored[NameOf[p]]
      BY <1>1, <1>7 DEF RegistryInv
    <2> QED
      BY <1>3, <1>5, <2>1, <2>2, <2>3, ValueKept
  <1>8. ASSUME NEW p \in DOMAIN live, NameOf[p] = todo[1][2]
        PROVE  Current(todo', Len(todo'), p, live'[p], stored'[NameOf[p]], environment'[NameOf[p]])
    <2>1. PICK i \in 1..m : subscribers[todo[1][2]][i] = p
      BY <1>3, <1>8
    <2>2. Parsing(calls[i], p) /\ calls[i][3] = todo[1][3] /\ \A k \in 1..m : Parsing(calls[k], p) => k = i
      BY <1>3, <2>1 DEF Parsing
    <2>3. todo[1][3] # Unset
      BY <1>1 DEF ConfigAssumption
    <2>4. \A k \in 1..Len(todo) : ~Parsing(todo[k], p)
      BY <1>6 DEF Parsing
    <2>5. Shifted(todo', calls, m + 1, todo, Len(todo)) /\ Len(todo') = (m + 1) + Len(todo) - 1
      BY <1>3, <1>4
    <2>6. Current(todo', (m + 1) + Len(todo) - 1, p, live[p], todo[1][3], environment[NameOf[p]])
      <3>1. Once(calls, m, i, p, todo[1][3])
        BY <1>3, <2>2 DEF Once
      <3>2. Silent(todo, Len(todo), p)
        BY <2>4 DEF Silent
      <3> QED
        BY <1>3, <1>4, <2>3, <2>5, <3>1, <3>2, CurrentStore
    <2>7. stored'[NameOf[p]] = todo[1][3]
      BY <1>1, <1>8 DEF RegistryInv
    <2> QED
      BY <1>5, <2>5, <2>6, <2>7
  <1> QED
    BY <1>5, <1>7, <1>8 DEF ValuesInv

\* The parser is called.
LEMMA ValuesParse ==
    ASSUME StackInv, RegistryInv, LifeInv, ConfigAssumption, ParseStep, ValuesInv
    PROVE  ValuesInv'
  <1>1. /\ todo # <<>> /\ todo[1][1] = "parse" /\ Object \in Param /\ Object = todo[1][2]
        /\ todo[1][3] \in Text /\ Head(todo) = todo[1]
        /\ \E calls, m : ParsePuts(calls, m)
    BY ParseCalls
  <1>2. PICK calls, m : ParsePuts(calls, m)
    BY <1>1
  <1>3. Replaced(calls) /\ \A p : Silent(calls, Len(calls), p)
    BY <1>2 DEF ParsePuts, Silent, Parsing
  <1>4. /\ Len(calls) \in Nat /\ Len(todo) \in Nat \ {0} /\ Len(todo') = Len(calls) + Len(todo) - 1
        /\ Shifted(todo', calls, Len(calls), todo, Len(todo))
    BY <1>3, Moved
  <1>5. stored' = stored /\ environment' = environment /\ DOMAIN live' = DOMAIN live
    BY DEF ParseStep
  <1>6. Object \in DOMAIN live
    <2>1. 1 \in 1..Len(todo)
      BY <1>4
    <2> QED
      BY <1>1, <2>1 DEF LifeInv, Orderly
  <1>7. ASSUME NEW p \in DOMAIN live, p # Object
        PROVE  Current(todo', Len(todo'), p, live'[p], stored'[NameOf[p]], environment'[NameOf[p]])
    <2>1. live'[p] = live[p]
      BY <1>7 DEF ParseStep
    <2>2. ~Parsing(todo[1], p)
      BY <1>1, <1>7 DEF Parsing
    <2> QED
      BY <1>3, <1>5, <2>1, <2>2, ValueKept
  <1>8. Current(todo', Len(todo'), Object, live'[Object], stored'[NameOf[Object]], environment'[NameOf[Object]])
    <2>1. Current(todo, Len(todo), Object, live[Object], stored[NameOf[Object]], environment[NameOf[Object]])
      BY <1>6 DEF ValuesInv
    <2>2. live[Object] \in ValuesOf(Object)
      BY <1>6 DEF RegistryInv
    <2>3. Later(todo', Len(todo'), todo, Len(todo), Object)
      BY <1>3, <1>4, LaterPut
    <2>4. Parsing(todo[1], Object) /\ todo[1][3] # Unset
      BY <1>1 DEF Parsing, ConfigAssumption
    <2>5. \/ live'[Object] \in Parses[<<Object, todo[1][3]>>]
          \/ Parses[<<Object, todo[1][3]>>] = {} /\ live'[Object] = live[Object]
      BY <1>1, <1>6 DEF ParseStep
    <2>6. Current(todo', Len(todo'), Object, live'[Object], stored[NameOf[Object]], environment[NameOf[Object]])
      BY <1>4, <2>1, <2>2, <2>3, <2>4, <2>5, CurrentParse
    <2> QED
      BY <1>5, <2>6
  <1> QED
    BY <1>5, <1>7, <1>8 DEF ValuesInv

\* Every call.
LEMMA ValuesStep ==
    ASSUME StackInv, RegistryInv, LifeInv, ConfigAssumption, ConfigStep, ValuesInv
    PROVE  ValuesInv'
  <1>1. CASE ConstructStep
    BY <1>1, ValuesConstruct
  <1>2. CASE StoreStep
    BY <1>2, ValuesStore
  <1>3. CASE ParseStep
    BY <1>3, ValuesParse
  <1>4. ASSUME NEW calls, Replaced(calls), \A p : Silent(calls, Len(calls), p), todo[1][1] # "parse",
               DOMAIN live' \subseteq DOMAIN live, \A p \in DOMAIN live' : live'[p] = live[p],
               stored' = stored, environment' = environment
        PROVE  ValuesInv'
    <2>1. ASSUME NEW p \in DOMAIN live'
          PROVE  Current(todo', Len(todo'), p, live'[p], stored'[NameOf[p]], environment'[NameOf[p]])
      <3>1. p \in DOMAIN live /\ live'[p] = live[p] /\ Silent(calls, Len(calls), p) /\ ~Parsing(todo[1], p)
        BY <1>4 DEF Parsing
      <3> QED
        BY <1>4, <3>1, ValueKept
    <2> QED
      BY <2>1 DEF ValuesInv
  <1>5. \A p : Silent(<<>>, Len(<<>>), p)
    <2>1. Len(<<>>) = 0
      OBVIOUS
    <2> QED
      BY <2>1 DEF Silent
  <1>6. CASE DestroyStep
    <2>1. todo[1][1] # "parse" /\ Replaced(<<>>)
      BY <1>6, NoCalls
    <2>2. /\ DOMAIN live' \subseteq DOMAIN live /\ \A p \in DOMAIN live' : live'[p] = live[p]
          /\ stored' = stored /\ environment' = environment
      BY <1>6 DEF DestroyStep
    <2> QED
      BY <1>4, <1>5, <2>1, <2>2
  <1>7. CASE CopyStep \/ LeaveStep \/ ReadyStep
    <2>1. todo[1][1] # "parse" /\ Replaced(<<>>)
      BY <1>7, NoCalls
    <2>2. live' = live /\ stored' = stored /\ environment' = environment
      BY <1>7 DEF CopyStep, LeaveStep, ReadyStep, registryVars
    <2> QED
      BY <1>4, <1>5, <2>1, <2>2
  <1>8. CASE LogStep
    <2>1. /\ todo[1][1] = "log"
          /\ Replaced(<<>>) \/ \E calls : \E p \in LogParams : LogPuts(calls, p)
      BY <1>8, LogCalls
    <2>2. live' = live /\ stored' = stored /\ environment' = environment
      BY <1>8 DEF LogStep, registryVars
    <2>3. CASE Replaced(<<>>)
      BY <1>4, <1>5, <2>1, <2>2, <2>3
    <2>4. ASSUME NEW calls, NEW q, LogPuts(calls, q) PROVE ValuesInv'
      <3>1. Replaced(calls) /\ \A p : Silent(calls, Len(calls), p)
        <4>1. \A k \in 1..3 : k = 1 \/ k = 2 \/ k = 3
          OBVIOUS
        <4> QED
          BY <2>1, <2>4, <4>1 DEF LogPuts, Silent, Parsing
      <3> QED
        BY <1>4, <2>1, <2>2, <3>1
    <2> QED
      BY <2>1, <2>3, <2>4
  <1> QED
    BY <1>1, <1>2, <1>3, <1>6, <1>7, <1>8 DEF ConfigStep

\* The environment is that the program was started in, and what has been copied
\* was what the files and the environment say.
CopiedInv ==
    /\ environment = given.environment
    /\ \A p \in DOMAIN copied : copied[p] \in Rightful(p, FileOptions)

\* The inductive invariant of what is said and what is held.
HeldInv == OptionsInv /\ ValuesInv /\ CopiedInv

\* When all that is said has been said, the values are those said last.
LEMMA HeldSaid ==
    ASSUME RegistryInv, ConfigAssumption, ValuesInv, CopiedInv, NEW p \in DOMAIN live,
           \A k \in 1..Len(todo) : ~Parsing(todo[k], p),
           NEW S, NEW options \in Seq(S), \A n \in ParamName : Says(options, Len(options), n, stored[n])
    PROVE  live[p] \in Rightful(p, options)
  <1>1. NameOf[p] \in ParamName
    BY DEF RegistryInv, ConfigAssumption
  <1>2. LastOf(options, NameOf[p]) = stored[NameOf[p]]
    BY <1>1, LastSaid
  <1>3. Current(todo, Len(todo), p, live[p], stored[NameOf[p]], environment[NameOf[p]])
    BY DEF ValuesInv
  <1>4. live[p] \in Proper(p, stored[NameOf[p]], environment[NameOf[p]])
    BY <1>3 DEF Current
  <1> QED
    BY <1>2, <1>4 DEF Rightful, CopiedInv

\* A value is copied before main() when the files have been read.
LEMMA CopiedStep ==
    ASSUME ConfigAssumption, GivenInv, StartInv, HeldInv, ConfigStep, UNCHANGED <<given, phase, arguments>>
    PROVE  CopiedInv'
  <1>1. /\ todo # <<>> /\ todo[1] \in Call /\ 1 \in 1..Len(todo)
        /\ environment' = environment
        /\ todo[1][1] # "copy" => copied' = copied
        /\ todo[1][1] = "copy" => copied' = With(copied, todo[1][2], live[todo[1][2]]) /\ live' = live
    BY Saying DEF StartInv
  <1>2. FileOptions' = FileOptions /\ given' = given
    BY DEF FileOptions
  <1>3. \A p : Rightful(p, FileOptions)' = Rightful(p, FileOptions)
    BY <1>2 DEF Rightful
  <1>4. ASSUME todo[1][1] = "copy" PROVE live[todo[1][2]] \in Rightful(todo[1][2], FileOptions)
    <2>1. phase = "static"
      <3>1. Occurs(todo, Len(todo), "copy")
        BY <1>1, <1>4 DEF Occurs
      <3> QED
        BY <3>1 DEF StartInv, LifeInv, Timely
    <2>2. todo[1][2] \in DOMAIN live
      BY <1>1, <1>4 DEF StartInv, LifeInv, Orderly
    <2>3. \A k \in 1..Len(todo) : ~Parsing(todo[k], todo[1][2])
      BY <1>1, <1>4, NoneParsing DEF StartInv, Parsing
    <2>4. PICK r \in Nat : SaidInv(r)
      BY DEF HeldInv, OptionsInv
    <2>e. PICK e \in Nat, d \in Nat, z \in Nat : e = Len(given.etc) /\ d = Len(given.cwd) /\ z = Len(Statics)
      BY DEF GivenInv
    <2>5. r <= e + d /\ Ranked(todo, Len(todo), r, AllOptions, e, d, z)
      BY <2>1, <2>4, <2>e DEF SaidInv, Told
    <2>6. Len(todo) \in Nat \ {0}
      BY <1>1, First DEF StartInv
    <2>7. r = e + d
      BY <1>4, <2>4, <2>5, <2>6, RankedCopy
    <2>8. /\ FileOptions \in Seq(Option) /\ Len(FileOptions) = r
          /\ \A i \in 1..r : AllOptions[i] = FileOptions[i]
      BY <2>e, <2>7, Zenon DEF GivenInv
    <2>9. ASSUME NEW n \in ParamName PROVE Says(FileOptions, Len(FileOptions), n, stored[n])
      <3>1. Says(AllOptions, r, n, stored[n])
        BY <2>4 DEF SaidInv
      <3> QED
        BY <2>8, <3>1, SaysSame
    <2> QED
      BY <2>2, <2>3, <2>8, <2>9, HeldSaid DEF StartInv, HeldInv
  <1>5. \A p \in DOMAIN copied' : copied'[p] \in Rightful(p, FileOptions)
    BY <1>1, <1>4 DEF HeldInv, CopiedInv, With
  <1> QED
    BY <1>1, <1>2, <1>3, <1>5 DEF HeldInv, CopiedInv

\* The first state.
LEMMA HeldInit ==
    ASSUME ConfigAssumption, ProgramAssumption, ObjectAssumption, Init
    PROVE  HeldInv
  <1>1. OptionsInv
    BY OptionsInit
  <1>2. environment = given.environment /\ DOMAIN live = {} /\ DOMAIN copied = {}
    BY DEF Init, ConfigInit, None
  <1> QED
    BY <1>1, <1>2 DEF HeldInv, ValuesInv, CopiedInv

\* Every step of the program.
LEMMA HeldNext ==
    ASSUME ConfigAssumption, ObjectAssumption, GivenInv, StartInv, HeldInv, [Next]_vars
    PROVE  HeldInv'
  <1>1. OptionsInv'
    BY OptionsNext DEF HeldInv
  <1>2. CASE Calls
    <2>1. ConfigStep /\ UNCHANGED <<given, phase, arguments>>
      BY <1>2 DEF Calls, mainVars
    <2>2. ValuesInv'
      BY <2>1, ValuesStep DEF StartInv, HeldInv
    <2>3. CopiedInv'
      BY <2>1, CopiedStep
    <2> QED
      BY <1>1, <2>2, <2>3 DEF HeldInv
  <1>3. ASSUME UNCHANGED <<given, environment, stored, live, copied>>,
               todo' = todo \/ (Len(todo) = 0 /\ \A k \in 1..Len(todo') : todo'[k][1] # "parse")
        PROVE  HeldInv'
    <2>1. CopiedInv'
      BY <1>3 DEF HeldInv, CopiedInv, Rightful, FileOptions
    <2>2. ValuesInv'
      <3>1. CASE todo' = todo
        BY <1>3, <3>1 DEF HeldInv, ValuesInv
      <3>2. CASE Len(todo) = 0 /\ \A k \in 1..Len(todo') : todo'[k][1] # "parse"
        <4>1. ASSUME NEW p \in DOMAIN live
              PROVE  Current(todo', Len(todo'), p, live[p], stored[NameOf[p]], environment[NameOf[p]])
          <5>1. Current(todo, 0, p, live[p], stored[NameOf[p]], environment[NameOf[p]])
            BY <3>2 DEF HeldInv, ValuesInv
          <5>2. live[p] \in Proper(p, stored[NameOf[p]], environment[NameOf[p]])
            BY <5>1 DEF Current
          <5>3. \A k \in 1..Len(todo') : ~Parsing(todo'[k], p)
            BY <3>2 DEF Parsing
          <5> QED
            BY <5>2, <5>3 DEF Current
        <4> QED
          BY <1>3, <4>1 DEF ValuesInv
      <3> QED
        BY <1>3, <3>1, <3>2
    <2> QED
      BY <1>1, <2>1, <2>2 DEF HeldInv
  <1>4. CASE Argument
    <2>1. todo = <<>> /\ Len(todo) = 0 /\ UNCHANGED <<given, environment, stored, live, copied>>
      BY <1>4 DEF Argument, registryVars
    <2>2. \/ todo' = <<>>
          \/ todo' = <<Store(Head(arguments)[1], Head(arguments)[2])>>
      BY <1>4 DEF Argument
    <2>3. Len(<<>>) = 0 /\ Store(Head(arguments)[1], Head(arguments)[2])[1] # "parse"
      BY DEF Store
    <2>4. \A k \in 1..Len(todo') : todo'[k][1] # "parse"
      BY <2>2, <2>3
    <2> QED
      BY <1>3, <2>1, <2>4
  <1>5. CASE Begin
    <2>1. /\ todo = <<>> /\ Len(todo) = 0 /\ UNCHANGED <<given, environment, stored, live, copied>>
          /\ todo' = [i \in DOMAIN MainParams |-> Construct(MainParams[i])]
      BY <1>5 DEF Begin, registryVars
    <2>2. \A k \in 1..Len(todo') : todo'[k][1] # "parse"
      <3>1. Len(todo') = Len(MainParams) /\ DOMAIN MainParams = 1..Len(MainParams)
        BY <2>1 DEF ObjectAssumption
      <3> QED
        BY <2>1, <3>1 DEF Construct
    <2> QED
      BY <1>3, <2>1, <2>2
  <1>6. CASE DestroyLast
    <2>1. /\ todo = <<>> /\ Len(todo) = 0 /\ UNCHANGED <<given, environment, stored, live, copied>>
          /\ todo' = <<Destroy(constructed[Len(constructed)])>>
      BY <1>6 DEF DestroyLast, mainVars, registryVars
    <2>2. \A k \in 1..Len(todo') : todo'[k][1] # "parse"
      BY <2>1 DEF Destroy
    <2> QED
      BY <1>3, <2>1, <2>2
  <1>7. CASE Constructed \/ FirstPass \/ Exited \/ Reconnect \/ Write \/ Pace \/ Wake \/ Stop
    <2>1. UNCHANGED <<given, environment, stored, live, copied, todo>>
      BY <1>7 DEF Constructed, FirstPass, Exited, Reconnect, Write, Pace, Wake, Stop, mainVars, configVars, registryVars
    <2> QED
      BY <1>3, <2>1
  <1>8. CASE Close \/ Kill \/ Tick \/ ClockStep \/ Unplug \/ UNCHANGED vars
    <2>1. UNCHANGED <<given, environment, stored, live, copied, todo>>
      BY <1>8 DEF Close, Kill, Tick, ClockStep, Unplug, vars, mainVars, configVars, registryVars
    <2> QED
      BY <1>3, <2>1
  <1> QED
    BY <1>2, <1>4, <1>5, <1>6, <1>7, <1>8 DEF Next, Main

\* Of a parameter everything is kept track of until the end.
LEMMA HeldCorrect == Spec => []HeldInv
  <1>1. Init => HeldInv
    BY HeldInit, ConfigAssumption, ProgramAssumption, ObjectAssumption
  <1>2. StartInv /\ HeldInv /\ [Next]_vars => HeldInv'
    <2>1. ArgumentsInv => GivenInv
      BY GivenLists, ConfigAssumption, ProgramAssumption, ObjectAssumption
    <2> QED
      BY <2>1, HeldNext, ConfigAssumption, ObjectAssumption DEF StartInv
  <1> QED
    BY <1>1, <1>2, StartCorrect, PTL DEF Spec

\* In the loop every parameter has the value that was given last: on the command
\* line, in p1faker.conf, in /etc/p1faker.conf, in the environment, or else its
\* default (param_base::init, set_param, config.cpp; main(), core.cpp:112-119).
THEOREM PrecedenceCorrect == Spec => []Precedence
  <1>1. StartInv /\ HeldInv => Precedence
    <2> SUFFICES ASSUME StartInv, HeldInv, InLoop
                 PROVE  Precedence
      BY DEF Precedence
    <2>1. Len(todo) = 0
      BY DEF StartInv, LifeInv, Timely
    <2>2. GivenInv
      BY GivenLists, ConfigAssumption, ProgramAssumption, ObjectAssumption DEF StartInv
    <2>3. PICK r \in Nat : SaidInv(r)
      BY DEF HeldInv, OptionsInv
    <2>4. r = Len(AllOptions) /\ \A n \in ParamName : Says(AllOptions, r, n, stored[n])
      BY <2>3 DEF SaidInv
    <2>5. AllOptions \in Seq(Option \cup {BadArgument})
      BY <2>2, Zenon DEF GivenInv
    <2>6. ASSUME NEW p \in DOMAIN live PROVE live[p] \in Rightful(p, AllOptions)
      BY <2>1, <2>4, <2>5, HeldSaid, ConfigAssumption DEF StartInv, HeldInv
    <2>7. \A p \in DOMAIN copied : copied[p] \in Rightful(p, FileOptions)
      BY DEF HeldInv, CopiedInv
    <2> QED
      BY <2>6, <2>7 DEF Precedence, AllOptions, FileOptions
  <1> QED
    BY <1>1, StartCorrect, HeldCorrect, PTL

=============================================================================
