--------------------------- MODULE SettingsProofs ---------------------------
(***************************************************************************)
(* Proofs about Settings and Addr, for any command line, any modulus and   *)
(* any texts that inet_pton() reads: the loop of load_options() gives what *)
(* the line says as a whole.                                               *)
(***************************************************************************)
EXTENDS Settings, FiniteSetTheorems, WellFoundedInduction, TLAPS

(* What is a greatest element of a set of integers is its Max.             *)
LEMMA MaxIsOne ==
  ASSUME NEW S \in SUBSET Int, NEW x \in S, \A y \in S : x >= y
  PROVE  Max(S) = x
<1>1. \A z \in S : (\A y \in S : z >= y) => z = x
  BY SMT
<1> DEFINE U == {z \in S : \A y \in S : z >= y}
<1>2. Max(S) \in S /\ \A y \in S : Max(S) >= y
  BY Zenon DEF Max
<1> QED
  BY Zenon, <1>1, <1>2

(* A set of places in a line that is not empty has a last one: Max chooses *)
(* an element. (The least of the distances to the end.)                    *)
LEMMA MaxAmong ==
  ASSUME NEW n \in Nat, NEW S \in SUBSET (1 .. n), S # {}
  PROVE  Max(S) \in S /\ \A y \in S : Max(S) >= y
<1> DEFINE T == {n - x : x \in S}
<1>1. T \subseteq Nat
  <2> SUFFICES ASSUME NEW x \in S PROVE n - x \in Nat
    OBVIOUS
  <2>1. x \in 1 .. n
    OBVIOUS
  <2> QED
    BY <2>1
<1>0. T # {}
  <2>1. PICK x : x \in S
    OBVIOUS
  <2>2. n - x \in T
    BY <2>1
  <2> QED
    BY <2>2
<1>2. PICK t \in T : \A u \in T : ~(<<u, t>> \in OpToRel(<, Nat))
  <2> HIDE DEF T
  <2> QED
  BY Zenon, <1>0, <1>1, NatLessThanWellFounded, WFMin
<1>3. ASSUME NEW u \in T PROVE  u >= t
  <2>1. u \in Nat /\ t \in Nat
    BY <1>1
  <2>2. ~(u < t)
    BY Zenon, <2>1, <1>2 DEF OpToRel
  <2> QED
  BY <2>1, <2>2
<1>4. PICK x \in S : t = n - x
  BY Zenon, <1>2
<1>5. ASSUME NEW y \in S PROVE x >= y
  <2>1. n - y \in T
    OBVIOUS
  <2>2. n - y >= t
    BY <1>3, <2>1
  <2>3. y \in Int /\ x \in Int
    OBVIOUS
  <2> QED
  BY <1>4, <2>2, <2>3
<1>6. S \in SUBSET Int
  OBVIOUS
<1> QED
  BY <1>5, <1>6, MaxIsOne

(* A place after all others is the last one.                               *)
LEMMA MaxMore ==
  ASSUME NEW n \in Nat, NEW S \in SUBSET (1 .. n)
  PROVE  Max(S \cup {n + 1}) = n + 1
<1>1. S \cup {n + 1} \in SUBSET Int
  OBVIOUS
<1>2. \A y \in S \cup {n + 1} : n + 1 >= y
  OBVIOUS
<1> QED
  BY <1>1, <1>2, MaxIsOne

(* The line m is the line l with the argument a after it.                  *)
OneMore(l, a, m) ==
  /\ Len(l) \in Nat /\ DOMAIN l = 1 .. Len(l) /\ DOMAIN m = 1 .. Len(l) + 1
  /\ \A i \in 1 .. Len(l) : m[i] = l[i]
  /\ m[Len(l) + 1] = a

(* The last of some places, when the line has one more argument: the new   *)
(* one if it is among them, the old last one if not.                       *)
LEMMA LastPlace ==
  ASSUME NEW l, NEW a, NEW m, OneMore(l, a, m), NEW P \in SUBSET (DOMAIN l), NEW Q
  PROVE  /\ Q = P \cup {Len(l) + 1} => Q # {} /\ m[Max(Q)] = a
         /\ Q = P /\ Q # {} => m[Max(Q)] = l[Max(P)]
<1>1. Len(l) \in Nat /\ P \in SUBSET (1 .. Len(l))
  BY DEF OneMore
<1>2. Q = P \cup {Len(l) + 1} => m[Max(Q)] = a
  BY Zenon, <1>1, MaxMore DEF OneMore
<1>3. Q = P /\ Q # {} => m[Max(Q)] = l[Max(P)]
  BY Zenon, <1>1, MaxAmong DEF OneMore
<1> QED
  BY <1>2, <1>3

(* load_options() takes of every numeric option the last argument that     *)
(* converts.                                                               *)
LEMMA LastNumMore ==
  ASSUME NEW l, NEW a, NEW m, OneMore(l, a, m), NEW names, NEW mod, NEW dflt
  PROVE  LastNum(m, names, mod, dflt) =
           IF a.name \in names /\ IsNum(a.arg) THEN a.arg[2] % mod
           ELSE LastNum(l, names, mod, dflt)
<1> DEFINE P == Places(l, names, IsNum)
           Q == Places(m, names, IsNum)
<1>1. /\ P \in SUBSET (DOMAIN l)
      /\ Q = IF a.name \in names /\ IsNum(a.arg) THEN P \cup {Len(l) + 1} ELSE P
  BY DEF OneMore, Places
<1>2. /\ LastNum(l, names, mod, dflt) = IF P = {} THEN dflt ELSE l[Max(P)].arg[2] % mod
      /\ LastNum(m, names, mod, dflt) = IF Q = {} THEN dflt ELSE m[Max(Q)].arg[2] % mod
  BY DEF LastNum, LastOf
<1> HIDE DEF P, Q
<1>3. /\ Q = P \cup {Len(l) + 1} => Q # {} /\ m[Max(Q)] = a
      /\ Q = P /\ Q # {} => m[Max(Q)] = l[Max(P)]
  BY <1>1, LastPlace
<1> QED
  BY <1>1, <1>2, <1>3

(* Any argument will do.                                                   *)
AsItIs(arg) == TRUE

(* It takes of every option with a text the last one.                      *)
LEMMA TextMore ==
  ASSUME NEW l, NEW a, NEW m, OneMore(l, a, m), NEW name \in TextNames
  PROVE  SettingsOf(m).text[name] =
           IF a.name = name THEN a.arg[2] ELSE SettingsOf(l).text[name]
<1> DEFINE P == Places(l, {name}, AsItIs)
           Q == Places(m, {name}, AsItIs)
           dflt == NewSettings.text[name]
<1>1. /\ SettingsOf(l).text[name] = IF P = {} THEN dflt ELSE l[Max(P)].arg[2]
      /\ SettingsOf(m).text[name] = IF Q = {} THEN dflt ELSE m[Max(Q)].arg[2]
  BY DEF SettingsOf, LastOf, AsItIs
<1>2. P \in SUBSET (DOMAIN l) /\ Q = IF a.name = name THEN P \cup {Len(l) + 1} ELSE P
  BY DEF OneMore, Places, AsItIs
<1> HIDE DEF P, Q, dflt
<1>3. /\ Q = P \cup {Len(l) + 1} => Q # {} /\ m[Max(Q)] = a
      /\ Q = P /\ Q # {} => m[Max(Q)] = l[Max(P)]
  BY SMTT(60), <1>2, LastPlace
<1> QED
  BY <1>1, <1>2, <1>3

(* It takes the last permissions.                                          *)
LEMMA ChmodMore ==
  ASSUME NEW l, NEW a, NEW m, OneMore(l, a, m)
  PROVE  SettingsOf(m).file_chmod =
           IF a.name = "file-chmod" /\ IsNum(a.arg) THEN a.arg[2]
           ELSE SettingsOf(l).file_chmod
<1> DEFINE P == Places(l, {"file-chmod"}, IsNum)
           Q == Places(m, {"file-chmod"}, IsNum)
<1>1. /\ SettingsOf(l).file_chmod = IF P = {} THEN DfltChmod ELSE l[Max(P)].arg[2]
      /\ SettingsOf(m).file_chmod = IF Q = {} THEN DfltChmod ELSE m[Max(Q)].arg[2]
  BY DEF SettingsOf, LastOf
<1>2. /\ P \in SUBSET (DOMAIN l)
      /\ Q = IF a.name = "file-chmod" /\ IsNum(a.arg) THEN P \cup {Len(l) + 1} ELSE P
  BY DEF OneMore, Places
<1> HIDE DEF P, Q
<1>3. /\ Q = P \cup {Len(l) + 1} => Q # {} /\ m[Max(Q)] = a
      /\ Q = P /\ Q # {} => m[Max(Q)] = l[Max(P)]
  BY <1>2, LastPlace
<1> QED
  BY <1>1, <1>2, <1>3

(* One --daemon is enough.                                                 *)
LEMMA DaemonMore ==
  ASSUME NEW l, NEW a, NEW m, OneMore(l, a, m)
  PROVE  SettingsOf(m).is_daemon = (a.name = "daemon" \/ SettingsOf(l).is_daemon)
<1> DEFINE P == Places(l, {"daemon"}, AsItIs)
           Q == Places(m, {"daemon"}, AsItIs)
<1>1. SettingsOf(l).is_daemon = (P # {}) /\ SettingsOf(m).is_daemon = (Q # {})
  BY DEF SettingsOf, AsItIs
<1>2. Q = IF a.name = "daemon" THEN P \cup {Len(l) + 1} ELSE P
  BY DEF OneMore, Places, AsItIs
<1> QED
  BY Zenon, <1>1, <1>2

(* What set_string() makes of the address A when it has found t: the fields *)
(* of B but its size.                                                       *)
Takes4(t) == t.family = "inet" /\ t.addr # <<>> /\ t.addr[1] \in DOMAIN V4Text
Takes6(t) == t.family = "inet6" /\ t.addr \in DOMAIN V6Text
Reads(B, A, t) ==
  /\ B.family = IF t # NoMatch THEN t.family ELSE A.family
  /\ B.port = IF t.port # <<>> THEN t.port[1][2] % PortMod ELSE A.port
  /\ B.in = IF Takes4(t) THEN V4Text[t.addr[1]] ELSE A.in
  /\ B.in6 = IF Takes6(t) THEN V6Text[t.addr] ELSE A.in6

(* What one more argument adds to the address that is listened to, field   *)
(* by field.                                                               *)
LEMMA ListenedMore ==
  ASSUME NEW l, NEW a, NEW m, OneMore(l, a, m)
  PROVE  LET L == Listened(l)
             M == Listened(m)
         IN  /\ a.name \in ListenNames => Reads(M, L, Match(a.arg))
             /\ a.name \notin ListenNames =>
                  M.family = L.family /\ M.port = L.port /\ M.in = L.in /\ M.in6 = L.in6
<1> DEFINE L == Listened(l)
           M == Listened(m)
           t == Match(a.arg)
           With(s, Good(_)) == Places(s, ListenNames, Good)
           IsText(x) == Match(x) # NoMatch
           HasPort(x) == Match(x).port # <<>>
           Is4(x) == Takes4(Match(x))
           IsV6(x) == Takes6(Match(x))
<1>1. M.family = IF a.name \in ListenNames /\ IsText(a.arg)
              THEN Match(a.arg).family ELSE L.family
  <2> DEFINE P == With(l, IsText)
             Q == With(m, IsText)
  <2>1. /\ P \in SUBSET (DOMAIN l)
        /\ Q = IF a.name \in ListenNames /\ IsText(a.arg) THEN P \cup {Len(l) + 1} ELSE P
    BY DEF OneMore, Places
  <2>2. /\ L.family = IF P = {} THEN "inet" ELSE Match(l[Max(P)].arg).family
        /\ M.family = IF Q = {} THEN "inet" ELSE Match(m[Max(Q)].arg).family
    BY DEF Listened, LastOf
  <2> HIDE DEF P, Q, L, M
  <2>3. /\ Q = P \cup {Len(l) + 1} => Q # {} /\ m[Max(Q)] = a
        /\ Q = P /\ Q # {} => m[Max(Q)] = l[Max(P)]
    BY <2>1, LastPlace
  <2> QED
    BY <2>1, <2>2, <2>3
<1>2. M.port = IF a.name \in ListenNames /\ HasPort(a.arg)
              THEN Match(a.arg).port[1][2] % PortMod ELSE L.port
  <2> DEFINE P == With(l, HasPort)
             Q == With(m, HasPort)
  <2>1. /\ P \in SUBSET (DOMAIN l)
        /\ Q = IF a.name \in ListenNames /\ HasPort(a.arg) THEN P \cup {Len(l) + 1} ELSE P
    BY SMTT(30) DEF OneMore, Places
  <2>2. /\ L.port = IF P = {} THEN DfltPort ELSE Match(l[Max(P)].arg).port[1][2] % PortMod
        /\ M.port = IF Q = {} THEN DfltPort ELSE Match(m[Max(Q)].arg).port[1][2] % PortMod
    BY DEF Listened, LastOf
  <2> HIDE DEF P, Q, L, M
  <2>3. /\ Q = P \cup {Len(l) + 1} => Q # {} /\ m[Max(Q)] = a
        /\ Q = P /\ Q # {} => m[Max(Q)] = l[Max(P)]
    BY SMTT(30), <2>1, LastPlace
  <2> QED
    BY Zenon, <2>1, <2>2, <2>3
<1>3. M.in = IF a.name \in ListenNames /\ Is4(a.arg)
              THEN V4Text[Match(a.arg).addr[1]] ELSE L.in
  <2> DEFINE P == With(l, Is4)
             Q == With(m, Is4)
  <2>1. /\ P \in SUBSET (DOMAIN l)
        /\ Q = IF a.name \in ListenNames /\ Is4(a.arg) THEN P \cup {Len(l) + 1} ELSE P
    BY SMTT(30) DEF OneMore, Places
  <2>2. /\ L.in = IF P = {} THEN AnyAddr ELSE V4Text[Match(l[Max(P)].arg).addr[1]]
        /\ M.in = IF Q = {} THEN AnyAddr ELSE V4Text[Match(m[Max(Q)].arg).addr[1]]
    BY Zenon DEF Listened, LastOf, Takes4
  <2> HIDE DEF P, Q, L, M
  <2>3. /\ Q = P \cup {Len(l) + 1} => Q # {} /\ m[Max(Q)] = a
        /\ Q = P /\ Q # {} => m[Max(Q)] = l[Max(P)]
    BY SMTT(30), <2>1, LastPlace
  <2> QED
    BY <2>1, <2>2, <2>3
<1>4. M.in6 = IF a.name \in ListenNames /\ IsV6(a.arg)
              THEN V6Text[Match(a.arg).addr] ELSE L.in6
  <2> DEFINE P == With(l, IsV6)
             Q == With(m, IsV6)
  <2>1. /\ P \in SUBSET (DOMAIN l)
        /\ Q = IF a.name \in ListenNames /\ IsV6(a.arg) THEN P \cup {Len(l) + 1} ELSE P
    BY DEF OneMore, Places
  <2>2. /\ L.in6 = IF P = {} THEN AnyAddr ELSE V6Text[Match(l[Max(P)].arg).addr]
        /\ M.in6 = IF Q = {} THEN AnyAddr ELSE V6Text[Match(m[Max(Q)].arg).addr]
    BY DEF Listened, LastOf, Takes6
  <2> HIDE DEF P, Q, L, M
  <2>3. /\ Q = P \cup {Len(l) + 1} => Q # {} /\ m[Max(Q)] = a
        /\ Q = P /\ Q # {} => m[Max(Q)] = l[Max(P)]
    BY <2>1, LastPlace
  <2> QED
    BY <2>1, <2>2, <2>3
<1> HIDE DEF L, M
<1>5. a.name \in ListenNames => Reads(M, L, t)
  BY <1>1, <1>2, <1>3, <1>4 DEF Reads
<1>6. a.name \notin ListenNames =>
        M.family = L.family /\ M.port = L.port /\ M.in = L.in /\ M.in6 = L.in6
  BY <1>1, <1>2, <1>3, <1>4
<1> QED
  BY <1>5, <1>6 DEF L, M

(* How many of the places are not after i, and whether every number up to  *)
(* theirs belongs to one of them.                                          *)
Rank(S, i) == Cardinality({j \in S : j <= i})
Ranked(S) == \A k \in 1 .. Cardinality(S) : Nth(S, k) \in S

(* The places of a line are finitely many, and the rank of one of them is  *)
(* at most their number.                                                   *)
LEMMA Small ==
  ASSUME NEW n \in Nat, NEW S \in SUBSET (1 .. n)
  PROVE  /\ IsFiniteSet(S) /\ Cardinality(S) \in Nat
         /\ Cardinality(S \cup {n + 1}) = Cardinality(S) + 1
         /\ \A i \in S : Rank(S, i) \in Nat /\ Rank(S, i) <= Cardinality(S)
<1>1. IsFiniteSet(1 .. n)
  BY FS_Interval
<1>2. IsFiniteSet(S) /\ Cardinality(S) \in Nat
  BY Zenon, <1>1, FS_Subset, FS_CardinalityType
<1>3. n + 1 \notin S
  OBVIOUS
<1>4. Cardinality(S \cup {n + 1}) = Cardinality(S) + 1
  BY SMTT(30), <1>2, <1>3, FS_AddElement
<1>5. ASSUME NEW i \in S PROVE Rank(S, i) \in Nat /\ Rank(S, i) <= Cardinality(S)
  <2> DEFINE R == {j \in S : j <= i}
  <2>1. R \subseteq S
    OBVIOUS
  <2> HIDE DEF R
  <2>2. IsFiniteSet(R) /\ Cardinality(R) <= Cardinality(S) /\ Cardinality(R) \in Nat
    BY Zenon, <1>2, <2>1, FS_Subset, FS_CardinalityType
  <2> QED
    BY <2>2 DEF R, Rank
<1> QED
  BY <1>2, <1>4, <1>5

(* A place after all others is the last in the order and moves none of the *)
(* others.                                                                 *)
LEMMA NthMore ==
  ASSUME NEW n \in Nat, NEW S \in SUBSET (1 .. n), NEW Q, Q = S \cup {n + 1}
  PROVE  /\ \A k \in 1 .. Cardinality(S) : Nth(Q, k) = Nth(S, k)
         /\ Nth(Q, Cardinality(S) + 1) = n + 1
<1> DEFINE At(X, k) == {i \in X : Rank(X, i) = k}
<1>1. \A X, k : Nth(X, k) = CHOOSE i \in At(X, k) : TRUE
  BY Zenon DEF Nth, Rank
<1>2. ASSUME NEW i \in S PROVE Rank(Q, i) = Rank(S, i)
  <2>1. {j \in Q : j <= i} = {j \in S : j <= i}
    OBVIOUS
  <2> QED
    BY <2>1 DEF Rank
<1>3. Rank(Q, n + 1) = Cardinality(S) + 1
  <2>1. \A j \in Q : j <= n + 1
    OBVIOUS
  <2>2. {j \in Q : j <= n + 1} = Q
    BY Zenon, <2>1
  <2> QED
    BY <2>2, Small DEF Rank
<1>0. /\ Cardinality(S) \in Nat
      /\ \A i \in S : Rank(S, i) \in Nat /\ Rank(S, i) <= Cardinality(S)
  BY Small
<1>4. ASSUME NEW k \in 1 .. Cardinality(S) PROVE Nth(Q, k) = Nth(S, k)
  <2>0. k # Cardinality(S) + 1
    BY <1>0
  <2>1. At(Q, k) = At(S, k)
    BY Zenon, <1>2, <1>3, <2>0
  <2> QED
    BY Zenon, <1>1, <2>1
<1>5. At(Q, Cardinality(S) + 1) = {n + 1}
  <2>1. \A i \in S : Rank(Q, i) # Cardinality(S) + 1
    BY <1>0, <1>2
  <2> QED
    BY Zenon, <1>3, <2>1
<1>6. Nth(Q, Cardinality(S) + 1) \in {n + 1}
  BY <1>1, <1>5
<1> QED
  BY <1>4, <1>6

(* The places in a line are numbered without a gap: the k-th of them is    *)
(* one of them. (A least length with a gap would have a smaller one.)      *)
LEMMA AllRanked ==
  ASSUME NEW n \in Nat, NEW S \in SUBSET (1 .. n)
  PROVE  Ranked(S)
<1> DEFINE T == {m \in Nat : \E X \in SUBSET (1 .. m) : ~Ranked(X)}
<1>1. SUFFICES ASSUME T # {} PROVE FALSE
  OBVIOUS
<1>2. PICK m \in T : \A u \in T : ~(<<u, m>> \in OpToRel(<, Nat))
  <2>1. T \subseteq Nat
    OBVIOUS
  <2> HIDE DEF T
  <2> QED
    BY Zenon, <1>1, <2>1, NatLessThanWellFounded, WFMin
<1>3. PICK X \in SUBSET (1 .. m) : m \in Nat /\ ~Ranked(X)
  OBVIOUS
<1>4. m # 0
  <2>1. SUFFICES ASSUME m = 0 PROVE FALSE
    OBVIOUS
  <2>2. X = {}
    BY <1>3, <2>1
  <2> QED
    BY <1>3, <2>2, FS_EmptySet DEF Ranked
<1>5. m - 1 \in Nat /\ m - 1 < m /\ (m - 1) + 1 = m
  BY <1>3, <1>4
<1>6. m - 1 \notin T
  BY Zenon, <1>2, <1>3, <1>5 DEF OpToRel
<1>7. \A Y \in SUBSET (1 .. m - 1) : Ranked(Y)
  BY Zenon, <1>5, <1>6
<1>8. m \in X
  <2>1. SUFFICES ASSUME m \notin X PROVE FALSE
    OBVIOUS
  <2>2. X \in SUBSET (1 .. m - 1)
    BY <1>3, <2>1
  <2> QED
    BY <1>3, <1>7, <2>2
<1> DEFINE Y == X \ {m}
<1>9. Y \in SUBSET (1 .. m - 1) /\ X = Y \cup {(m - 1) + 1}
  BY <1>3, <1>5, <1>8
<1>10. Ranked(Y)
  BY Zenon, <1>7, <1>9
<1> HIDE DEF Y
<1>11. Cardinality(Y) \in Nat /\ Cardinality(X) = Cardinality(Y) + 1
  BY Zenon, <1>5, <1>9, Small
<1>12. /\ \A k \in 1 .. Cardinality(Y) : Nth(X, k) = Nth(Y, k)
       /\ Nth(X, Cardinality(Y) + 1) = m
  <2>1. PICK p \in Nat : p = m - 1
    BY <1>5
  <2>2. Y \in SUBSET (1 .. p) /\ X = Y \cup {p + 1} /\ p + 1 = m
    BY <1>5, <1>9, <2>1
  <2>3. /\ \A k \in 1 .. Cardinality(Y) : Nth(X, k) = Nth(Y, k)
        /\ Nth(X, Cardinality(Y) + 1) = p + 1
    BY <2>2, NthMore
  <2> QED
    BY <2>2, <2>3
<1>13. Ranked(X)
  <2> SUFFICES ASSUME NEW k \in 1 .. Cardinality(X) PROVE Nth(X, k) \in X
    BY DEF Ranked
  <2>1. k \in 1 .. Cardinality(Y) \/ k = Cardinality(Y) + 1
    BY <1>11
  <2> QED
    BY <1>9, <1>10, <1>12, <2>1 DEF Ranked
<1> QED
  BY <1>3, <1>13

(* load_options() appends every search directory to the ones before it.    *)
LEMMA DirsMore ==
  ASSUME NEW l, NEW a, NEW m, OneMore(l, a, m)
  PROVE  SettingsOf(m).backup_dirs =
           IF a.name = "search" THEN Append(SettingsOf(l).backup_dirs, a.arg[2])
           ELSE SettingsOf(l).backup_dirs
<1> DEFINE P == Places(l, {"search"}, AsItIs)
           Q == Places(m, {"search"}, AsItIs)
           V(s) == LET d == Places(s, {"search"}, AsItIs)
                   IN  [k \in 1 .. Cardinality(d) |-> s[Nth(d, k)].arg[2]]
<1>1. \A s : SettingsOf(s).backup_dirs = V(s)
  BY DEF SettingsOf, AsItIs
<1>2. /\ P \in SUBSET (DOMAIN l)
      /\ Q = IF a.name = "search" THEN P \cup {Len(l) + 1} ELSE P
  BY DEF OneMore, Places, AsItIs
<1>3. /\ SettingsOf(l).backup_dirs = [k \in 1 .. Cardinality(P) |-> l[Nth(P, k)].arg[2]]
      /\ SettingsOf(m).backup_dirs = [k \in 1 .. Cardinality(Q) |-> m[Nth(Q, k)].arg[2]]
  BY Zenon, <1>1
<1> HIDE DEF P, Q, V
<1>4. Len(l) \in Nat /\ P \in SUBSET (1 .. Len(l))
  BY <1>2 DEF OneMore
<1>5. Cardinality(P) \in Nat /\ \A k \in 1 .. Cardinality(P) : Nth(P, k) \in 1 .. Len(l)
  BY Zenon, <1>4, Small, AllRanked DEF Ranked
<1>6. \A k \in 1 .. Cardinality(P) : m[Nth(P, k)] = l[Nth(P, k)]
  BY <1>5 DEF OneMore
<1>7. CASE a.name = "search"
  <2>1. Q = P \cup {Len(l) + 1}
    BY <1>2, <1>7
  <2>2. Cardinality(Q) = Cardinality(P) + 1
    BY Zenon, <1>4, <2>1, Small
  <2>3. /\ \A k \in 1 .. Cardinality(P) : Nth(Q, k) = Nth(P, k)
        /\ Nth(Q, Cardinality(P) + 1) = Len(l) + 1
    BY <1>4, <2>1, NthMore
  <2>4. m[Len(l) + 1] = a
    BY DEF OneMore
  <2> DEFINE d == SettingsOf(l).backup_dirs
             e == SettingsOf(m).backup_dirs
             S == {a.arg[2]} \cup {l[Nth(P, k)].arg[2] : k \in 1 .. Cardinality(P)}
  <2>5. d \in Seq(S) /\ Len(d) = Cardinality(P)
        /\ \A k \in 1 .. Cardinality(P) : d[k] = l[Nth(P, k)].arg[2]
    BY SMTT(30), <1>3, <1>5
  <2>6. e = [k \in 1 .. Cardinality(P) + 1 |->
               IF k = Cardinality(P) + 1 THEN a.arg[2] ELSE d[k]]
    BY SMTT(30), <1>3, <1>5, <1>6, <2>2, <2>3, <2>4, <2>5
  <2> HIDE DEF d, e, S
  <2>7. e = Append(d, a.arg[2])
    BY <1>5, <2>5, <2>6
  <2> QED
    BY <1>7, <2>7 DEF d, e
<1>8. CASE a.name # "search"
  BY <1>2, <1>3, <1>6, <1>8
<1> QED
  BY <1>7, <1>8

(* The records of Addr and Settings.                                       *)
AddrFields == {"family", "port", "in", "in6", "data_size"}
IsFields(A) == A = [f \in AddrFields |-> A[f]]
IsAddr(A) == IsFields(A) /\ A.data_size = SockSize(A.family)

(* What the regular expressions of set_string() find is nothing, IPv4 with *)
(* one quad or none, or IPv6.                                              *)
LEMMA MatchForms ==
  ASSUME NEW s
  PROVE  \/ Match(s) = NoMatch
         \/ Match(s).family = "inet" /\ (Match(s).addr = <<>> \/ Len(Match(s).addr) = 1)
         \/ Match(s).family = "inet6"
<1>1. \/ re4(s) = NoMatch
      \/ (re4(s).family = "inet" /\ (re4(s).addr = <<>> \/ Len(re4(s).addr) = 1))
  BY DEF re4
<1>2. re6(s) = NoMatch \/ re6(s).family = "inet6"
  BY DEF re6
<1> QED
  BY <1>1, <1>2 DEF Match

(* Addresses with equal fields are equal.                                  *)
LEMMA RecordEq ==
  ASSUME NEW A, NEW B, IsFields(A), IsFields(B), A.family = B.family, A.port = B.port,
         A.in = B.in, A.in6 = B.in6, A.data_size = B.data_size
  PROVE  A = B
BY DEF AddrFields, IsFields

(* Addr::set_string(), field by field.                                     *)
LEMMA SetStringFields ==
  ASSUME NEW A, IsAddr(A), NEW s
  PROVE  IsAddr(set_string(A, s).addr) /\ Reads(set_string(A, s).addr, A, Match(s))
<1> DEFINE t == Match(s)
           F == set_family(A, t.family)
           W == set_port_str(F, t.port)
           B == set_string(A, s).addr
<1> SUFFICES IsAddr(B) /\ Reads(B, A, t)
  OBVIOUS
<1>1. <<>> \notin DOMAIN V6Text
  BY TextAssumption
<1>2. CASE t = NoMatch
  <2>1. B = A
    BY <1>2 DEF set_string
  <2> QED
    BY <1>2, <2>1 DEF NoMatch, Reads, Takes4, Takes6
<1>3. CASE t # NoMatch
  <2>1. /\ IsFields(F) /\ F.family = t.family /\ F.data_size = SockSize(t.family)
        /\ F.port = A.port /\ F.in = A.in /\ F.in6 = A.in6
    BY Zenon DEF set_family, IsAddr, IsFields, AddrFields
  <2>2. /\ IsFields(W) /\ W.family = t.family /\ W.data_size = SockSize(t.family)
        /\ W.port = IF t.port # <<>> THEN t.port[1][2] % PortMod ELSE A.port
        /\ W.in = A.in /\ W.in6 = A.in6
    <3> HIDE DEF F
    <3> QED
      BY <2>1 DEF set_port_str, set_port_u16, IsFields, AddrFields
  <2>3. B = IF t.addr = <<>> THEN W ELSE set_addr_str(W, t.addr)
    BY <1>3 DEF set_string
  <2> HIDE DEF W, F, B
  <2>4. \/ t.family = "inet" /\ (t.addr = <<>> \/ Len(t.addr) = 1)
        \/ t.family = "inet6"
    BY <1>3, MatchForms
  <2> HIDE DEF t
  <2> DEFINE sized == [W EXCEPT !.data_size = SockSize(t.family)]
  <2>5. CASE t.addr = <<>>
    BY <1>1, <1>3, <2>2, <2>3, <2>5 DEF IsAddr, Reads, Takes4, Takes6
  <2>6. CASE t.addr # <<>> /\ t.family = "inet"
    <3>1. Len(t.addr) = 1
      BY <2>4, <2>6
    <3>2. B = IF t.addr[1] \in DOMAIN V4Text THEN [sized EXCEPT !.in = V4Text[t.addr[1]]]
              ELSE sized
      BY Zenon, <2>2, <2>3, <2>6, <3>1 DEF set_addr_str, set_addr_str_ok
    <3> QED
      BY Zenon, <1>3, <2>2, <2>6, <3>2 DEF IsAddr, IsFields, AddrFields, Reads, Takes4, Takes6
  <2>7. CASE t.addr # <<>> /\ t.family = "inet6"
    <3>1. B = IF t.addr \in DOMAIN V6Text THEN [sized EXCEPT !.in6 = V6Text[t.addr]]
              ELSE sized
      BY Zenon, <2>2, <2>3, <2>7 DEF set_addr_str, set_addr_str_ok
    <3> QED
      BY Zenon, <1>3, <2>2, <2>7, <3>1 DEF IsAddr, IsFields, AddrFields, Reads, Takes4, Takes6
  <2> QED
    BY <2>4, <2>5, <2>6, <2>7
<1> QED
  BY <1>2, <1>3

(* set_string() on what a line has said so far gives what the line with    *)
(* one more argument says.                                                 *)
LEMMA ListenedStep ==
  ASSUME NEW l, NEW a, NEW m, OneMore(l, a, m)
  PROVE  Listened(m) = IF a.name \in ListenNames THEN set_string(Listened(l), a.arg).addr
                       ELSE Listened(l)
<1> DEFINE L == Listened(l)
           M == Listened(m)
           B == set_string(L, a.arg).addr
<1>1. IsAddr(L) /\ IsAddr(M)
  BY Zenon DEF Listened, IsAddr, IsFields, AddrFields
<1>2. /\ a.name \in ListenNames => Reads(M, L, Match(a.arg))
      /\ a.name \notin ListenNames =>
           M.family = L.family /\ M.port = L.port /\ M.in = L.in /\ M.in6 = L.in6
  BY Zenon, ListenedMore
<1> HIDE DEF L, M
<1>3. IsAddr(B) /\ Reads(B, L, Match(a.arg))
  BY <1>1, SetStringFields
<1> HIDE DEF B
<1>4. CASE a.name \in ListenNames
  <2>1. M.family = B.family /\ M.port = B.port /\ M.in = B.in /\ M.in6 = B.in6
    BY <1>2, <1>3, <1>4 DEF Reads
  <2>2. B = M
    BY <1>1, <1>3, <2>1, RecordEq DEF IsAddr
  <2> QED
    BY Zenon, <1>4, <2>2 DEF L, M, B
<1>5. CASE a.name \notin ListenNames
  <2>1. L = M
    BY <1>1, <1>2, <1>5, RecordEq DEF IsAddr
  <2> QED
    BY <1>5, <2>1 DEF L, M
<1> QED
  BY <1>4, <1>5

(* The fields of Settings.                                                 *)
SettFields == {"is_daemon", "local_base", "text", "backup_dirs", "dialect",
               "use_syslog", "retransmit_count", "file_chmod"}
IsSett(s) == s = [f \in SettFields |-> s[f]] /\ s.text = [n \in TextNames |-> s.text[n]]

(* Settings with equal fields are equal.                                   *)
LEMMA SettEq ==
  ASSUME NEW s, NEW u, IsSett(s), IsSett(u),
         s.is_daemon = u.is_daemon, s.local_base = u.local_base,
         \A n \in TextNames : s.text[n] = u.text[n],
         s.backup_dirs = u.backup_dirs, s.dialect = u.dialect, s.use_syslog = u.use_syslog,
         s.retransmit_count = u.retransmit_count, s.file_chmod = u.file_chmod
  PROVE  s = u
<1>1. s.text = u.text
  BY DEF IsSett
<1>2. \A f \in SettFields : s[f] = u[f]
  BY <1>1 DEF SettFields
<1> QED
  BY <1>2 DEF IsSett

(* What a turn of the loop of load_options() makes of the settings s.       *)
Loads(u, s, a) ==
  /\ u.is_daemon = IF a.name = "daemon" THEN TRUE ELSE s.is_daemon
  /\ u.local_base = IF a.name \in ListenNames THEN set_string(s.local_base, a.arg).addr
                    ELSE s.local_base
  /\ \A n \in TextNames : u.text[n] = IF a.name = n THEN a.arg[2] ELSE s.text[n]
  /\ u.backup_dirs = IF a.name = "search" THEN Append(s.backup_dirs, a.arg[2])
                     ELSE s.backup_dirs
  /\ u.dialect = IF a.name = "fb-dialect" /\ IsNum(a.arg) THEN a.arg[2] % U16
                 ELSE s.dialect
  /\ u.use_syslog = IF a.name \in SyslogNames /\ IsNum(a.arg) THEN a.arg[2] % 8
                    ELSE s.use_syslog
  /\ u.retransmit_count = IF a.name = "retransmit" /\ IsNum(a.arg) THEN a.arg[2] % U16
                          ELSE s.retransmit_count
  /\ u.file_chmod = IF a.name = "file-chmod" /\ IsNum(a.arg) THEN a.arg[2]
                    ELSE s.file_chmod

(* load_option() is that turn, field by field.                             *)
LEMMA LoadOptionFields ==
  ASSUME NEW s, IsSett(s), NEW a, ~load_option_throws(a)
  PROVE  IsSett(load_option(s, a)) /\ Loads(load_option(s, a), s, a)
<1> DEFINE u == load_option(s, a)
           Single == {"search", "fb-dialect", "daemon", "retransmit", "file-chmod"}
<1> SUFFICES IsSett(u) /\ Loads(u, s, a)
  OBVIOUS
<1>1. CASE a.name \in ListenNames
  <2>1. a.name \notin SyslogNames \cup TextNames \cup Single
    BY <1>1 DEF ListenNames, SyslogNames, TextNames
  <2>2. u = [s EXCEPT !.local_base = set_string(@, a.arg).addr]
    BY <1>1, <2>1 DEF load_option
  <2> HIDE DEF u
  <2> QED
    BY Zenon, <1>1, <2>1, <2>2 DEF IsSett, SettFields, Loads
<1>2. CASE a.name \in SyslogNames
  <2>1. a.name \notin ListenNames \cup TextNames \cup Single
    BY <1>2 DEF ListenNames, SyslogNames, TextNames
  <2>2. u = IF IsNum(a.arg) THEN [s EXCEPT !.use_syslog = a.arg[2] % 8] ELSE s
    BY <1>2, <2>1 DEF load_option
  <2> HIDE DEF u
  <2> QED
    BY Zenon, <1>2, <2>1, <2>2 DEF IsSett, SettFields, Loads
<1>3. CASE a.name \in TextNames
  <2>1. a.name \notin ListenNames \cup SyslogNames \cup Single
    BY <1>3 DEF ListenNames, SyslogNames, TextNames
  <2>2. u = [s EXCEPT !.text[a.name] = a.arg[2]]
    BY <1>3, <2>1 DEF load_option
  <2> HIDE DEF u
  <2> QED
    BY Zenon, <1>3, <2>1, <2>2 DEF IsSett, SettFields, Loads
<1>4. CASE a.name = "search"
  <2>1. a.name \notin ListenNames \cup SyslogNames \cup TextNames
    BY <1>4 DEF ListenNames, SyslogNames, TextNames
  <2>2. u = [s EXCEPT !.backup_dirs = Append(@, a.arg[2])]
    BY <1>4, <2>1 DEF load_option
  <2> HIDE DEF u
  <2> QED
    BY Zenon, <1>4, <2>1, <2>2 DEF IsSett, SettFields, Loads
<1>5. CASE a.name = "fb-dialect"
  <2>1. a.name \notin ListenNames \cup SyslogNames \cup TextNames
    BY <1>5 DEF ListenNames, SyslogNames, TextNames
  <2>2. u = IF IsNum(a.arg) THEN [s EXCEPT !.dialect = a.arg[2] % U16] ELSE s
    BY <1>5, <2>1 DEF load_option
  <2> HIDE DEF u
  <2> QED
    BY <1>5, <2>1, <2>2 DEF IsSett, SettFields, Loads
<1>6. CASE a.name = "daemon"
  <2>1. a.name \notin ListenNames \cup SyslogNames \cup TextNames
    BY <1>6 DEF ListenNames, SyslogNames, TextNames
  <2>2. u = [s EXCEPT !.is_daemon = TRUE]
    BY <1>6, <2>1 DEF load_option
  <2> HIDE DEF u
  <2> QED
    BY Zenon, <1>6, <2>1, <2>2 DEF IsSett, SettFields, Loads
<1>7. CASE a.name = "retransmit"
  <2>1. a.name \notin ListenNames \cup SyslogNames \cup TextNames
    BY <1>7 DEF ListenNames, SyslogNames, TextNames
  <2>2. u = IF IsNum(a.arg) THEN [s EXCEPT !.retransmit_count = a.arg[2] % U16]
            ELSE s
    BY <1>7, <2>1 DEF load_option
  <2> HIDE DEF u
  <2> QED
    BY <1>7, <2>1, <2>2 DEF IsSett, SettFields, Loads
<1>8. CASE a.name = "file-chmod"
  <2>1. a.name \notin ListenNames \cup SyslogNames \cup TextNames
    BY <1>8 DEF ListenNames, SyslogNames, TextNames
  <2>2. u = [s EXCEPT !.file_chmod = a.arg[2]]
    BY <1>8, <2>1 DEF load_option
  <2>3. IsNum(a.arg)
    BY <1>8 DEF load_option_throws
  <2> HIDE DEF u
  <2> QED
    BY <1>8, <2>1, <2>2, <2>3 DEF IsSett, SettFields, Loads
<1>9. CASE a.name \notin ListenNames \cup SyslogNames \cup TextNames \cup Single
  <2>1. u = s
    BY <1>9 DEF load_option
  <2> QED
    BY Zenon, <1>9, <2>1 DEF Loads
<1> QED
  BY Zenon, <1>1, <1>2, <1>3, <1>4, <1>5, <1>6, <1>7, <1>8, <1>9

(* A turn of the loop of load_options() takes what a line says to what the *)
(* line with one more argument says.                                       *)
LEMMA SettingsMore ==
  ASSUME NEW l, NEW a, NEW m, OneMore(l, a, m), ~load_option_throws(a)
  PROVE  SettingsOf(m) = load_option(SettingsOf(l), a)
<1> DEFINE L == SettingsOf(l)
           M == SettingsOf(m)
           U == load_option(L, a)
<1>1. IsSett(L) /\ IsSett(M)
  BY Zenon DEF SettingsOf, IsSett, SettFields
<1>2. /\ M.is_daemon = IF a.name = "daemon" THEN TRUE ELSE L.is_daemon
      /\ M.local_base = IF a.name \in ListenNames THEN set_string(L.local_base, a.arg).addr
                        ELSE L.local_base
      /\ L.is_daemon \in BOOLEAN
  <2>1. L.local_base = Listened(l) /\ M.local_base = Listened(m) /\ L.is_daemon \in BOOLEAN
    BY DEF SettingsOf
  <2> QED
    BY Zenon, <2>1, ListenedStep, DaemonMore
<1>3. \A n \in TextNames : M.text[n] = IF a.name = n THEN a.arg[2] ELSE L.text[n]
  BY TextMore
<1>4. /\ M.backup_dirs = IF a.name = "search" THEN Append(L.backup_dirs, a.arg[2])
                         ELSE L.backup_dirs
      /\ M.file_chmod = IF a.name = "file-chmod" /\ IsNum(a.arg) THEN a.arg[2]
                        ELSE L.file_chmod
  BY DirsMore, ChmodMore
<1>5. /\ M.dialect = IF a.name = "fb-dialect" /\ IsNum(a.arg) THEN a.arg[2] % U16
                     ELSE L.dialect
      /\ M.use_syslog = IF a.name \in SyslogNames /\ IsNum(a.arg) THEN a.arg[2] % 8
                        ELSE L.use_syslog
      /\ M.retransmit_count = IF a.name = "retransmit" /\ IsNum(a.arg)
                              THEN a.arg[2] % U16 ELSE L.retransmit_count
  <2>1. \A s : /\ SettingsOf(s).dialect = LastNum(s, {"fb-dialect"}, U16, DfltDialect)
               /\ SettingsOf(s).use_syslog = LastNum(s, SyslogNames, 8, DfltSyslog)
               /\ SettingsOf(s).retransmit_count =
                    LastNum(s, {"retransmit"}, U16, DfltRetransmit)
    BY DEF SettingsOf
  <2>2. \A names, mod, dflt :
          LastNum(m, names, mod, dflt) =
            IF a.name \in names /\ IsNum(a.arg) THEN a.arg[2] % mod
            ELSE LastNum(l, names, mod, dflt)
    BY LastNumMore
  <2>3. PICK D, R : D = {"fb-dialect"} /\ R = {"retransmit"}
    BY Zenon
  <2>4. /\ (a.name \in D) = (a.name = "fb-dialect")
        /\ (a.name \in R) = (a.name = "retransmit")
    BY <2>3
  <2>5. /\ M.dialect = LastNum(m, D, U16, DfltDialect)
        /\ L.dialect = LastNum(l, D, U16, DfltDialect)
        /\ M.retransmit_count = LastNum(m, R, U16, DfltRetransmit)
        /\ L.retransmit_count = LastNum(l, R, U16, DfltRetransmit)
        /\ M.use_syslog = LastNum(m, SyslogNames, 8, DfltSyslog)
        /\ L.use_syslog = LastNum(l, SyslogNames, 8, DfltSyslog)
    BY <2>1, <2>3
  <2> HIDE DEF L, M
  <2>6. M.dialect = IF a.name = "fb-dialect" /\ IsNum(a.arg) THEN a.arg[2] % U16
        ELSE L.dialect
    <3>1. LastNum(m, D, U16, DfltDialect) =
            IF a.name \in D /\ IsNum(a.arg) THEN a.arg[2] % U16
            ELSE LastNum(l, D, U16, DfltDialect)
      BY Zenon, <2>2
    <3> QED
      BY <2>4, <2>5, <3>1
  <2>7. M.use_syslog = IF a.name \in SyslogNames /\ IsNum(a.arg) THEN a.arg[2] % 8
        ELSE L.use_syslog
    <3>1. LastNum(m, SyslogNames, 8, DfltSyslog) =
            IF a.name \in SyslogNames /\ IsNum(a.arg) THEN a.arg[2] % 8
            ELSE LastNum(l, SyslogNames, 8, DfltSyslog)
      BY Zenon, <2>2
    <3> QED
      BY <2>4, <2>5, <3>1
  <2>8. M.retransmit_count = IF a.name = "retransmit" /\ IsNum(a.arg) THEN a.arg[2] % U16
        ELSE L.retransmit_count
    <3>1. LastNum(m, R, U16, DfltRetransmit) =
            IF a.name \in R /\ IsNum(a.arg) THEN a.arg[2] % U16
            ELSE LastNum(l, R, U16, DfltRetransmit)
      BY Zenon, <2>2
    <3> QED
      BY SMTT(30), <2>4, <2>5, <3>1
  <2> QED
    BY <2>6, <2>7, <2>8
<1> HIDE DEF L, M
<1>6. Loads(M, L, a)
  BY <1>2, <1>3, <1>4, <1>5 DEF Loads
<1>7. IsSett(U) /\ Loads(U, L, a)
  BY Zenon, <1>1, LoadOptionFields
<1> HIDE DEF U
<1>8. /\ U.is_daemon = M.is_daemon /\ U.local_base = M.local_base
      /\ \A n \in TextNames : U.text[n] = M.text[n]
      /\ U.backup_dirs = M.backup_dirs /\ U.dialect = M.dialect
      /\ U.use_syslog = M.use_syslog /\ U.retransmit_count = M.retransmit_count
      /\ U.file_chmod = M.file_chmod
  BY <1>6, <1>7 DEF Loads
<1>9. U = M
  BY <1>1, <1>7, <1>8, SettEq
<1> QED
  BY <1>9 DEF L, M, U

(* Settings() is what the empty line says.                                 *)
LEMMA EmptyLine == SettingsOf(<<>>) = load_options_begin(NewSettings)
<1> DEFINE A == set_port_u16(set_family(NewAddr, "inet"), DfltPort)
<1>1. \A names : Places(<<>>, names, IsNum) = {} /\ Places(<<>>, names, AsItIs) = {}
  BY DEF Places
<1>2. A = [family |-> "inet", port |-> DfltPort, in |-> AnyAddr, in6 |-> AnyAddr,
           data_size |-> SockSize("inet")]
  <2> DEFINE R == [family |-> "inet", port |-> DfltPort, in |-> AnyAddr, in6 |-> AnyAddr,
                   data_size |-> SockSize("inet")]
  <2>1. DfltPort % PortMod = DfltPort
    BY TextAssumption
  <2>2. IsFields(A) /\ IsFields(R)
    BY Zenon DEF NewAddr, set_family, set_port_u16, IsFields, AddrFields
  <2>3. /\ A.family = "inet" /\ A.port = DfltPort % PortMod /\ A.in = AnyAddr
        /\ A.in6 = AnyAddr /\ A.data_size = SockSize("inet")
    BY DEF NewAddr, set_family, set_port_u16
  <2>4. /\ R.family = "inet" /\ R.port = DfltPort /\ R.in = AnyAddr
        /\ R.in6 = AnyAddr /\ R.data_size = SockSize("inet")
    OBVIOUS
  <2>5. SUFFICES A = R
    OBVIOUS
  <2> HIDE DEF A, R
  <2> QED
    BY <2>1, <2>2, <2>3, <2>4, RecordEq
<1>3. Listened(<<>>) = A
  <2>1. /\ Listened(<<>>).family = "inet" /\ Listened(<<>>).port = DfltPort
        /\ Listened(<<>>).in = AnyAddr /\ Listened(<<>>).in6 = AnyAddr
        /\ Listened(<<>>).data_size = SockSize("inet")
    <3>1. DOMAIN <<>> = {}
      OBVIOUS
    <3> QED
      BY Zenon, <3>1 DEF Listened, LastOf, Places
  <2>2. IsFields(Listened(<<>>)) /\ IsFields(A)
    BY Zenon, <1>2 DEF Listened, IsFields, AddrFields
  <2> HIDE DEF A
  <2> QED
    BY <1>2, <2>1, <2>2, RecordEq
<1> DEFINE S == SettingsOf(<<>>)
           N == load_options_begin(NewSettings)
<1>4. IsSett(S) /\ IsSett(N)
  BY Zenon DEF SettingsOf, load_options_begin, NewSettings, IsSett, SettFields
<1>5. /\ S.is_daemon = FALSE /\ S.local_base = A
      /\ \A n \in TextNames : S.text[n] = NewSettings.text[n]
      /\ S.dialect = DfltDialect /\ S.use_syslog = DfltSyslog
      /\ S.retransmit_count = DfltRetransmit /\ S.file_chmod = DfltChmod
  BY Zenon, <1>1, <1>3 DEF SettingsOf, LastNum, LastOf, AsItIs
<1>6. S.backup_dirs = <<>>
  BY <1>1, FS_EmptySet DEF SettingsOf, AsItIs
<1>7. /\ N.is_daemon = FALSE /\ N.local_base = A
      /\ \A n \in TextNames : N.text[n] = NewSettings.text[n]
      /\ N.dialect = DfltDialect /\ N.use_syslog = DfltSyslog
      /\ N.retransmit_count = DfltRetransmit /\ N.file_chmod = DfltChmod
      /\ N.backup_dirs = <<>>
  BY DEF NewSettings, load_options_begin
<1> HIDE DEF A, S, N
<1> QED
  BY Zenon, <1>4, <1>5, <1>6, <1>7, SettEq DEF S, N

-----------------------------------------------------------------------------
(* The values that fit the fields of an address and of the settings, and   *)
(* the arguments that are texts and numbers.                               *)
AddrOK(A) ==
  /\ IsAddr(A)
  /\ A.family \in {"inet", "inet6"} /\ A.port \in 0 .. PortMod - 1
  /\ A.in \in Range(V4Text) /\ A.in6 \in Range(V6Text)

SettOK(s) ==
  /\ IsSett(s) /\ AddrOK(s.local_base)
  /\ s.retransmit_count \in 0 .. U16 - 1 /\ s.dialect \in 0 .. U16 - 1
  /\ s.use_syslog \in 0 .. 7

IsText(t) ==
  t \in Seq(Range(t)) /\ \A k \in DOMAIN t : IsDec(t[k]) => t[k][2] \in PortNumbers

ArgOK(a) ==
  /\ a.name \in SyslogNames \cup {"fb-dialect", "retransmit"} /\ IsNum(a.arg)
       => a.arg[2] \in Int
  /\ a.name \in ListenNames => IsText(a.arg)

(* What set_string() takes for a port is a number.                         *)
LEMMA PortIsNumber ==
  ASSUME NEW s, IsText(s), Match(s).port # <<>>
  PROVE  Match(s).port[1][2] \in Nat
<1>1. s \in Seq(Range(s)) /\ Len(s) \in Nat /\ DOMAIN s = 1 .. Len(s)
      /\ \A k \in 1 .. Len(s) : IsDec(s[k]) => s[k][2] \in Nat
  <2>1. \A n \in PortNumbers : n \in Nat
    BY DEF PortNumbers
  <2>2. s \in Seq(Range(s)) /\ Len(s) \in Nat /\ DOMAIN s = 1 .. Len(s)
    BY DEF IsText
  <2> QED
    BY Zenon, <2>1, <2>2 DEF IsText
<1>2. re4(s) # NoMatch /\ re4(s).port # <<>> => re4(s).port[1][2] \in Nat
  BY SMTT(30), <1>1 DEF re4, NoMatch
<1>3. re6(s).port # <<>> => re6(s).port[1][2] \in Nat
  BY <1>1 DEF re6, NoMatch
<1> QED
  BY <1>2, <1>3 DEF Match

(* set_string() leaves an address that fits, whatever the text.            *)
LEMMA SetStringOK ==
  ASSUME NEW A, AddrOK(A), NEW s, IsText(s)
  PROVE  AddrOK(set_string(A, s).addr)
<1> DEFINE B == set_string(A, s).addr
           t == Match(s)
<1>1. IsAddr(B) /\ Reads(B, A, t)
  BY SetStringFields DEF AddrOK
<1>2. t # NoMatch => t.family \in {"inet", "inet6"}
  BY MatchForms
<1>3. t.port # <<>> => t.port[1][2] \in Nat
  BY PortIsNumber
<1> HIDE DEF B, t
<1>4. B.family \in {"inet", "inet6"} /\ B.port \in 0 .. PortMod - 1
  BY <1>1, <1>2, <1>3, TextAssumption DEF Reads, AddrOK
<1>5. B.in \in Range(V4Text) /\ B.in6 \in Range(V6Text)
  BY <1>1 DEF Reads, AddrOK, Takes4, Takes6, Range
<1> QED
  BY <1>1, <1>4, <1>5 DEF AddrOK, B

(* The settings a server starts from fit.                                  *)
LEMMA NewSettingsOK == SettOK(load_options_begin(NewSettings))
<1> DEFINE N == load_options_begin(NewSettings)
           A == N.local_base
<1>1. /\ IsSett(N) /\ A = set_port_u16(set_family(NewAddr, "inet"), DfltPort)
      /\ N.dialect = DfltDialect /\ N.use_syslog = DfltSyslog
      /\ N.retransmit_count = DfltRetransmit
  BY Zenon DEF NewSettings, load_options_begin, IsSett, SettFields
<1>2. A.family = "inet" /\ A.port = DfltPort % PortMod
      /\ A.in = AnyAddr /\ A.in6 = AnyAddr /\ IsAddr(A)
  BY Zenon, <1>1 DEF NewAddr, set_family, set_port_u16, IsAddr, IsFields, AddrFields
<1>3. DfltPort % PortMod \in 0 .. PortMod - 1
  BY TextAssumption
<1>4. AnyAddr \in Range(V4Text) /\ AnyAddr \in Range(V6Text)
  BY TextAssumption DEF Range
<1> HIDE DEF N, A
<1> QED
  BY <1>1, <1>2, <1>3, <1>4, SettingsAssumption DEF SettOK, AddrOK, N, A

(* A turn of the loop of load_options() keeps them fitting.                *)
LEMMA LoadOptionOK ==
  ASSUME NEW s, SettOK(s), NEW a, ArgOK(a), ~load_option_throws(a)
  PROVE  SettOK(load_option(s, a))
<1> DEFINE u == load_option(s, a)
<1>1. IsSett(u) /\ Loads(u, s, a)
  BY LoadOptionFields DEF SettOK
<1> HIDE DEF u
<1>2. AddrOK(u.local_base)
  BY SMTT(30), <1>1, SetStringOK DEF Loads, SettOK, ArgOK
<1>3. /\ u.retransmit_count \in 0 .. U16 - 1 /\ u.dialect \in 0 .. U16 - 1
      /\ u.use_syslog \in 0 .. 7
  BY <1>1, SettingsAssumption DEF Loads, SettOK, ArgOK
<1> QED
  BY <1>1, <1>2, <1>3 DEF SettOK, u

-----------------------------------------------------------------------------
(* The two results of set_string().                                        *)
LEMMA SetStringResults ==
  ASSUME NEW A, IsAddr(A), NEW s
  PROVE  LET r == set_string(A, s)
             t == Match(s)
         IN  /\ t = NoMatch => r.addr = A /\ r.is_set_addr = FALSE /\ r.is_set_port = FALSE
             /\ t # NoMatch => /\ r.is_set_port = (t.port # <<>>)
                               /\ r.is_set_addr = (Takes4(t) \/ Takes6(t))
<1> DEFINE t == Match(s)
           F == set_family(A, t.family)
           W == set_port_str(F, t.port)
           r == set_string(A, s)
<1> SUFFICES /\ t = NoMatch => r.addr = A /\ r.is_set_addr = FALSE /\ r.is_set_port = FALSE
             /\ t # NoMatch => /\ r.is_set_port = (t.port # <<>>)
                               /\ r.is_set_addr = (Takes4(t) \/ Takes6(t))
  BY Zenon, SMTT(30)
<1>1. t = NoMatch => r.addr = A /\ r.is_set_addr = FALSE /\ r.is_set_port = FALSE
  BY DEF set_string
<1>2. ASSUME t # NoMatch
      PROVE  r.is_set_port = (t.port # <<>>) /\ r.is_set_addr = (Takes4(t) \/ Takes6(t))
  <2>1. /\ r.is_set_port = (t.port # <<>>)
        /\ r.is_set_addr = (t.addr # <<>> /\ set_addr_str_ok(W, t.addr))
    BY Zenon, <1>2 DEF set_string
  <2>2. F.family = t.family /\ IsFields(F)
    BY Zenon DEF set_family, IsAddr, IsFields, AddrFields
  <2>3. W.family = t.family
    <3> HIDE DEF F
    <3> QED
      BY <2>2 DEF set_port_str, set_port_u16, IsFields, AddrFields
  <2>4. \/ t.family = "inet" /\ (t.addr = <<>> \/ Len(t.addr) = 1)
        \/ t.family = "inet6"
    BY <1>2, MatchForms
  <2>5. <<>> \notin DOMAIN V6Text
    BY TextAssumption
  <2> HIDE DEF W, F, t, r
  <2>6. (t.addr # <<>> /\ set_addr_str_ok(W, t.addr)) = (Takes4(t) \/ Takes6(t))
    BY <2>3, <2>4, <2>5 DEF set_addr_str_ok, Takes4, Takes6
  <2> QED
    BY Zenon, <2>1, <2>6
<1> QED
  BY Zenon, <1>1, <1>2

(* What the expressions find in the three formats of IPv4.                 *)
LEMMA Match4 ==
  ASSUME NEW q, IsQuad(q), NEW p
  PROVE  /\ Match(<<q>>) = [family |-> "inet", addr |-> <<q>>, port |-> <<>>]
         /\ Match(<<q, Colon, Dec(p)>>) =
              [family |-> "inet", addr |-> <<q>>, port |-> <<Dec(p)>>]
         /\ Match(<<Colon, Dec(p)>>) =
              [family |-> "inet", addr |-> <<>>, port |-> <<Dec(p)>>]
<1>0. IsDec(Dec(p)) /\ ~IsQuad(Colon) /\ NoMatch.family = "none"
  BY DEF IsDec, Dec, IsQuad, Colon, NoMatch
<1>1. re4(<<q>>) = [family |-> "inet", addr |-> <<q>>, port |-> <<>>]
  <2>1. Len(<<q>>) = 1 /\ <<q>>[1] = q /\ SubSeq(<<q>>, 3, 1) = <<>>
    OBVIOUS
  <2> QED
    BY <2>1 DEF re4
<1>2. re4(<<q, Colon, Dec(p)>>) = [family |-> "inet", addr |-> <<q>>, port |-> <<Dec(p)>>]
  <2> DEFINE s == <<q, Colon, Dec(p)>>
  <2>1. /\ Len(s) = 3 /\ s[1] = q /\ s[2] = Colon /\ s[3] = Dec(p)
        /\ s \in Seq({q, Colon, Dec(p)})
    OBVIOUS
  <2> HIDE DEF s
  <2>2. SubSeq(s, 3, 3) = <<Dec(p)>>
    <3> DEFINE u == SubSeq(s, 3, 3)
    <3>1. u \in Seq({q, Colon, Dec(p)}) /\ Len(u) = 1 /\ u[1] = Dec(p)
      BY <2>1
    <3> HIDE DEF u
    <3>2. u = <<Dec(p)>>
      BY <3>1
    <3> QED
      BY <3>2 DEF u
  <2>3. re4(s) = [family |-> "inet", addr |-> <<q>>, port |-> <<Dec(p)>>]
    BY <1>0, <2>1, <2>2 DEF re4
  <2> QED
    BY <2>3 DEF s
<1>3. re4(<<Colon, Dec(p)>>) = [family |-> "inet", addr |-> <<>>, port |-> <<Dec(p)>>]
  <2> DEFINE s == <<Colon, Dec(p)>>
  <2>1. Len(s) = 2 /\ s[1] = Colon /\ s[2] = Dec(p)
    OBVIOUS
  <2> HIDE DEF s
  <2>2. re4(s) = [family |-> "inet", addr |-> <<>>, port |-> <<Dec(p)>>]
    BY Zenon, <1>0, <2>1 DEF re4
  <2> QED
    BY <2>2 DEF s
<1> QED
  BY <1>0, <1>1, <1>2, <1>3 DEF Match

(* A text of an IPv6 address: groups and colons, and perhaps a quad, but   *)
(* no bracket.                                                             *)
LEMMA Text6 ==
  ASSUME NEW t \in DOMAIN V6Text
  PROVE  /\ t \in Seq(Range(t)) /\ Len(t) \in Nat /\ Len(t) >= 2 /\ DOMAIN t = 1 .. Len(t)
         /\ \A i \in 1 .. Len(t) : t[i] # Open /\ t[i] # Close
         /\ \A i \in 1 .. Len(t) : IsQuad(t[i]) => i > 1 /\ ~IsHexOrColon(t[i])
         /\ \A i \in 1 .. Len(t) : ~IsQuad(t[i]) => IsHexOrColon(t[i])
         /\ IsDec(t[Len(t)]) => t[Len(t) - 1] = Colon
         /\ ~(Len(t) = 2 /\ t[1] = Colon /\ IsDec(t[2]))
<1>1. /\ t \in Seq(Range(t)) /\ Len(t) >= 2 /\ Len(t) \in Nat /\ DOMAIN t = 1 .. Len(t)
      /\ \A i \in 1 .. Len(t) : IsHexOrColon(t[i]) \/ (IsQuad(t[i]) /\ i > 1)
      /\ \A i \in 2 .. Len(t) : t[i - 1] = Colon \/ t[i] = Colon
      /\ t[1] = Colon => t[2] = Colon
  BY TextAssumption
<1>2. \A l : /\ IsHexOrColon(l) => ~IsQuad(l) /\ l # Open /\ l # Close
             /\ IsQuad(l) => l # Open /\ l # Close /\ ~IsHexOrColon(l)
  BY DEF IsHexOrColon, IsQuad, Colon, Open, Close
<1>3. ~IsDec(Colon)
  BY DEF IsDec, Colon
<1>4. \A i \in 1 .. Len(t) : /\ t[i] # Open /\ t[i] # Close
                             /\ IsQuad(t[i]) => i > 1 /\ ~IsHexOrColon(t[i])
                             /\ ~IsQuad(t[i]) => IsHexOrColon(t[i])
  BY Zenon, <1>1, <1>2
<1>5. IsDec(t[Len(t)]) => t[Len(t) - 1] = Colon
  BY <1>1, <1>3
<1> QED
  BY Zenon, <1>1, <1>3, <1>4, <1>5

(* Where the lexemes of a text in brackets are, with a port after them or  *)
(* not.                                                                    *)
LEMMA Formats6 ==
  ASSUME NEW t \in DOMAIN V6Text, NEW p
  PROVE  LET n == Len(t)
             b == Bracketed(t)
             w == WithPort(t, p)
             S == Range(t) \cup {Open, Close, Colon, Dec(p)}
         IN  /\ b \in Seq(S) /\ Len(b) = n + 2
             /\ b[1] = Open /\ b[n + 2] = Close
             /\ \A i \in 1 .. n : b[i + 1] = t[i]
             /\ w \in Seq(S) /\ Len(w) = n + 4
             /\ w[1] = Open /\ w[n + 2] = Close /\ w[n + 3] = Colon /\ w[n + 4] = Dec(p)
             /\ \A i \in 1 .. n : w[i + 1] = t[i]
             /\ SubSeq(w, 1, n + 2) = b
<1> DEFINE n == Len(t)
           S == Range(t) \cup {Open, Close, Colon, Dec(p)}
           b == Bracketed(t)
           w == WithPort(t, p)
           f == <<Open>> \o t
<1>1. t \in Seq(S) /\ n \in Nat /\ DOMAIN t = 1 .. n
  BY Text6
<1> HIDE DEF S, n
<1>2. Open \in S /\ Close \in S /\ Colon \in S /\ Dec(p) \in S
  BY DEF S
<1>3. f \in Seq(S) /\ Len(f) = n + 1 /\ f[1] = Open /\ \A i \in 1 .. n : f[i + 1] = t[i]
  BY <1>1, <1>2 DEF n
<1>4. b = f \o <<Close>> /\ w = f \o <<Close, Colon, Dec(p)>>
  BY DEF Bracketed, WithPort
<1> HIDE DEF f, b, w
<1>5. /\ b \in Seq(S) /\ Len(b) = n + 2 /\ b[1] = Open /\ b[n + 2] = Close
      /\ \A i \in 1 .. n : b[i + 1] = t[i]
  BY <1>1, <1>2, <1>3, <1>4
<1>6. /\ w \in Seq(S) /\ Len(w) = n + 4
      /\ w[1] = Open /\ w[n + 2] = Close /\ w[n + 3] = Colon /\ w[n + 4] = Dec(p)
      /\ \A i \in 1 .. n : w[i + 1] = t[i]
  BY <1>1, <1>2, <1>3, <1>4
<1>7. \A i \in 1 .. n + 2 : w[i] = b[i]
  <2> SUFFICES ASSUME NEW i \in 1 .. n + 2 PROVE w[i] = b[i]
    OBVIOUS
  <2>1. i = 1 \/ i = n + 2 \/ \E j \in 1 .. n : i = j + 1
    <3>1. i \in 2 .. n + 1 => i - 1 \in 1 .. n /\ i = (i - 1) + 1
      BY <1>1
    <3> QED
      BY <1>1, <3>1
  <2> QED
    BY <1>5, <1>6, <2>1
<1> DEFINE v == SubSeq(w, 1, n + 2)
<1>8. v \in Seq(S) /\ Len(v) = n + 2 /\ \A i \in 1 .. n + 2 : v[i] = w[i]
  BY <1>1, <1>6
<1> HIDE DEF v
<1>9. v = b
  BY <1>1, <1>5, <1>7, <1>8
<1> QED
  BY <1>5, <1>6, <1>9 DEF n, S, b, w, v

(* Without brackets nothing is taken off, with them only they are.         *)
LEMMA Brackets6 ==
  ASSUME NEW t \in DOMAIN V6Text
  PROVE  /\ Unbracketed(t) = t
         /\ Unbracketed(Bracketed(t)) = t
         /\ Unbracketed(SubSeq(t, 1, Len(t) - 2)) = SubSeq(t, 1, Len(t) - 2)
<1> DEFINE n == Len(t)
           b == Bracketed(t)
           f == SubSeq(t, 1, n - 2)
           S == Range(t) \cup {Open, Close, Colon, Dec(0)}
<1>1. /\ t \in Seq(S) /\ n \in Nat /\ n >= 2 /\ DOMAIN t = 1 .. n
      /\ \A i \in 1 .. n : t[i] # Open /\ t[i] # Close
  BY Text6
<1>2. /\ b \in Seq(S) /\ Len(b) = n + 2 /\ b[1] = Open /\ b[n + 2] = Close
      /\ \A i \in 1 .. n : b[i + 1] = t[i]
  BY Zenon, Formats6
<1> HIDE DEF S, b
<1>3. Unbracketed(t) = t
  <2>1. t # <<>> /\ t[1] # Open /\ t[n] # Close
    BY <1>1
  <2>2. Unbracketed(t) = SubSeq(t, 1, n)
    BY Zenon, <2>1 DEF Unbracketed
  <2> QED
    BY <1>1, <2>2
<1>4. Unbracketed(b) = t
  <2> DEFINE u == SubSeq(b, 2, n + 1)
  <2>1. Unbracketed(b) = u
    <3>1. b # <<>> /\ b[1] = Open /\ b[Len(b)] = Close /\ Len(b) - 1 = n + 1
      BY <1>1, <1>2
    <3> QED
      BY Zenon, <3>1 DEF Unbracketed
  <2>2. u \in Seq(S) /\ Len(u) = n /\ \A i \in 1 .. n : u[i] = b[i + 1]
    BY <1>1, <1>2
  <2> HIDE DEF u
  <2>3. u = t
    BY <1>1, <1>2, <2>2
  <2> QED
    BY <2>1, <2>3
<1>5. Unbracketed(f) = f
  <2> DEFINE k == n - 2
  <2>0. k \in Nat
    BY <1>1
  <2>1. f \in Seq(S) /\ Len(f) = k /\ \A i \in 1 .. k : f[i] = t[i]
    BY <1>1
  <2> HIDE DEF f
  <2>2. Len(f) \in Nat
    BY <1>1, <2>1
  <2>3. f # <<>> => 1 \in 1 .. k /\ k \in 1 .. k
    BY <2>0, <2>1
  <2>4. \A i \in 1 .. k : f[i] # Open /\ f[i] # Close
    BY <1>1, <2>1
  <2>5. f # <<>> => f[1] # Open /\ f[Len(f)] # Close
    BY <2>1, <2>3, <2>4
  <2>6. Unbracketed(f) = SubSeq(f, 1, Len(f))
    BY Zenon, <2>2, <2>5 DEF Unbracketed
  <2>7. SubSeq(f, 1, Len(f)) = f
    BY <2>1, <2>2
  <2> QED
    BY <2>6, <2>7
<1> QED
  BY <1>3, <1>4, <1>5 DEF b

(* The expression of IPv6 takes a text exactly when there is no quad in it. *)
LEMMA Is6Text ==
  ASSUME NEW t \in DOMAIN V6Text
  PROVE  /\ Is6(t) <=> ~Mixed(t)
         /\ Is6(Bracketed(t)) <=> ~Mixed(t)
<1>1. (\A i \in DOMAIN t : IsHexOrColon(t[i])) <=> ~Mixed(t)
  BY Zenon, Text6 DEF Mixed
<1> QED
  BY <1>1, Brackets6 DEF Is6

(* What the expressions find in the formats of IPv6: nothing when there is *)
(* a quad; of a bare text that ends with decimal digits, those as a port;  *)
(* else the address and the port of the text.                              *)
LEMMA MatchBare ==
  ASSUME NEW t \in DOMAIN V6Text
  PROVE  /\ Mixed(t) => Match(t) = NoMatch
         /\ ~Mixed(t) /\ IsDec(t[Len(t)]) =>
              Match(t).family = "inet6" /\ Match(t).port = <<t[Len(t)]>>
         /\ ~Mixed(t) /\ ~IsDec(t[Len(t)]) =>
              Match(t) = [family |-> "inet6", addr |-> t, port |-> <<>>]
<1> DEFINE n == Len(t)
           f == SubSeq(t, 1, n - 2)
<1>1. /\ t \in Seq(Range(t)) /\ n \in Nat /\ n >= 2 /\ DOMAIN t = 1 .. n
      /\ \A i \in 1 .. n : IsQuad(t[i]) => i > 1 /\ ~IsHexOrColon(t[i])
      /\ \A i \in 1 .. n : ~IsQuad(t[i]) => IsHexOrColon(t[i])
      /\ IsDec(t[n]) => t[n - 1] = Colon
      /\ ~(n = 2 /\ t[1] = Colon /\ IsDec(t[2]))
  BY Text6
<1>2. re4(t) = NoMatch
  <2>1. ~IsQuad(t[1])
    BY <1>1
  <2> QED
    BY Zenon, <1>1, <2>1 DEF re4
<1>3. Unbracketed(t) = t /\ Unbracketed(f) = f
  BY Brackets6
<1>4. f \in Seq(Range(t)) /\ Len(f) = n - 2 /\ DOMAIN f = 1 .. n - 2
      /\ \A i \in 1 .. n - 2 : f[i] = t[i]
  BY <1>1
<1>5. Is6(f) <=> \A i \in 1 .. n - 2 : IsHexOrColon(t[i])
  BY SMTT(30), <1>3, <1>4 DEF Is6
<1>6. re6(t) = IF t[n - 1] = Colon /\ IsDec(t[n]) /\ Is6(f)
               THEN [family |-> "inet6", addr |-> Unbracketed(f), port |-> <<t[n]>>]
               ELSE IF Is6(t) THEN [family |-> "inet6", addr |-> Unbracketed(t), port |-> <<>>]
               ELSE NoMatch
  BY Zenon, <1>1 DEF re6
<1>7. Match(t) = re6(t)
  BY <1>2 DEF Match
<1> HIDE DEF f
<1>8. CASE Mixed(t)
  <2>1. PICK i \in 1 .. n : IsQuad(t[i])
    BY <1>1, <1>8 DEF Mixed
  <2>2. ~IsQuad(Colon) /\ (IsDec(t[n]) => ~IsQuad(t[n]))
    BY DEF IsQuad, IsDec, Colon
  <2>3. t[n - 1] = Colon /\ IsDec(t[n]) => i \in 1 .. n - 2
    <3> SUFFICES ASSUME t[n - 1] = Colon, IsDec(t[n]) PROVE i \in 1 .. n - 2
      OBVIOUS
    <3>1. i # n /\ i # n - 1
      BY Zenon, <2>1, <2>2
    <3>2. n \in Nat /\ i \in 1 .. n
      BY <1>1
    <3> HIDE DEF n
    <3> QED
      BY <3>1, <3>2
  <2>4. ~(t[n - 1] = Colon /\ IsDec(t[n]) /\ Is6(f))
    BY Zenon, <1>1, <1>5, <2>1, <2>3
  <2> QED
    BY Zenon, <1>6, <1>7, <1>8, <2>4, Is6Text
<1>9. CASE ~Mixed(t)
  <2>1. Is6(t) /\ \A i \in 1 .. n : IsHexOrColon(t[i])
    BY Zenon, <1>1, <1>9, Is6Text DEF Mixed
  <2>2. Is6(f)
    BY SMTT(30), <1>1, <1>5, <2>1
  <2>3. CASE IsDec(t[n])
    BY SMTT(30), <1>1, <1>6, <1>7, <1>9, <2>2, <2>3
  <2>4. CASE ~IsDec(t[n])
    BY <1>3, <1>6, <1>7, <1>9, <2>1, <2>4
  <2> QED
    BY Zenon, <1>9, <2>3, <2>4
<1> QED
  BY Zenon, <1>8, <1>9

(* The same of a text in brackets, without a port and with one.            *)
LEMMA MatchBracketed ==
  ASSUME NEW t \in DOMAIN V6Text, NEW p
  PROVE  /\ Mixed(t) => Match(Bracketed(t)) = NoMatch /\ Match(WithPort(t, p)) = NoMatch
         /\ ~Mixed(t) =>
              /\ Match(Bracketed(t)) = [family |-> "inet6", addr |-> t, port |-> <<>>]
              /\ Match(WithPort(t, p)) =
                   [family |-> "inet6", addr |-> t, port |-> <<Dec(p)>>]
         /\ Mixed(Bracketed(t)) <=> Mixed(t)
         /\ Mixed(WithPort(t, p)) <=> Mixed(t)
<1> DEFINE n == Len(t)
           b == Bracketed(t)
           w == WithPort(t, p)
           S == Range(t) \cup {Open, Close, Colon, Dec(p)}
<1>1. n \in Nat /\ n >= 2 /\ DOMAIN t = 1 .. n
      /\ \A i \in 1 .. n : IsQuad(t[i]) => ~IsHexOrColon(t[i])
  BY Text6
<1>2. /\ b \in Seq(S) /\ Len(b) = n + 2 /\ b[1] = Open /\ b[n + 2] = Close
      /\ \A i \in 1 .. n : b[i + 1] = t[i]
  BY Zenon, Formats6
<1>3. /\ w \in Seq(S) /\ Len(w) = n + 4
      /\ w[1] = Open /\ w[n + 2] = Close /\ w[n + 3] = Colon /\ w[n + 4] = Dec(p)
      /\ \A i \in 1 .. n : w[i + 1] = t[i]
      /\ SubSeq(w, 1, n + 2) = b
  BY Zenon, Formats6
<1>4. Unbracketed(b) = t /\ (Is6(b) <=> ~Mixed(t))
  BY Brackets6, Is6Text
<1>5. /\ ~IsQuad(Open) /\ ~IsQuad(Close) /\ ~IsQuad(Colon) /\ ~IsQuad(Dec(p))
      /\ Open # Colon /\ Close # Colon /\ ~IsDec(Close) /\ IsDec(Dec(p))
      /\ Open # Dec(p) /\ Close # Dec(p)
  BY DEF IsQuad, IsDec, Open, Close, Colon, Dec
<1> HIDE DEF b, w, S
<1>6. re4(b) = NoMatch /\ re4(w) = NoMatch
  BY Zenon, <1>2, <1>3, <1>5 DEF re4
<1>7. re6(b) = IF Is6(b) THEN [family |-> "inet6", addr |-> t, port |-> <<>>] ELSE NoMatch
  <2>1. ~IsDec(b[Len(b)])
    BY <1>2, <1>5
  <2> QED
    BY Zenon, <1>4, <2>1 DEF re6
<1>8. Mixed(b) <=> Mixed(t)
  <2>1. DOMAIN b = 1 .. n + 2
    BY <1>1, <1>2
  <2>2. \A i \in 1 .. n + 2 : i = 1 \/ i = n + 2 \/ \E j \in 1 .. n : i = j + 1
    <3> SUFFICES ASSUME NEW i \in 1 .. n + 2, i # 1, i # n + 2
                 PROVE  \E j \in 1 .. n : i = j + 1
      OBVIOUS
    <3>1. i - 1 \in 1 .. n /\ i = (i - 1) + 1
      BY <1>1
    <3> QED
      BY Zenon, <3>1
  <2>3. \A j \in 1 .. n : j + 1 \in 1 .. n + 2
    BY <1>1
  <2> QED
    <3>1. ASSUME NEW i \in 1 .. n + 2, IsQuad(b[i]) PROVE \E j \in 1 .. n : IsQuad(t[j])
      <4>1. PICK j \in 1 .. n : i = j + 1
        BY Zenon, <1>2, <1>5, <2>2, <3>1
      <4> QED
        BY Zenon, <1>2, <3>1, <4>1
    <3>2. ASSUME NEW j \in 1 .. n, IsQuad(t[j]) PROVE \E i \in 1 .. n + 2 : IsQuad(b[i])
      BY Zenon, <1>2, <2>3, <3>2
    <3> QED
      BY Zenon, <1>1, <2>1, <3>1, <3>2 DEF Mixed
<1>9. Mixed(w) <=> Mixed(t)
  <2>1. DOMAIN w = 1 .. n + 4
    BY <1>1, <1>3
  <2>2. \A i \in 1 .. n + 4 : i \in {1, n + 2, n + 3, n + 4} \/ \E j \in 1 .. n : i = j + 1
    <3> SUFFICES ASSUME NEW i \in 1 .. n + 4, i \notin {1, n + 2, n + 3, n + 4}
                 PROVE  \E j \in 1 .. n : i = j + 1
      OBVIOUS
    <3>1. i - 1 \in 1 .. n /\ i = (i - 1) + 1
      BY <1>1
    <3> QED
      BY Zenon, <3>1
  <2>3. \A j \in 1 .. n : j + 1 \in 1 .. n + 4
    BY <1>1
  <2> QED
    <3>1. ASSUME NEW i \in 1 .. n + 4, IsQuad(w[i]) PROVE \E j \in 1 .. n : IsQuad(t[j])
      <4>1. PICK j \in 1 .. n : i = j + 1
        BY Zenon, <1>3, <1>5, <2>2, <3>1
      <4> QED
        BY Zenon, <1>3, <3>1, <4>1
    <3>2. ASSUME NEW j \in 1 .. n, IsQuad(t[j]) PROVE \E i \in 1 .. n + 4 : IsQuad(w[i])
      BY Zenon, <1>3, <2>3, <3>2
    <3> QED
      BY Zenon, <1>1, <2>1, <3>1, <3>2 DEF Mixed
<1>10. Mixed(t) => ~Is6(w)
  <2> SUFFICES ASSUME Mixed(t) PROVE ~Is6(w)
    OBVIOUS
  <2>1. PICK i \in 1 .. n : IsQuad(t[i])
    BY <1>1 DEF Mixed
  <2> DEFINE u == SubSeq(w, 2, n + 4)
  <2>2. Unbracketed(w) = u
    <3>1. w # <<>> /\ w[1] = Open /\ w[Len(w)] # Close
      BY SMTT(30), <1>1, <1>3, <1>5
    <3> QED
      BY Zenon, <1>3, <3>1 DEF Unbracketed
  <2>3. DOMAIN u = 1 .. n + 3 /\ u[i] = w[i + 1]
    BY <1>1, <1>3
  <2> HIDE DEF u
  <2>4. i \in DOMAIN u /\ u[i] = t[i]
    BY <1>1, <1>3, <2>3
  <2> QED
    BY Zenon, <1>1, <2>1, <2>2, <2>4 DEF Is6
<1>11. re6(w) = IF Is6(b) THEN [family |-> "inet6", addr |-> t, port |-> <<Dec(p)>>]
                ELSE IF Is6(w)
                THEN [family |-> "inet6", addr |-> Unbracketed(w), port |-> <<>>]
                ELSE NoMatch
  <2>1. Len(w) >= 2 /\ Len(w) - 1 = n + 3 /\ Len(w) - 2 = n + 2
    BY <1>1, <1>3
  <2> QED
    BY Zenon, <1>3, <1>4, <1>5, <2>1 DEF re6
<1> QED
  BY ZenonT(40), <1>4, <1>6, <1>7, <1>8, <1>9, <1>10, <1>11 DEF Match, b, w

(* What set_string() makes of the family, the address and the port that    *)
(* the expressions have found: its results and the new address.            *)
Took(r, A, family, addr, port) ==
  LET is4 == family = "inet" /\ addr # <<>> /\ addr[1] \in DOMAIN V4Text
      is6 == family = "inet6" /\ addr \in DOMAIN V6Text
  IN  /\ r.is_set_port = (port # <<>>) /\ r.is_set_addr = (is4 \/ is6)
      /\ r.addr.family = family /\ r.addr.data_size = SockSize(family)
      /\ r.addr.port = IF port # <<>> THEN port[1][2] % PortMod ELSE A.port
      /\ r.addr.in = IF is4 THEN V4Text[addr[1]] ELSE A.in
      /\ r.addr.in6 = IF is6 THEN V6Text[addr] ELSE A.in6

(* set_string() does this.                                                 *)
LEMMA Taken ==
  ASSUME NEW A, IsAddr(A), NEW s, NEW family \in {"inet", "inet6"}, NEW addr, NEW port,
         Match(s) = [family |-> family, addr |-> addr, port |-> port]
  PROVE  Took(set_string(A, s), A, family, addr, port)
<1> DEFINE m == Match(s)
           r == set_string(A, s)
<1>1. m.family = family /\ m.addr = addr /\ m.port = port /\ m # NoMatch
  BY DEF NoMatch
<1>2. r.is_set_port = (m.port # <<>>) /\ r.is_set_addr = (Takes4(m) \/ Takes6(m))
  BY ZenonT(40), <1>1, SetStringResults
<1>3. IsAddr(r.addr) /\ Reads(r.addr, A, m)
  BY SetStringFields
<1> HIDE DEF m, r
<1>4. /\ r.addr.family = family /\ r.addr.data_size = SockSize(family)
      /\ r.addr.port = IF port # <<>> THEN port[1][2] % PortMod ELSE A.port
  BY Zenon, <1>1, <1>3 DEF IsAddr, Reads
<1>5. /\ r.addr.in = IF Takes4(m) THEN V4Text[addr[1]] ELSE A.in
      /\ r.addr.in6 = IF Takes6(m) THEN V6Text[addr] ELSE A.in6
  BY Zenon, <1>1, <1>3 DEF Reads
<1>6. /\ Takes4(m) = (family = "inet" /\ addr # <<>> /\ addr[1] \in DOMAIN V4Text)
      /\ Takes6(m) = (family = "inet6" /\ addr \in DOMAIN V6Text)
  BY Zenon, <1>1 DEF Takes4, Takes6
<1> QED
  BY ZenonT(40), <1>1, <1>2, <1>4, <1>5, <1>6 DEF r, Took

(* Every format of an address that is not left out is understood, whatever *)
(* the address was.                                                        *)
LEMMA FormatsUnderstood ==
  ASSUME NEW A, IsAddr(A), NEW ports, NEW f \in Formats(ports)
  PROVE  Understands(A, f)
<1> DEFINE r == set_string(A, f.text)
<1>1. CASE \E q \in DOMAIN V4Text : f = Format(<<q>>, "inet", {V4Text[q]}, {}, FALSE)
  <2>1. PICK q \in DOMAIN V4Text : f = Format(<<q>>, "inet", {V4Text[q]}, {}, FALSE)
    BY Zenon, <1>1
  <2>2. /\ f.text = <<q>> /\ f.family = "inet" /\ f.addr = {V4Text[q]} /\ f.port = {}
        /\ f.bare = FALSE
    BY <2>1 DEF Format
  <2>3. Match(f.text) = [family |-> "inet", addr |-> <<q>>, port |-> <<>>]
    BY Zenon, <2>2, Match4, TextAssumption
  <2>4. <<q>> # <<>> /\ <<q>>[1] = q
    OBVIOUS
  <2>5. /\ r.is_set_port = FALSE /\ r.is_set_addr = TRUE /\ r.addr.family = "inet"
        /\ r.addr.data_size = SockSize("inet") /\ r.addr.port = A.port
        /\ r.addr.in = V4Text[q] /\ r.addr.in6 = A.in6
    <3>1. Took(r, A, "inet", <<q>>, <<>>)
      BY Zenon, <2>3, Taken
    <3> HIDE DEF r
    <3> QED
      BY Zenon, <2>4, <3>1 DEF Took
  <2> HIDE DEF r
  <2> QED
    BY Zenon, <2>2, <2>5 DEF Understands, InUse, r
<1>2. CASE \E q \in DOMAIN V4Text, p \in ports :
             f = Format(<<q, Colon, Dec(p)>>, "inet", {V4Text[q]}, {p}, FALSE)
  <2>1. PICK q \in DOMAIN V4Text, p \in ports :
          f = Format(<<q, Colon, Dec(p)>>, "inet", {V4Text[q]}, {p}, FALSE)
    BY Zenon, <1>2
  <2>2. /\ f.text = <<q, Colon, Dec(p)>> /\ f.family = "inet" /\ f.addr = {V4Text[q]}
        /\ f.port = {p} /\ f.bare = FALSE
    BY <2>1 DEF Format
  <2>3. Match(f.text) = [family |-> "inet", addr |-> <<q>>, port |-> <<Dec(p)>>]
    BY Zenon, <2>2, Match4, TextAssumption
  <2>4. <<q>> # <<>> /\ <<q>>[1] = q /\ <<Dec(p)>> # <<>> /\ <<Dec(p)>>[1][2] = p
    BY DEF Dec
  <2>5. /\ r.is_set_port = TRUE /\ r.is_set_addr = TRUE /\ r.addr.family = "inet"
        /\ r.addr.data_size = SockSize("inet") /\ r.addr.port = p % PortMod
        /\ r.addr.in = V4Text[q] /\ r.addr.in6 = A.in6
    <3>1. Took(r, A, "inet", <<q>>, <<Dec(p)>>)
      BY Zenon, <2>3, Taken
    <3> HIDE DEF r
    <3> QED
      BY Zenon, <2>4, <3>1 DEF Took
  <2> HIDE DEF r
  <2> QED
    BY Zenon, <2>2, <2>5 DEF Understands, InUse, r
<1>3. CASE \E p \in ports : f = Format(<<Colon, Dec(p)>>, "inet", {}, {p}, FALSE)
  <2>1. PICK p \in ports : f = Format(<<Colon, Dec(p)>>, "inet", {}, {p}, FALSE)
    BY Zenon, <1>3
  <2>2. /\ f.text = <<Colon, Dec(p)>> /\ f.family = "inet" /\ f.addr = {}
        /\ f.port = {p} /\ f.bare = FALSE
    BY <2>1 DEF Format
  <2>3. Match(f.text) = [family |-> "inet", addr |-> <<>>, port |-> <<Dec(p)>>]
    BY Zenon, <2>2, Match4, TextAssumption
  <2>4. <<Dec(p)>> # <<>> /\ <<Dec(p)>>[1][2] = p
    BY DEF Dec
  <2>5. /\ r.is_set_port = TRUE /\ r.is_set_addr = FALSE /\ r.addr.family = "inet"
        /\ r.addr.data_size = SockSize("inet") /\ r.addr.port = p % PortMod
        /\ r.addr.in = A.in /\ r.addr.in6 = A.in6
    <3>1. Took(r, A, "inet", <<>>, <<Dec(p)>>)
      BY Zenon, <2>3, Taken
    <3> HIDE DEF r
    <3> QED
      BY Zenon, <2>4, <3>1 DEF Took
  <2> HIDE DEF r
  <2> QED
    BY Zenon, <2>2, <2>5 DEF Understands, InUse, r
<1>4. CASE \E t \in DOMAIN V6Text : f = Format(t, "inet6", {V6Text[t]}, {}, TRUE)
  <2>1. PICK t \in DOMAIN V6Text : f = Format(t, "inet6", {V6Text[t]}, {}, TRUE)
    BY Zenon, <1>4
  <2>2. /\ f.text = t /\ f.family = "inet6" /\ f.addr = {V6Text[t]} /\ f.port = {}
        /\ f.bare = TRUE
    BY <2>1 DEF Format
  <2>3. CASE Mixed(t)
    BY Zenon, <2>2, <2>3 DEF Understands
  <2>4. CASE IsDec(t[Len(t)])
    BY Zenon, <2>2, <2>4 DEF Understands
  <2>5. CASE ~Mixed(t) /\ ~IsDec(t[Len(t)])
    <3>1. Match(f.text) = [family |-> "inet6", addr |-> t, port |-> <<>>]
      BY <2>2, <2>5, MatchBare
    <3>2. /\ r.is_set_port = FALSE /\ r.is_set_addr = TRUE /\ r.addr.family = "inet6"
          /\ r.addr.data_size = SockSize("inet6") /\ r.addr.port = A.port
          /\ r.addr.in = A.in /\ r.addr.in6 = V6Text[t]
      <4>1. Took(r, A, "inet6", t, <<>>)
        BY Zenon, <3>1, Taken
      <4> HIDE DEF r
      <4> QED
        BY Zenon, <4>1 DEF Took
    <3> HIDE DEF r
    <3> QED
      BY Zenon, <2>2, <2>5, <3>2 DEF Understands, InUse, r
  <2> QED
    BY Zenon, <2>3, <2>4, <2>5
<1>5. CASE \E t \in DOMAIN V6Text : f = Format(Bracketed(t), "inet6", {V6Text[t]}, {}, FALSE)
  <2>1. PICK t \in DOMAIN V6Text : f = Format(Bracketed(t), "inet6", {V6Text[t]}, {}, FALSE)
    BY Zenon, <1>5
  <2>2. /\ f.text = Bracketed(t) /\ f.family = "inet6" /\ f.addr = {V6Text[t]}
        /\ f.port = {} /\ f.bare = FALSE
    BY <2>1 DEF Format
  <2>3. Mixed(f.text) <=> Mixed(t)
    BY Zenon, <2>2, MatchBracketed
  <2>4. CASE Mixed(t)
    BY Zenon, <2>2, <2>3, <2>4 DEF Understands
  <2>5. CASE ~Mixed(t)
    <3>1. Match(f.text) = [family |-> "inet6", addr |-> t, port |-> <<>>]
      BY ZenonT(40), <2>2, <2>5, MatchBracketed
    <3>2. /\ r.is_set_port = FALSE /\ r.is_set_addr = TRUE /\ r.addr.family = "inet6"
          /\ r.addr.data_size = SockSize("inet6") /\ r.addr.port = A.port
          /\ r.addr.in = A.in /\ r.addr.in6 = V6Text[t]
      <4>1. Took(r, A, "inet6", t, <<>>)
        BY Zenon, <3>1, Taken
      <4> HIDE DEF r
      <4> QED
        BY Zenon, <4>1 DEF Took
    <3> HIDE DEF r
    <3> QED
      BY Zenon, <2>2, <2>3, <2>5, <3>2 DEF Understands, InUse, r
  <2> QED
    BY Zenon, <2>4, <2>5
<1>6. CASE \E t \in DOMAIN V6Text, p \in ports :
             f = Format(WithPort(t, p), "inet6", {V6Text[t]}, {p}, FALSE)
  <2>1. PICK t \in DOMAIN V6Text, p \in ports :
          f = Format(WithPort(t, p), "inet6", {V6Text[t]}, {p}, FALSE)
    BY Zenon, <1>6
  <2>2. /\ f.text = WithPort(t, p) /\ f.family = "inet6" /\ f.addr = {V6Text[t]}
        /\ f.port = {p} /\ f.bare = FALSE
    BY <2>1 DEF Format
  <2>3. Mixed(f.text) <=> Mixed(t)
    BY ZenonT(40), <2>2, MatchBracketed
  <2>4. CASE Mixed(t)
    BY Zenon, <2>2, <2>3, <2>4 DEF Understands
  <2>5. CASE ~Mixed(t)
    <3>1. Match(f.text) = [family |-> "inet6", addr |-> t, port |-> <<Dec(p)>>]
      BY Zenon, <2>2, <2>5, MatchBracketed
    <3>2. <<Dec(p)>> # <<>> /\ <<Dec(p)>>[1][2] = p
      BY DEF Dec
    <3>3. /\ r.is_set_port = TRUE /\ r.is_set_addr = TRUE /\ r.addr.family = "inet6"
          /\ r.addr.data_size = SockSize("inet6") /\ r.addr.port = p % PortMod
          /\ r.addr.in = A.in /\ r.addr.in6 = V6Text[t]
      <4>1. Took(r, A, "inet6", t, <<Dec(p)>>)
        BY Zenon, <3>1, Taken
      <4> HIDE DEF r
      <4> QED
        BY Zenon, <3>2, <4>1 DEF Took
    <3> HIDE DEF r
    <3> QED
      BY Zenon, <2>2, <2>3, <2>5, <3>3 DEF Understands, InUse, r
  <2> QED
    BY Zenon, <2>4, <2>5
<1>7. CASE f \in PlainFormats
  BY Zenon, <1>1, <1>4, <1>5, <1>7 DEF PlainFormats
<1>8. CASE \E p \in ports : f \in PortFormats(p)
  BY Zenon, <1>2, <1>3, <1>6, <1>8 DEF PortFormats
<1> QED
  BY Zenon, <1>7, <1>8 DEF Formats

(* What str() writes set_string() reads back, in a fresh Addr too.         *)
LEMMA ReadBack == ASSUME NEW A, AddrOK(A) PROVE RoundTrip(A)
<1> DEFINE r == set_string(NewAddr, str(A))
           p == A.port
<1>1. IsAddr(NewAddr)
  BY DEF NewAddr, IsAddr, IsFields, AddrFields, SockSize
<1>2. p % PortMod = p
  <2>1. PortMod \in Nat \ {0} /\ p \in 0 .. PortMod - 1
    BY TextAssumption DEF AddrOK
  <2> HIDE DEF p
  <2> QED
    BY <2>1
<1>3. <<Dec(p)>> # <<>> /\ <<Dec(p)>>[1][2] = p
  BY DEF Dec
<1>4. A.data_size = SockSize(A.family)
  BY Zenon DEF AddrOK, IsAddr
<1>5. CASE A.family = "inet"
  <2> DEFINE q == inet_ntop4(A.in)
  <2>1. q \in DOMAIN V4Text /\ V4Text[q] = A.in
    BY DEF AddrOK, Range, inet_ntop4
  <2>2. str(A) = <<q, Colon, Dec(p)>>
    BY <1>5 DEF str
  <2> HIDE DEF q, p
  <2>3. Match(str(A)) = [family |-> "inet", addr |-> <<q>>, port |-> <<Dec(p)>>]
    BY Zenon, <2>1, <2>2, Match4, TextAssumption
  <2>4. <<q>> # <<>> /\ <<q>>[1] = q
    OBVIOUS
  <2>5. /\ r.is_set_port = TRUE /\ r.is_set_addr = TRUE /\ r.addr.family = "inet"
        /\ r.addr.data_size = SockSize("inet") /\ r.addr.port = p % PortMod
        /\ r.addr.in = V4Text[q]
    <3>1. Took(r, NewAddr, "inet", <<q>>, <<Dec(p)>>)
      BY ZenonT(40), <2>3, <1>1, Taken
    <3> HIDE DEF r
    <3> QED
      BY Zenon, <1>3, <2>1, <2>4, <3>1 DEF Took
  <2> HIDE DEF r
  <2> QED
    BY Zenon, <1>2, <1>4, <1>5, <2>1, <2>5 DEF RoundTrip, InUse, r, p
<1>6. CASE A.family = "inet6"
  <2> DEFINE t == inet_ntop6(A.in6)
  <2>1. t \in DOMAIN V6Text /\ V6Text[t] = A.in6
    BY DEF AddrOK, Range, inet_ntop6
  <2>2. str(A) = WithPort(t, p)
    BY Zenon, <1>6 DEF str
  <2> SUFFICES ASSUME ~Mixed(t)
               PROVE  /\ r.is_set_addr /\ r.is_set_port
                      /\ r.addr.family = A.family /\ r.addr.port = A.port
                      /\ r.addr.data_size = A.data_size /\ InUse(r.addr) = InUse(A)
    BY <1>6 DEF RoundTrip
  <2> HIDE DEF t, p
  <2>3. Match(str(A)) = [family |-> "inet6", addr |-> t, port |-> <<Dec(p)>>]
    BY Zenon, <2>1, <2>2, MatchBracketed
  <2>4. /\ r.is_set_port = TRUE /\ r.is_set_addr = TRUE /\ r.addr.family = "inet6"
        /\ r.addr.data_size = SockSize("inet6") /\ r.addr.port = p % PortMod
        /\ r.addr.in6 = V6Text[t]
    <3>1. Took(r, NewAddr, "inet6", t, <<Dec(p)>>)
      BY Zenon, <2>3, <1>1, Taken
    <3> HIDE DEF r
    <3> QED
      BY Zenon, <1>3, <2>1, <3>1 DEF Took
  <2> HIDE DEF r
  <2> QED
    BY Zenon, <1>2, <1>4, <1>6, <2>1, <2>4 DEF InUse, p
<1> QED
  BY <1>5, <1>6 DEF AddrOK
=============================================================================
