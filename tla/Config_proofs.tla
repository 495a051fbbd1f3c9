----------------------------- MODULE Config_proofs -----------------------------
(***************************************************************************)
(* What the loop of config_load has found after some lines is what these   *)
(* lines say, for every file, every set of names, passwords and settings   *)
(* and every size of the table of users.                                   *)
(***************************************************************************)
EXTENDS Config, TLAPS, SequenceTheorems, FiniteSetTheorems, WellFoundedInduction

ConfigTypeOK ==
    /\ text \in Seq(Lines) /\ section \in Sections \cup {""}
    /\ users \in Seq(User) /\ settings \in [Keys -> {"default", "given"}]

\* The user a line names.
UserOf(l) == [name |-> l.name, password |-> Md5Hex(l.password), perm |-> ParsePermission(l.perm)]

\* Module Config's Under, UserLines and Admitted for any sequence of lines.
HeaderAbove(q, i, s) ==
    \E h \in 1..i - 1 :
        /\ IsHeader(q[h]) /\ q[h].header = s
        /\ \A j \in h + 1..i - 1 : ~IsHeader(q[j])
UsersIn(q) == {i \in DOMAIN q : IsUser(q[i]) /\ q[i].equals # "later" /\ HeaderAbove(q, i, "users")}
Early(q)   == {i \in UsersIn(q) : Cardinality({j \in UsersIn(q) : j < i}) < MaxUsers}

\* The section in force is that of the next line.
SectionRead == \A s \in Sections : section = s <=> HeaderAbove(text, Len(text) + 1, s)

\* The table is full, or holds every user that was named.
TableRead ==
    IF Cardinality(UsersIn(text)) < MaxUsers THEN Len(users) = Cardinality(UsersIn(text))
                                             ELSE Len(users) = MaxUsers

\* It has the users of the lines that came early enough, in the order of the lines:
\* f says which line each entry is from.
FromLines(q, us, f) ==
    /\ \A i \in DOMAIN us : f[i] \in Early(q) /\ us[i] = UserOf(q[f[i]])
    /\ \A i, j \in DOMAIN us : i < j => f[i] < f[j]
    /\ \A a \in Early(q) : \E i \in DOMAIN us : f[i] = a
UsersRead == \E f \in [DOMAIN users -> Early(text)] : FromLines(text, users, f)

Given(q, k) == \E i \in DOMAIN q : IsSetting(q[i]) /\ q[i].key = k /\ HeaderAbove(q, i, SectionOf(k))
SettingsRead == \A k \in Keys : settings[k] = "given" <=> Given(text, k)

ConfigRead == SectionRead /\ TableRead /\ UsersRead /\ SettingsRead

-----------------------------------------------------------------------------
(* Types *)

\* A line has a name, a password and a permission if it is a user's.
LEMMA LineParts ==
  ASSUME NEW l \in Lines
  PROVE  /\ IsHeader(l) => l.header \in Sections /\ ~IsUser(l) /\ ~IsSetting(l)
         /\ IsUser(l) => /\ l.name \in Names /\ l.password \in Fields
                         /\ l.perm \in {"rw", "rw # note"} /\ l.equals \in {"none", "name", "later"}
BY DEF Lines, IsHeader, IsUser, IsSetting

LEMMA UserTyped ==
  ASSUME NEW l \in Lines, IsUser(l)
  PROVE  UserOf(l) \in User
BY LineParts DEF UserOf, User, ParsePermission

\* Whether a line of a user makes an entry.
Enters(l) == IsUser(l) /\ section = "users" /\ l.equals # "later" /\ Len(users) < MaxUsers

LEMMA ReadLineTyped ==
  ASSUME ConfigTypeOK, NEW l \in Lines, ReadLine(l)
  PROVE  /\ ConfigTypeOK'
         /\ text' = Append(text, l)
         /\ section' = IF IsHeader(l) THEN l.header ELSE section
         /\ users' = IF Enters(l) THEN Append(users, UserOf(l)) ELSE users
<1>1. /\ text' = Append(text, l) /\ text \in Seq(Lines) /\ users \in Seq(User)
      /\ section' = IF IsHeader(l) THEN l.header ELSE section
      /\ users' = IF Enters(l) THEN Append(users, UserOf(l)) ELSE users
  BY DEF ReadLine, ConfigTypeOK, Enters, UserOf
<1>2. text' \in Seq(Lines)
  BY <1>1
<1>3. users' \in Seq(User)
  BY <1>1, UserTyped DEF Enters
<1>4. section' \in Sections \cup {""}
  BY <1>1, LineParts DEF ConfigTypeOK
<1>5. settings' \in [Keys -> {"default", "given"}]
  BY DEF ReadLine, ConfigTypeOK
<1>. QED
  BY <1>1, <1>2, <1>3, <1>4, <1>5 DEF ConfigTypeOK

-----------------------------------------------------------------------------
(* Numbers *)

\* A non-empty set of natural numbers has a smallest element.
LEMMA Smallest ==
  ASSUME NEW S \in SUBSET Nat, S # {}
  PROVE  \E m \in S : \A k \in S : m <= k
<1>1. PICK m \in S : \A k \in S : <<k, m>> \notin OpToRel(<, Nat)
  BY WFMin, NatLessThanWellFounded, Zenon
<1>2. \A k \in S : ~(k < m)
  BY <1>1, Zenon DEF OpToRel
<1>. QED
  BY <1>2

LEMMA MinSmallest ==
  ASSUME NEW S \in SUBSET Nat, S # {}
  PROVE  Min(S) \in S /\ \A k \in S : Min(S) <= k
<1>1. \E m \in S : \A k \in S : m <= k
  BY Smallest
<1>. QED
  BY <1>1, Zenon DEF Min

-----------------------------------------------------------------------------
(* One more line *)

\* What is known of the lines when one more is read.
LEMMA NextLine ==
  ASSUME NEW q \in Seq(Lines), NEW l \in Lines
  PROVE  /\ Append(q, l) \in Seq(Lines)
         /\ Len(q) \in Nat /\ DOMAIN q = 1 .. Len(q) /\ DOMAIN Append(q, l) = 1 .. Len(q) + 1
         /\ Len(Append(q, l)) = Len(q) + 1
         /\ Append(q, l)[Len(q) + 1] = l
         /\ \A i \in 1 .. Len(q) : Append(q, l)[i] = q[i]
OBVIOUS

\* A line stands under the header it stood under.
LEMMA UnderStands ==
  ASSUME NEW q \in Seq(Lines), NEW l \in Lines, NEW i \in 1 .. Len(q) + 1, NEW s
  PROVE  HeaderAbove(Append(q, l), i, s) <=> HeaderAbove(q, i, s)
<1>1. Len(q) \in Nat /\ \A j \in 1 .. i - 1 : Append(q, l)[j] = q[j]
  BY NextLine
<1>2. \A h \in 1 .. i - 1 : \A j \in h + 1 .. i - 1 : j \in 1 .. i - 1
  BY <1>1
<1>. QED
  BY <1>1, <1>2 DEF HeaderAbove

\* A header is that of the next line; after another line the header stays.
LEMMA UnderNext ==
  ASSUME NEW q \in Seq(Lines), NEW l \in Lines, NEW s
  PROVE  HeaderAbove(Append(q, l), Len(q) + 2, s) <=>
            IF IsHeader(l) THEN s = l.header ELSE HeaderAbove(q, Len(q) + 1, s)
<1>. DEFINE n == Len(q)
            r == Append(q, l)
<1>1. n \in Nat /\ r[n + 1] = l /\ \A i \in 1 .. n : r[i] = q[i]
  BY NextLine
<1>. HIDE DEF n, r
<1>2. HeaderAbove(r, n + 2, s) <=>
         \E h \in 1 .. n + 1 :
            /\ IsHeader(r[h]) /\ r[h].header = s
            /\ \A j \in h + 1 .. n + 1 : ~IsHeader(r[j])
  BY <1>1, n + 2 - 1 = n + 1 DEF HeaderAbove
<1>3. HeaderAbove(q, n + 1, s) <=>
         \E h \in 1 .. n :
            /\ IsHeader(q[h]) /\ q[h].header = s
            /\ \A j \in h + 1 .. n : ~IsHeader(q[j])
  BY <1>1, n + 1 - 1 = n DEF HeaderAbove
<1>4. CASE IsHeader(l)
  <2>1. ASSUME s = l.header PROVE HeaderAbove(r, n + 2, s)
    <3>1. n + 1 \in 1 .. n + 1 /\ \A j \in (n + 1) + 1 .. n + 1 : FALSE
      BY <1>1
    <3>. QED
      BY <1>1, <1>2, <1>4, <2>1, <3>1
  <2>2. ASSUME HeaderAbove(r, n + 2, s) PROVE s = l.header
    <3>1. PICK h \in 1 .. n + 1 : /\ IsHeader(r[h]) /\ r[h].header = s
                                 /\ \A j \in h + 1 .. n + 1 : ~IsHeader(r[j])
      BY <1>2, <2>2
    <3>2. h # n + 1 => n + 1 \in h + 1 .. n + 1
      BY <1>1
    <3>. QED
      BY <1>1, <1>4, <3>1, <3>2
  <2>. QED
    BY <1>4, <2>1, <2>2 DEF n, r
<1>5. CASE ~IsHeader(l)
  <2>1. ASSUME HeaderAbove(q, n + 1, s) PROVE HeaderAbove(r, n + 2, s)
    <3>1. PICK h \in 1 .. n : /\ IsHeader(q[h]) /\ q[h].header = s
                             /\ \A j \in h + 1 .. n : ~IsHeader(q[j])
      BY <1>3, <2>1
    <3>2. h \in 1 .. n + 1 /\ r[h] = q[h]
      BY <1>1
    <3>3. \A j \in h + 1 .. n + 1 : ~IsHeader(r[j])
      <4>1. \A j \in h + 1 .. n + 1 : j = n + 1 \/ (j \in h + 1 .. n /\ j \in 1 .. n)
        BY <1>1
      <4>. QED
        BY <1>1, <1>5, <3>1, <4>1
    <3>. QED
      BY <1>2, <3>1, <3>2, <3>3
  <2>2. ASSUME HeaderAbove(r, n + 2, s) PROVE HeaderAbove(q, n + 1, s)
    <3>1. PICK h \in 1 .. n + 1 : /\ IsHeader(r[h]) /\ r[h].header = s
                                 /\ \A j \in h + 1 .. n + 1 : ~IsHeader(r[j])
      BY <1>2, <2>2
    <3>2. h # n + 1
      BY <1>1, <1>5, <3>1
    <3>3. h \in 1 .. n /\ r[h] = q[h]
      BY <1>1, <3>2
    <3>4. \A j \in h + 1 .. n : j \in h + 1 .. n + 1 /\ r[j] = q[j]
      BY <1>1
    <3>. QED
      BY <1>3, <3>1, <3>3, <3>4
  <2>. QED
    BY <1>5, <2>1, <2>2 DEF n, r
<1>. QED
  BY <1>4, <1>5

\* The lines that name a user are finitely many.
LEMMA UsersFinite ==
  ASSUME NEW q \in Seq(Lines)
  PROVE  /\ UsersIn(q) \in SUBSET (1 .. Len(q)) /\ IsFiniteSet(UsersIn(q))
         /\ Cardinality(UsersIn(q)) \in Nat
<1>1. UsersIn(q) \in SUBSET (1 .. Len(q))
  BY DEF UsersIn
<1>2. IsFiniteSet(1 .. Len(q))
  BY FS_Interval
<1>3. IsFiniteSet(UsersIn(q))
  BY <1>1, <1>2, FS_Subset
<1>. QED
  BY <1>1, <1>3, FS_CardinalityType

\* One more line may name one more user, and that one is in time unless there are
\* as many before it as the table has room for.
LEMMA UsersNext ==
  ASSUME NEW q \in Seq(Lines), NEW l \in Lines
  PROVE  LET m   == Len(q) + 1
             new == IsUser(l) /\ l.equals # "later" /\ HeaderAbove(q, m, "users")
         IN  /\ UsersIn(Append(q, l)) = UsersIn(q) \cup (IF new THEN {m} ELSE {})
             /\ Early(Append(q, l)) = Early(q) \cup
                   (IF new /\ Cardinality(UsersIn(q)) < MaxUsers THEN {m} ELSE {})
             /\ Cardinality(UsersIn(Append(q, l))) = Cardinality(UsersIn(q)) + (IF new THEN 1 ELSE 0)
<1>. DEFINE m   == Len(q) + 1
            r   == Append(q, l)
            new == IsUser(l) /\ l.equals # "later" /\ HeaderAbove(q, m, "users")
            U   == UsersIn(q)
            V   == UsersIn(r)
<1>1. /\ Len(q) \in Nat /\ DOMAIN q = 1 .. m - 1 /\ DOMAIN r = 1 .. m
      /\ r[m] = l /\ m \in Nat \ {0} /\ \A i \in 1 .. m - 1 : r[i] = q[i]
  BY NextLine
<1>2. \A i \in 1 .. m : HeaderAbove(r, i, "users") <=> HeaderAbove(q, i, "users")
  BY UnderStands
<1>3. U \in SUBSET (1 .. m - 1) /\ IsFiniteSet(U) /\ Cardinality(U) \in Nat
  BY <1>1, UsersFinite
<1>. HIDE DEF m, r
<1>4. ASSUME NEW i \in 1 .. m - 1 PROVE i \in V <=> i \in U
  BY <1>1, <1>2 DEF UsersIn
<1>5. m \in V <=> new
  BY <1>1, <1>2 DEF UsersIn
<1>6. V \in SUBSET (1 .. m)
  BY <1>1 DEF UsersIn
<1>. HIDE DEF new, U, V
<1>7. V = U \cup (IF new THEN {m} ELSE {})
  <2>1. \A i \in 1 .. m : i = m \/ i \in 1 .. m - 1
    BY <1>1
  <2>2. \A i \in 1 .. m - 1 : i # m
    BY <1>1
  <2>3. ASSUME NEW i \in V PROVE i \in U \cup (IF new THEN {m} ELSE {})
    BY <1>4, <1>5, <1>6, <2>1, <2>3
  <2>4. ASSUME NEW i \in U \cup (IF new THEN {m} ELSE {}) PROVE i \in V
    BY <1>3, <1>4, <1>5, <2>4
  <2>. QED
    BY <2>3, <2>4
<1>8. Cardinality(V) = Cardinality(U) + (IF new THEN 1 ELSE 0)
  <2>1. CASE new
    <3>1. m \notin U
      BY <1>1, <1>3
    <3>. QED
      BY <1>3, <1>7, <2>1, <3>1, FS_AddElement
  <2>2. CASE ~new
    BY <1>3, <1>7, <2>2
  <2>. QED
    BY <2>1, <2>2
<1>9. \A i \in 1 .. m - 1 : {j \in V : j < i} = {j \in U : j < i}
  BY <1>1, <1>3, <1>7
<1>10. {j \in V : j < m} = U
  <2>1. \A j \in U : j < m
    BY <1>1, <1>3
  <2>2. \A j \in V : j < m => j \in U
    BY <1>1, <1>7
  <2>3. \A j \in U : j \in V
    BY <1>7
  <2>. QED
    BY <2>1, <2>2, <2>3
<1>11. Early(q) = {i \in U : Cardinality({j \in U : j < i}) < MaxUsers}
  BY DEF Early, U
<1>12. Early(r) = {i \in V : Cardinality({j \in V : j < i}) < MaxUsers}
  BY DEF Early, V
<1>13. Early(r) = Early(q) \cup (IF new /\ Cardinality(U) < MaxUsers THEN {m} ELSE {})
  <2>1. ASSUME NEW i \in 1 .. m - 1 PROVE i \in Early(r) <=> i \in Early(q)
    BY <1>1, <1>3, <1>7, <1>9, <1>11, <1>12
  <2>2. m \in Early(r) <=> new /\ Cardinality(U) < MaxUsers
    BY <1>1, <1>3, <1>7, <1>10, <1>12
  <2>3. Early(r) \in SUBSET (1 .. m) /\ Early(q) \in SUBSET (1 .. m - 1)
    BY <1>3, <1>6, <1>11, <1>12
  <2>4. \A i \in 1 .. m : i = m \/ i \in 1 .. m - 1
    BY <1>1
  <2>. QED
    BY <2>1, <2>2, <2>3, <2>4
<1>. QED
  BY <1>7, <1>8, <1>13 DEF U, V, m, r, new

\* A round of the loop: section, table, entries and settings follow the text.
LEMMA ReadLineReads ==
  ASSUME ConfigTypeOK, ConfigRead, NEW l \in Lines, ReadLine(l)
  PROVE  ConfigRead'
<1>. DEFINE q == text
            r == Append(text, l)
            m == Len(text) + 1
            new == IsUser(l) /\ l.equals # "later" /\ HeaderAbove(q, m, "users")
<1>1. /\ text \in Seq(Lines) /\ text' = r /\ users \in Seq(User) /\ Len(users) \in Nat
      /\ section' = IF IsHeader(l) THEN l.header ELSE section
      /\ users' = IF Enters(l) THEN Append(users, UserOf(l)) ELSE users
  <2>1. text \in Seq(Lines) /\ users \in Seq(User)
    BY DEF ConfigTypeOK
  <2>. QED
    BY <2>1, ReadLineTyped
<1>2. /\ Len(q) \in Nat /\ DOMAIN q = 1 .. m - 1 /\ DOMAIN r = 1 .. m /\ Len(r) = m
      /\ m \in Nat \ {0} /\ Len(r) + 1 = Len(q) + 2
      /\ r[m] = l /\ \A i \in 1 .. m - 1 : r[i] = q[i]
  BY <1>1, NextLine
<1>3. /\ UsersIn(r) = UsersIn(q) \cup (IF new THEN {m} ELSE {})
      /\ Early(r) = Early(q) \cup
            (IF new /\ Cardinality(UsersIn(q)) < MaxUsers THEN {m} ELSE {})
      /\ Cardinality(UsersIn(r)) = Cardinality(UsersIn(q)) + (IF new THEN 1 ELSE 0)
      /\ Cardinality(UsersIn(q)) \in Nat
  BY <1>1, UsersNext, UsersFinite
<1>4. section = "users" <=> HeaderAbove(q, m, "users")
  BY DEF ConfigRead, SectionRead, Sections
<1>5. Enters(l) <=> new /\ Cardinality(UsersIn(q)) < MaxUsers
  BY <1>1, <1>3, <1>4, ConfigAssumption DEF Enters, ConfigRead, TableRead
<1>6. SectionRead'
  <2>1. SUFFICES ASSUME NEW s \in Sections
                 PROVE  section' = s <=> HeaderAbove(r, Len(r) + 1, s)
    BY <1>1 DEF SectionRead
  <2>2. HeaderAbove(r, Len(r) + 1, s) <=>
           IF IsHeader(l) THEN s = l.header ELSE HeaderAbove(q, m, s)
    BY <1>1, <1>2, UnderNext
  <2>3. section = s <=> HeaderAbove(q, m, s)
    BY DEF ConfigRead, SectionRead
  <2>. QED
    BY <1>1, <2>2, <2>3
<1>7. TableRead'
  <2>1. Len(users') = IF Enters(l) THEN Len(users) + 1 ELSE Len(users)
    BY <1>1
  <2>. HIDE DEF r, new
  <2>2. SUFFICES IF Cardinality(UsersIn(r)) < MaxUsers THEN Len(users') = Cardinality(UsersIn(r))
                                                       ELSE Len(users') = MaxUsers
    BY <1>1 DEF TableRead
  <2>3. IF Cardinality(UsersIn(q)) < MaxUsers THEN Len(users) = Cardinality(UsersIn(q))
                                              ELSE Len(users) = MaxUsers
    BY DEF ConfigRead, TableRead
  <2>. HIDE DEF q
  <2>. QED
    BY <1>1, <1>3, <1>5, <2>1, <2>3, ConfigAssumption
<1>8. SettingsRead'
  <2>1. SUFFICES ASSUME NEW k \in Keys PROVE settings'[k] = "given" <=> Given(r, k)
    BY <1>1 DEF SettingsRead
  <2>2. settings'[k] = IF IsSetting(l) /\ l.key = k /\ section = SectionOf(k)
                       THEN "given" ELSE settings[k]
    BY DEF ReadLine
  <2>3. SectionOf(k) \in Sections
    BY DEF SectionOf, Sections
  <2>4. section = SectionOf(k) <=> HeaderAbove(q, m, SectionOf(k))
    BY <2>3 DEF ConfigRead, SectionRead
  <2>5. \A i \in 1 .. m : HeaderAbove(r, i, SectionOf(k)) <=> HeaderAbove(q, i, SectionOf(k))
    BY <1>1, UnderStands
  <2>6. settings[k] = "given" <=> Given(q, k)
    BY DEF ConfigRead, SettingsRead
  <2>7. \A i \in 1 .. m : i = m \/ i \in 1 .. m - 1
    BY <1>2
  <2>8. m \in 1 .. m /\ \A i \in 1 .. m - 1 : i \in 1 .. m
    BY <1>2
  <2>. HIDE DEF q, r, m
  <2>9. Given(r, k) <=> \/ Given(q, k)
                        \/ IsSetting(l) /\ l.key = k /\ HeaderAbove(q, m, SectionOf(k))
    BY <1>2, <2>5, <2>7, <2>8 DEF Given
  <2>. QED
    BY <2>2, <2>4, <2>6, <2>9
<1>9. UsersRead'
  <2>1. PICK f \in [DOMAIN users -> Early(q)] : FromLines(q, users, f)
    BY DEF ConfigRead, UsersRead
  <2>2. SUFFICES \E g \in [DOMAIN users' -> Early(r)] : FromLines(r, users', g)
    BY <1>1 DEF UsersRead
  <2>3. Early(q) \in SUBSET (1 .. m - 1)
    BY <1>1, <1>2, UsersFinite DEF Early
  <2>4. \A a \in Early(q) : r[a] = q[a] /\ a < m
    BY <1>2, <2>3
  <2>5. CASE ~Enters(l)
    <3>1. Early(r) = Early(q) /\ users' = users
      BY <1>1, <1>3, <1>5, <2>5
    <3>2. FromLines(r, users', f)
      BY <2>1, <2>4, <3>1 DEF FromLines
    <3>. QED
      BY <2>1, <3>1, <3>2
  <2>6. CASE Enters(l)
    <3>. DEFINE n == Len(users)
                g == [i \in DOMAIN users' |-> IF i = n + 1 THEN m ELSE f[i]]
    <3>1. Early(r) = Early(q) \cup {m} /\ users' = Append(users, UserOf(l))
      BY <1>1, <1>3, <1>5, <2>6
    <3>2. /\ n \in Nat /\ DOMAIN users = 1 .. n /\ DOMAIN users' = 1 .. n + 1
          /\ users'[n + 1] = UserOf(l) /\ \A i \in 1 .. n : users'[i] = users[i]
      BY <1>1, <3>1, UserTyped, <2>6 DEF Enters
    <3>. HIDE DEF r, q, m, n
    <3>3. \A i \in DOMAIN users' : i = n + 1 \/ (i \in DOMAIN users /\ i # n + 1)
      BY <3>2
    <3>4. n + 1 \in DOMAIN users' /\ \A i \in DOMAIN users : i \in DOMAIN users' /\ i # n + 1
      BY <3>2
    <3>5. g[n + 1] = m /\ \A i \in DOMAIN users : g[i] = f[i]
      BY <3>4
    <3>6. g \in [DOMAIN users' -> Early(r)]
      BY <2>1, <3>1, <3>3 DEF FromLines
    <3>. HIDE DEF g
    <3>7. \A i \in DOMAIN users' : g[i] \in Early(r) /\ users'[i] = UserOf(r[g[i]])
      <4>1. g[n + 1] \in Early(r) /\ users'[n + 1] = UserOf(r[g[n + 1]])
        BY <1>2, <3>1, <3>2, <3>5
      <4>2. ASSUME NEW i \in DOMAIN users
            PROVE  g[i] \in Early(r) /\ users'[i] = UserOf(r[g[i]])
        <5>1. g[i] = f[i] /\ f[i] \in Early(q) /\ users[i] = UserOf(q[f[i]])
          BY <2>1, <3>5 DEF FromLines
        <5>2. users'[i] = users[i] /\ r[f[i]] = q[f[i]]
          BY <2>4, <3>2, <5>1
        <5>. QED
          BY <3>1, <5>1, <5>2
      <4>. QED
        BY <3>3, <4>1, <4>2
    <3>8. \A i, j \in DOMAIN users' : i < j => g[i] < g[j]
      <4>1. SUFFICES ASSUME NEW i \in DOMAIN users', NEW j \in DOMAIN users', i < j
                     PROVE  g[i] < g[j]
        OBVIOUS
      <4>2. i \in DOMAIN users /\ i # n + 1
        BY <3>2, <4>1
      <4>3. CASE j = n + 1
        BY <2>1, <2>4, <3>5, <4>2, <4>3 DEF FromLines
      <4>4. CASE j # n + 1
        BY <2>1, <3>3, <3>5, <4>1, <4>2, <4>4 DEF FromLines
      <4>. QED
        BY <4>3, <4>4
    <3>9. \A a \in Early(r) : \E i \in DOMAIN users' : g[i] = a
      BY <2>1, <3>1, <3>4, <3>5 DEF FromLines
    <3>10. FromLines(r, users', g)
      BY <3>7, <3>8, <3>9 DEF FromLines
    <3>. QED
      BY <3>6, <3>10
  <2>. QED
    BY <2>5, <2>6
<1>. QED
  BY <1>6, <1>7, <1>8, <1>9 DEF ConfigRead

\* What the loop has found is what the text says.
LEMMA ReadAsWritten ==
  ASSUME ConfigTypeOK, ConfigRead
  PROVE  ConfigAsWritten
<1>1. \A i, s : Under(i, s) <=> HeaderAbove(text, i, s)
  BY DEF Under, HeaderAbove
<1>2. UserLines = UsersIn(text)
  BY <1>1 DEF UserLines, UsersIn
<1>3. Admitted = Early(text)
  BY <1>2 DEF Admitted, Early
<1>4. ASSUME NEW k \in Keys
      PROVE  settings[k] = "given" <=>
               \E i \in DOMAIN text : IsSetting(text[i]) /\ text[i].key = k /\ Under(i, SectionOf(k))
  BY <1>1 DEF ConfigRead, SettingsRead, Given
<1>5. ASSUME NEW n \in Names, NEW p \in Fields
      PROVE  VerifyUser(n, Md5Hex(p)) = IF Naming(n, p) = {} THEN "fails"
                                        ELSE ParsePermission(text[Min(Naming(n, p))].perm)
  <2>. DEFINE M == {i \in DOMAIN users : users[i].name = n /\ users[i].password = Md5Hex(p)}
              N == Naming(n, p)
  <2>1. PICK f \in [DOMAIN users -> Early(text)] : FromLines(text, users, f)
    BY DEF ConfigRead, UsersRead
  <2>2. \A i \in DOMAIN users : /\ f[i] \in Early(text)
                               /\ users[i].name = text[f[i]].name
                               /\ users[i].password = Md5Hex(text[f[i]].password)
                               /\ users[i].perm = ParsePermission(text[f[i]].perm)
    BY <2>1 DEF FromLines, UserOf
  <2>3. \A i \in M : f[i] \in N
    <3>1. \A q : Md5Hex(q) = Md5Hex(p) => q = p
      BY DEF Md5Hex
    <3>. QED
      BY <1>3, <2>2, <3>1 DEF Naming
  <2>4. \A a \in N : \E i \in M : f[i] = a
    BY <1>3, <2>1, <2>2 DEF Naming, FromLines
  <2>5. VerifyUser(n, Md5Hex(p)) = IF M = {} THEN "fails" ELSE users[Min(M)].perm
    BY DEF VerifyUser
  <2>6. M \in SUBSET DOMAIN users /\ M \in SUBSET Nat
    <3>1. users \in Seq(User)
      BY DEF ConfigTypeOK
    <3>2. DOMAIN users = 1 .. Len(users) /\ Len(users) \in Nat
      BY <3>1
    <3>. QED
      BY <3>2
  <2>7. N \in SUBSET Nat
    <3>1. UsersIn(text) \in SUBSET (1 .. Len(text)) /\ Len(text) \in Nat
      <4>1. text \in Seq(Lines)
        BY DEF ConfigTypeOK
      <4>. QED
        BY <4>1, UsersFinite
    <3>. QED
      BY <1>3, <3>1 DEF Naming, Early
  <2>. HIDE DEF M, N
  <2>8. CASE M = {}
    <3>1. N = {}
      BY <2>4, <2>8
    <3>. QED
      BY <2>5, <2>8, <3>1 DEF N
  <2>9. CASE M # {}
    <3>1. N # {}
      BY <2>3, <2>9
    <3>2. Min(M) \in M /\ \A k \in M : Min(M) <= k
      BY <2>6, <2>9, MinSmallest
    <3>3. Min(N) \in N /\ \A k \in N : Min(N) <= k
      BY <2>7, <3>1, MinSmallest
    <3>4. PICK i \in M : f[i] = Min(N)
      BY <2>4, <3>3
    <3>5. f[Min(M)] \in N /\ f[Min(M)] \in Nat /\ Min(N) \in Nat
      BY <2>3, <2>7, <3>2, <3>3
    <3>6. Min(N) <= f[Min(M)] /\ Min(M) <= i
      BY <3>2, <3>3, <3>5
    <3>7. Min(M) = i
      <4>1. Min(M) \in DOMAIN users /\ i \in DOMAIN users /\ Min(M) \in Nat /\ i \in Nat
        BY <2>6, <3>2
      <4>2. Min(M) < i => f[Min(M)] < f[i]
        BY <2>1, <4>1 DEF FromLines
      <4>. QED
        BY <3>4, <3>5, <3>6, <4>1, <4>2
    <3>8. users[Min(M)].perm = ParsePermission(text[Min(N)].perm)
      BY <2>2, <2>6, <3>4, <3>7
    <3>. QED
      BY <2>5, <2>9, <3>1, <3>8 DEF N
  <2>. QED
    BY <2>8, <2>9
<1>. QED
  BY <1>4, <1>5 DEF ConfigAsWritten

\* Before the first line there is no section, no user and no setting.
LEMMA InitReads ==
  ASSUME ConfigInit
  PROVE  ConfigTypeOK /\ ConfigRead
<1>1. /\ text = <<>> /\ section = "" /\ users = <<>> /\ settings = [k \in Keys |-> "default"]
      /\ <<>> \in Seq(Lines) /\ <<>> \in Seq(User) /\ Len(<<>>) = 0 /\ DOMAIN <<>> = {}
  <2>1. <<>> \in Seq(Lines) /\ <<>> \in Seq(User) /\ Len(<<>>) = 0 /\ DOMAIN <<>> = {}
    OBVIOUS
  <2>. QED
    BY <2>1 DEF ConfigInit
<1>2. ConfigTypeOK
  BY <1>1 DEF ConfigTypeOK
<1>3. SectionRead
  <2>1. \A s : ~HeaderAbove(<<>>, 0 + 1, s)
    BY DEF HeaderAbove
  <2>. QED
    BY <1>1, <2>1 DEF SectionRead, Sections
<1>4. UsersIn(<<>>) = {} /\ Early(<<>>) = {}
  BY <1>1 DEF UsersIn, Early
<1>5. TableRead
  <2>1. Cardinality(UsersIn(text)) = 0 /\ Len(users) = 0
    BY <1>1, <1>4, FS_EmptySet
  <2>. QED
    BY <2>1, ConfigAssumption DEF TableRead
<1>6. SettingsRead
  BY <1>1 DEF SettingsRead, Given
<1>7. UsersRead
  <2>. DEFINE f == [i \in DOMAIN users |-> i]
  <2>1. f \in [DOMAIN users -> Early(text)] /\ FromLines(text, users, f)
    BY <1>1, <1>4 DEF FromLines
  <2>. QED
    BY <2>1 DEF UsersRead
<1>. QED
  BY <1>2, <1>3, <1>5, <1>6, <1>7 DEF ConfigRead
================================================================================
