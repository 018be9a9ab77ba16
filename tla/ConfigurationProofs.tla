-------------------------- MODULE ConfigurationProofs --------------------------
(***************************************************************************)
(* Which configurations reach the driver as they were meant: the theorem   *)
(* ReadBack of Startup, for any deployments.                               *)
(***************************************************************************)
EXTENDS StartupProofs, SequenceTheorems, WellFoundedInduction

\* What stands in a sequence.
Elements(s) == {s[i] : i \in DOMAIN s}

LEMMA ElementsOfConcat ==
    ASSUME NEW S, NEW s \in Seq(S), NEW t \in Seq(S)
    PROVE  s \o t \in Seq(S) /\ Elements(s \o t) = Elements(s) \cup Elements(t)
<1>1. /\ s \o t \in Seq(S) /\ Len(s \o t) = Len(s) + Len(t)
      /\ Len(s) \in Nat /\ Len(t) \in Nat
      /\ \A i \in 1..(Len(s) + Len(t)) :
            (s \o t)[i] = IF i <= Len(s) THEN s[i] ELSE t[i - Len(s)]
  OBVIOUS
<1>2. /\ DOMAIN s = 1..Len(s) /\ DOMAIN t = 1..Len(t)
      /\ DOMAIN (s \o t) = 1..(Len(s) + Len(t))
  BY <1>1
<1> DEFINE u == s \o t
<1> HIDE DEF u
<1>3. ASSUME NEW i \in DOMAIN s PROVE s[i] \in Elements(s \o t)
  <2>1. i \in DOMAIN (s \o t) /\ (s \o t)[i] = s[i]
    BY <1>1, <1>2
  <2> QED BY <2>1 DEF Elements
<1>4. ASSUME NEW i \in DOMAIN t PROVE t[i] \in Elements(s \o t)
  <2>1. i + Len(s) \in 1..(Len(s) + Len(t)) /\ ~(i + Len(s) <= Len(s))
        /\ (i + Len(s)) - Len(s) = i
    BY <1>1, <1>2
  <2>2. (s \o t)[i + Len(s)] = t[i]
    BY <1>1, <2>1
  <2> QED BY <1>2, <2>1, <2>2 DEF Elements
<1>5. ASSUME NEW i \in DOMAIN (s \o t)
      PROVE  (s \o t)[i] \in Elements(s) \cup Elements(t)
  <2>1. CASE i <= Len(s)
    BY <1>1, <1>2, <2>1 DEF Elements
  <2>2. CASE ~(i <= Len(s))
    <3>1. i - Len(s) \in DOMAIN t /\ (s \o t)[i] = t[i - Len(s)]
      BY <1>1, <1>2, <2>2
    <3> QED BY <3>1 DEF Elements
  <2> QED BY <2>1, <2>2
<1> QED BY <1>1, <1>3, <1>4, <1>5 DEF Elements

(* The reader *)

\* There is one way to read a sequence of fields: what reads each as its
\* predecessor says is the reading.
LEMMA ReadingIs ==
    ASSUME NEW S, NEW dsn \in Seq(S), NEW g \in [DOMAIN dsn -> Readings],
           \A i \in DOMAIN dsn :
              g[i] = IF i = 1 THEN "field" ELSE After(dsn[i - 1].value)[g[i - 1]]
    PROVE  Reading(dsn) = g
<1> DEFINE Step(f) ==
             [i \in DOMAIN dsn |->
                 IF i = 1 THEN "field" ELSE After(dsn[i - 1].value)[f[i - 1]]]
           reading == CHOOSE f : f = Step(f)
<1>1. g = Step(g)
  OBVIOUS
<1>2. reading = Step(reading)
  BY <1>1
<1>3. Reading(dsn) = reading
  BY DEF Reading
<1> HIDE DEF reading
<1> DEFINE Wrong == {i \in DOMAIN dsn : reading[i] # g[i]}
<1>4. DOMAIN dsn = 1..Len(dsn) /\ Len(dsn) \in Nat
  OBVIOUS
<1>5. Wrong = {}
  <2> SUFFICES ASSUME Wrong # {} PROVE FALSE
    OBVIOUS
  <2>1. Wrong \subseteq Nat
    BY <1>4
  <2>2. PICK x \in Wrong : \A y \in Wrong : ~(<<y, x>> \in OpToRel(<, Nat))
    BY <2>1, NatLessThanWellFounded, WFMin
  <2>3. x \in DOMAIN dsn /\ reading[x] # g[x]
    OBVIOUS
  <2>4. x # 1
    BY <1>2, <2>3
  <2>5. x - 1 \in DOMAIN dsn /\ x - 1 \in Nat /\ x \in Nat /\ x - 1 < x
    BY <1>4, <2>3, <2>4
  <2>6. x - 1 \notin Wrong
    <3>1. <<x - 1, x>> \in Nat \X Nat /\ <<x - 1, x>>[1] = x - 1 /\ <<x - 1, x>>[2] = x
      BY <2>5
    <3>2. <<x - 1, x>> \in OpToRel(<, Nat)
      BY <2>5, <3>1 DEF OpToRel
    <3> QED BY <2>2, <3>2
  <2>7. reading[x - 1] = g[x - 1]
    BY <2>5, <2>6
  <2>8. reading[x] = After(dsn[x - 1].value)[reading[x - 1]]
    BY <1>2, <2>3, <2>4
  <2> QED BY <2>3, <2>4, <2>7, <2>8
<1>6. reading = g
  <2>1. reading = [i \in DOMAIN dsn |-> reading[i]]
    BY <1>2
  <2> QED BY <1>5, <2>1
<1> QED BY <1>3, <1>6

\* What follows a field that has no special value.
LEMMA AfterPlain ==
    ASSUME NEW v, v \notin Special, NEW r \in {"field", "text"}
    PROVE  After(v)[r] = IF r = "field" /\ v = Blank THEN "text" ELSE "field"
<1>1. r \in Readings /\ r # "quoted" /\ v \notin {Spaced, Quoted, Trailing}
  BY DEF Readings, Special
<1> QED BY <1>1 DEF After

\* Without special values, and without two fields in a row that are empty, the
\* driver misreads what is empty and what comes next, and nothing else.
LEMMA ReadAsMeantPlain ==
    ASSUME NEW S, NEW dsn \in Seq(S), dsn # << >>,
           \A i \in DOMAIN dsn : dsn[i].value \notin Special,
           \A i \in DOMAIN dsn :
              i # 1 => dsn[i].value # Blank \/ dsn[i - 1].value # Blank
    PROVE  ReadAsMeant(dsn) =
             {dsn[i] : i \in {j \in DOMAIN dsn :
                                 /\ dsn[j].value # Blank
                                 /\ j = 1 \/ dsn[j - 1].value # Blank}}
<1> DEFINE g == [i \in DOMAIN dsn |->
                   IF i = 1 \/ dsn[i - 1].value # Blank THEN "field" ELSE "text"]
<1>1. DOMAIN dsn = 1..Len(dsn) /\ Len(dsn) \in Nat /\ Len(dsn) \in DOMAIN dsn
  OBVIOUS
<1>2. g \in [DOMAIN dsn -> Readings] /\ \A i \in DOMAIN dsn : g[i] \in {"field", "text"}
  BY DEF Readings
<1>3. ASSUME NEW i \in DOMAIN dsn
      PROVE  g[i] = IF i = 1 THEN "field" ELSE After(dsn[i - 1].value)[g[i - 1]]
  <2>1. CASE i = 1
    BY <2>1
  <2>2. CASE i # 1
    <3>1. i - 1 \in DOMAIN dsn
      BY <1>1, <2>2
    <3>2. After(dsn[i - 1].value)[g[i - 1]] =
            IF g[i - 1] = "field" /\ dsn[i - 1].value = Blank THEN "text" ELSE "field"
      BY <1>2, <3>1, AfterPlain
    <3>3. dsn[i - 1].value = Blank => g[i - 1] = "field"
      BY <3>1
    <3> QED BY <2>2, <3>2, <3>3
  <2> QED BY <2>1, <2>2
<1>4. Reading(dsn) = g
  <2> HIDE DEF g
  <2> QED BY <1>2, <1>3, ReadingIs
<1>5. ~Unreadable(dsn)
  <2> DEFINE n == Len(dsn)
  <2>1. After(dsn[n].value)[g[n]] \in {"field", "text"}
    BY <1>1, <1>2, AfterPlain
  <2>2. dsn[n].value # Trailing
    BY <1>1 DEF Special
  <2> QED BY <1>4, <2>1, <2>2 DEF Unreadable
<1>6. \A j \in DOMAIN dsn :
         /\ Reading(dsn)[j] = "field" <=> (j = 1 \/ dsn[j - 1].value # Blank)
         /\ dsn[j].value \notin Special \cup {Blank} <=> dsn[j].value # Blank
  BY <1>4
<1> HIDE DEF g
<1> QED BY <1>5, <1>6 DEF ReadAsMeant
------------------------------------------------------------------------------
AlwaysWritten == {"host", "port", "user", "database", "sslmode"}
LeftOutIfEmpty == ConnectionKeys \ AlwaysWritten

\* The port is an int in the code (config.go:31, 279): a file that does not say
\* so is malformed, and whatever number it holds is written.
PortsAreNumbers ==
    \A dep \in Deployments : dep.file # Malformed => Config(dep).port # Blank

LEMMA OptionalElements ==
    ASSUME NEW c, NEW k \in ConnectionKeys, NEW S, Field(c, k) \in S
    PROVE  /\ Optional(c, k) \in Seq(S)
           /\ Elements(Optional(c, k)) = {Field(c, j) : j \in {i \in {k} : c[i] # Blank}}
<1>1. CASE c[k] = Blank
  BY <1>1 DEF Optional, Elements
<1>2. CASE c[k] # Blank
  <2>1. Optional(c, k) = <<Field(c, k)>>
    BY <1>2 DEF Optional
  <2> QED BY <1>2, <2>1 DEF Elements
<1> QED BY <1>1, <1>2

\* With a value in every field that is always written, the fields of the
\* connection string are those that were configured, no more and no less.
LEMMA FieldsOfDSN ==
    ASSUME NEW c, NEW S, \A k \in ConnectionKeys : Field(c, k) \in S,
           \A k \in AlwaysWritten : c[k] # Blank
    PROVE  GetDSN(c) \in Seq(S) /\ Elements(GetDSN(c)) = Configured(c)
<1> DEFINE Given(K) == {Field(c, j) : j \in {i \in K : c[i] # Blank}}
           s0 == <<Field(c, "host"), Field(c, "port"), Field(c, "user"),
                   Field(c, "database"), Field(c, "sslmode")>>
           s1 == s0 \o Optional(c, "password")
           s2 == s1 \o Optional(c, "sslcert")
           s3 == s2 \o Optional(c, "sslkey")
           s4 == s3 \o Optional(c, "sslrootcert")
<1>1. s0 \in Seq(S) /\ Elements(s0) = Given(AlwaysWritten)
  <2>1. s0 \in Seq(S)
    BY DEF ConnectionKeys
  <2>2. Elements(s0) = {s0[1], s0[2], s0[3], s0[4], s0[5]}
    <3>1. DOMAIN s0 = {1, 2, 3, 4, 5}
      OBVIOUS
    <3> HIDE DEF s0
    <3> QED BY <3>1 DEF Elements
  <2>3. Elements(s0) = {Field(c, k) : k \in AlwaysWritten}
    BY <2>2 DEF AlwaysWritten
  <2> QED BY <2>1, <2>3
<1> HIDE DEF s0
<1>2. \A k \in LeftOutIfEmpty :
         Optional(c, k) \in Seq(S) /\ Elements(Optional(c, k)) = Given({k})
  BY OptionalElements DEF LeftOutIfEmpty
<1>3. LeftOutIfEmpty = {"password", "sslcert", "sslkey", "sslrootcert"}
  BY DEF LeftOutIfEmpty, ConnectionKeys, AlwaysWritten
<1>4. \A K, L : Given(K) \cup Given(L) = Given(K \cup L)
  OBVIOUS
<1> HIDE DEF Given
<1>5. ASSUME NEW K, NEW s \in Seq(S), Elements(s) = Given(K), NEW k \in LeftOutIfEmpty
      PROVE  /\ s \o Optional(c, k) \in Seq(S)
             /\ Elements(s \o Optional(c, k)) = Given(K \cup {k})
  <2>1. Optional(c, k) \in Seq(S) /\ Elements(Optional(c, k)) = Given({k})
    BY <1>2
  <2>2. /\ s \o Optional(c, k) \in Seq(S)
        /\ Elements(s \o Optional(c, k)) = Elements(s) \cup Elements(Optional(c, k))
    BY <2>1, ElementsOfConcat
  <2>3. Given(K) \cup Given({k}) = Given(K \cup {k})
    BY <1>4
  <2> QED BY <1>5, <2>1, <2>2, <2>3
<1> DEFINE K1 == AlwaysWritten \cup {"password"}
           K2 == K1 \cup {"sslcert"}
           K3 == K2 \cup {"sslkey"}
           K4 == K3 \cup {"sslrootcert"}
<1>6. s1 \in Seq(S) /\ Elements(s1) = Given(K1)
  BY <1>1, <1>3, <1>5
<1>7. s2 \in Seq(S) /\ Elements(s2) = Given(K2)
  <2> HIDE DEF s1, K1
  <2> QED BY <1>3, <1>5, <1>6
<1>8. s3 \in Seq(S) /\ Elements(s3) = Given(K3)
  <2> HIDE DEF s2, K2
  <2> QED BY <1>3, <1>5, <1>7
<1>9. s4 \in Seq(S) /\ Elements(s4) = Given(K4)
  <2> HIDE DEF s3, K3
  <2> QED BY <1>3, <1>5, <1>8
<1>10. K4 = ConnectionKeys
  BY DEF ConnectionKeys, AlwaysWritten
<1>11. s4 = GetDSN(c)
  BY DEF s0, GetDSN
<1> HIDE DEF s4, K4
<1> QED BY <1>9, <1>10, <1>11 DEF Given, Configured

\* The fields that are always written, in their places.
First(c) == <<Field(c, "host"), Field(c, "port"), Field(c, "user"),
              Field(c, "database"), Field(c, "sslmode")>>

\* The fields first, then those of K that have a value, each once.
Shaped(c, s, K) ==
    /\ s \in Seq({Field(c, k) : k \in ConnectionKeys})
    /\ Len(s) >= 5 /\ \A i \in 1..5 : s[i] = First(c)[i]
    /\ \A i \in DOMAIN s : i > 5 => s[i].value # Blank /\ s[i].key \in K
    /\ \A i, j \in DOMAIN s : s[i].key = s[j].key => i = j
    /\ (\E k \in K : c[k] # Blank) => Len(s) > 5

LEMMA KeysOfFirst ==
    ASSUME NEW c
    PROVE  /\ \A i \in 1..5 : First(c)[i].key \in AlwaysWritten
           /\ \A i, j \in 1..5 : First(c)[i].key = First(c)[j].key => i = j
<1>1. /\ First(c)[1].key = "host" /\ First(c)[2].key = "port"
      /\ First(c)[3].key = "user" /\ First(c)[4].key = "database"
      /\ First(c)[5].key = "sslmode"
  BY DEF First, Field
<1>2. 1..5 = {1, 2, 3, 4, 5}
  OBVIOUS
<1> QED BY <1>1, <1>2 DEF AlwaysWritten

LEMMA OptionalKeepsShape ==
    ASSUME NEW c, NEW s, NEW K \in SUBSET LeftOutIfEmpty, Shaped(c, s, K),
           NEW k \in LeftOutIfEmpty \ K
    PROVE  Shaped(c, s \o Optional(c, k), K \cup {k})
<1> DEFINE S == {Field(c, j) : j \in ConnectionKeys}
           t == s \o Optional(c, k)
<1>1. s \in Seq(S) /\ DOMAIN s = 1..Len(s) /\ Len(s) \in Nat /\ Len(s) >= 5
  BY DEF Shaped
<1>2. CASE c[k] = Blank
  <2>1. Optional(c, k) = << >> /\ t = s
    BY <1>1, <1>2 DEF Optional
  <2> HIDE DEF t
  <2>2. \A i \in DOMAIN s : s[i].key \in K => s[i].key \in K \cup {k}
    OBVIOUS
  <2>3. (\E j \in K \cup {k} : c[j] # Blank) => \E j \in K : c[j] # Blank
    BY <1>2
  <2>4. Shaped(c, s, K \cup {k})
    BY <2>2, <2>3 DEF Shaped
  <2> QED BY <2>1, <2>4 DEF t
<1>3. CASE c[k] # Blank
  <2>1. Optional(c, k) = <<Field(c, k)>> /\ Field(c, k) \in S
    BY <1>3 DEF Optional, LeftOutIfEmpty
  <2>2. /\ t \in Seq(S) /\ Len(t) = Len(s) + 1 /\ DOMAIN t = 1..(Len(s) + 1)
        /\ \A i \in DOMAIN s : t[i] = s[i]
        /\ t[Len(s) + 1] = Field(c, k)
    <3> HIDE DEF S
    <3> QED BY <1>1, <2>1
  <2> HIDE DEF t, S
  <2>3. \A i \in DOMAIN s : s[i].key \in AlwaysWritten \cup K
    <3> SUFFICES ASSUME NEW i \in DOMAIN s PROVE s[i].key \in AlwaysWritten \cup K
      OBVIOUS
    <3>1. CASE i > 5
      BY <3>1 DEF Shaped
    <3>2. CASE ~(i > 5)
      <4>1. i \in 1..5
        BY <1>1, <3>2
      <4> QED BY <4>1, KeysOfFirst DEF Shaped
    <3> QED BY <3>1, <3>2
  <2>4. \A i \in DOMAIN s : s[i].key # k
    BY <2>3 DEF LeftOutIfEmpty
  <2>5. Field(c, k).key = k /\ Field(c, k).value # Blank
    BY <1>3 DEF Field
  <2>6. \A i \in DOMAIN t : i \in DOMAIN s \/ i = Len(s) + 1
    BY <1>1, <2>2
  <2>7. \A i \in 1..5 : t[i] = First(c)[i]
    BY <1>1, <2>2 DEF Shaped
  <2>8. \A i \in DOMAIN t : i > 5 => t[i].value # Blank /\ t[i].key \in K \cup {k}
    BY <2>2, <2>5, <2>6 DEF Shaped
  <2>9. \A i, j \in DOMAIN t : t[i].key = t[j].key => i = j
    BY <2>2, <2>4, <2>5, <2>6 DEF Shaped
  <2>10. Len(t) >= 5 /\ Len(t) > 5
    BY <1>1, <2>2
  <2> QED BY <2>2, <2>7, <2>8, <2>9, <2>10 DEF Shaped, S, t
<1> QED BY <1>2, <1>3

LEMMA ShapeOfDSN ==
    ASSUME NEW c
    PROVE  Shaped(c, GetDSN(c), LeftOutIfEmpty)
<1> DEFINE s1 == First(c) \o Optional(c, "password")
           s2 == s1 \o Optional(c, "sslcert")
           s3 == s2 \o Optional(c, "sslkey")
           s4 == s3 \o Optional(c, "sslrootcert")
<1>1. Shaped(c, First(c), {})
  <2>1. First(c) \in Seq({Field(c, k) : k \in ConnectionKeys})
    BY DEF First, ConnectionKeys
  <2>2. Len(First(c)) = 5 /\ DOMAIN First(c) = 1..5
    BY DEF First
  <2> QED BY <2>1, <2>2, KeysOfFirst DEF Shaped
<1>2. LeftOutIfEmpty = {"password", "sslcert", "sslkey", "sslrootcert"}
  BY DEF LeftOutIfEmpty, ConnectionKeys, AlwaysWritten
<1>3. Shaped(c, s1, {} \cup {"password"})
  <2> HIDE DEF LeftOutIfEmpty
  <2> QED BY <1>1, <1>2, OptionalKeepsShape
<1>4. Shaped(c, s2, {"password", "sslcert"})
  <2> HIDE DEF s1
  <2>1. Shaped(c, s2, {"password"} \cup {"sslcert"})
    BY <1>2, <1>3, OptionalKeepsShape
  <2>2. {"password"} \cup {"sslcert"} = {"password", "sslcert"}
    OBVIOUS
  <2> HIDE DEF s2
  <2> QED BY <2>1, <2>2
<1>5. Shaped(c, s3, {"password", "sslcert", "sslkey"})
  <2> HIDE DEF s2
  <2>1. Shaped(c, s3, {"password", "sslcert"} \cup {"sslkey"})
    BY <1>2, <1>4, OptionalKeepsShape
  <2>2. {"password", "sslcert"} \cup {"sslkey"} = {"password", "sslcert", "sslkey"}
    OBVIOUS
  <2> HIDE DEF s3
  <2> QED BY <2>1, <2>2
<1>6. Shaped(c, s4, LeftOutIfEmpty)
  <2> HIDE DEF s3
  <2>1. Shaped(c, s4, {"password", "sslcert", "sslkey"} \cup {"sslrootcert"})
    BY <1>2, <1>5, OptionalKeepsShape
  <2>2. {"password", "sslcert", "sslkey"} \cup {"sslrootcert"} = LeftOutIfEmpty
    BY <1>2
  <2> HIDE DEF s4
  <2> QED BY <2>1, <2>2
<1> QED BY <1>6 DEF First, GetDSN
------------------------------------------------------------------------------
(* What reaches the driver *)

\* A configuration that is accepted has a value for the host and the database,
\* and for the password or for the certificate.
LEMMA AcceptedHas ==
    ASSUME NEW dep, LoadConfig(dep)
    PROVE  LET c == Config(dep)
           IN /\ c["host"] # Blank /\ c["database"] # Blank
              /\ c["password"] # Blank \/ c["sslcert"] # Blank
BY DEF LoadConfig, Validate, UsingClientCert

\* Without special values, and with a port, a configuration that is accepted
\* reaches the driver only if it has a user and an SSL mode.
LEMMA EmptyMisleads ==
    ASSUME NEW c, \A k \in ConnectionKeys : c[k] \notin Special,
           c["host"] # Blank, c["port"] # Blank, c["database"] # Blank,
           c["password"] # Blank \/ c["sslcert"] # Blank,
           ConnectsAsConfigured(c)
    PROVE  c["user"] # Blank /\ c["sslmode"] # Blank
<1> DEFINE S == {Field(c, k) : k \in ConnectionKeys}
           dsn == GetDSN(c)
<1>1. Shaped(c, dsn, LeftOutIfEmpty)
  BY ShapeOfDSN
<1> HIDE DEF dsn, S
<1>2. /\ dsn \in Seq(S) /\ DOMAIN dsn = 1..Len(dsn) /\ Len(dsn) \in Nat
      /\ Len(dsn) >= 5
  BY <1>1 DEF Shaped, S
<1>3. \A i \in DOMAIN dsn : \E k \in ConnectionKeys : dsn[i] = Field(c, k)
  BY <1>2 DEF S
<1>4. /\ dsn[1].value = c["host"] /\ dsn[2].value = c["port"]
      /\ dsn[3].value = c["user"] /\ dsn[4].value = c["database"]
      /\ dsn[5].value = c["sslmode"]
  <2>1. \A i \in {1, 2, 3, 4, 5} : dsn[i] = First(c)[i]
    BY <1>1 DEF Shaped
  <2> QED BY <2>1 DEF First, Field
<1>5. \A i \in DOMAIN dsn : i > 5 => dsn[i].value # Blank
  BY <1>1 DEF Shaped
<1>6. \A i \in DOMAIN dsn : dsn[i].value = Blank => i = 3 \/ i = 5
  BY <1>2, <1>4, <1>5
<1>7. ReadAsMeant(dsn) =
         {dsn[i] : i \in {j \in DOMAIN dsn :
                             /\ dsn[j].value # Blank
                             /\ j = 1 \/ dsn[j - 1].value # Blank}}
  <2>1. \A i \in DOMAIN dsn : dsn[i].value \notin Special
    BY <1>3 DEF Field
  <2>2. \A i \in DOMAIN dsn :
           i # 1 => dsn[i].value # Blank \/ dsn[i - 1].value # Blank
    <3>1. \A i \in DOMAIN dsn : i # 1 => i - 1 \in DOMAIN dsn
      BY <1>2
    <3> QED BY <1>2, <1>6, <3>1
  <2>3. dsn # << >>
    BY <1>2
  <2> QED BY <1>2, <2>1, <2>2, <2>3, ReadAsMeantPlain
\* A field with a value that comes after one without is missing.
<1>8. ASSUME NEW i \in DOMAIN dsn, i # 1, dsn[i].value # Blank
      PROVE  dsn[i - 1].value # Blank
  <2>1. dsn[i] \in Configured(c)
    <3>1. PICK k \in ConnectionKeys : dsn[i] = Field(c, k)
      BY <1>3
    <3>2. c[k] # Blank
      BY <1>8, <3>1 DEF Field
    <3> QED BY <3>1, <3>2 DEF Configured
  <2>2. dsn[i] \in ReadAsMeant(dsn)
    BY <2>1 DEF ConnectsAsConfigured, dsn
  <2>3. PICK j \in DOMAIN dsn : /\ dsn[j] = dsn[i]
                                /\ j = 1 \/ dsn[j - 1].value # Blank
    BY <1>7, <2>2
  <2>4. j = i
    BY <1>1, <2>3 DEF Shaped
  <2> QED BY <1>8, <2>3, <2>4
<1>9. c["user"] # Blank
  <2>1. 4 \in DOMAIN dsn /\ 4 - 1 = 3 /\ 4 # 1
    BY <1>2
  <2> QED BY <1>4, <1>8, <2>1
<1>10. c["sslmode"] # Blank
  <2>1. \E k \in LeftOutIfEmpty : c[k] # Blank
    BY DEF LeftOutIfEmpty, ConnectionKeys, AlwaysWritten
  <2>2. Len(dsn) > 5
    BY <1>1, <2>1 DEF Shaped
  <2>3. 6 \in DOMAIN dsn /\ 6 > 5 /\ 6 - 1 = 5 /\ 6 # 1
    BY <1>2, <2>2
  <2> QED BY <1>4, <1>5, <1>8, <2>3
<1> QED BY <1>9, <1>10

\* Without special values, and with a value in every field that is always
\* written, a configuration reaches the driver as it was meant.
LEMMA PlainReaches ==
    ASSUME NEW c, \A k \in ConnectionKeys : c[k] \notin Special,
           \A k \in AlwaysWritten : c[k] # Blank
    PROVE  ConnectsAsConfigured(c)
<1> DEFINE S == {Field(c, k) : k \in ConnectionKeys}
           dsn == GetDSN(c)
<1>1. dsn \in Seq(S) /\ Elements(dsn) = Configured(c)
  BY FieldsOfDSN
<1>2. dsn # << >>
  <2>1. Field(c, "host") \in Configured(c)
    BY DEF Configured, AlwaysWritten, ConnectionKeys
  <2> HIDE DEF dsn
  <2> QED BY <1>1, <2>1 DEF Elements
<1> HIDE DEF dsn, S
<1>3. \A i \in DOMAIN dsn : dsn[i].value \notin Special \cup {Blank}
  <2>1. \A f \in Configured(c) : f.value \notin Special \cup {Blank}
    BY DEF Configured, Field
  <2> QED BY <1>1, <2>1 DEF Elements
<1>4. \A j \in DOMAIN dsn : j = 1 \/ j - 1 \in DOMAIN dsn
  <2>1. DOMAIN dsn = 1..Len(dsn) /\ Len(dsn) \in Nat
    BY <1>1
  <2> QED BY <2>1
<1>5. ReadAsMeant(dsn) =
         {dsn[i] : i \in {j \in DOMAIN dsn :
                             /\ dsn[j].value # Blank
                             /\ j = 1 \/ dsn[j - 1].value # Blank}}
  BY <1>1, <1>2, <1>3, ReadAsMeantPlain
<1>6. ReadAsMeant(dsn) = Elements(dsn)
  BY <1>3, <1>4, <1>5 DEF Elements
<1> QED BY <1>1, <1>6 DEF ConnectsAsConfigured, dsn

\* Of the configurations that are accepted, exactly those without special values
\* and with a value in every field that is always written are read by the driver
\* as they were meant, for any deployments (GetDSN, config.go:278).
THEOREM ReadAsConfigured ==
    ASSUME PortsAreNumbers
    PROVE  Spec => []ReadBack
<1>1. TypeOk => ReadBack
  <2> DEFINE c == Config(deployment)
  <2> SUFFICES ASSUME TypeOk, LoadConfig(deployment)
               PROVE  ConnectsAsConfigured(c) <=>
                         /\ Blank \notin Written(c)
                         /\ \A k \in ConnectionKeys : c[k] \notin Special
    BY DEF ReadBack
  <2>1. c["port"] # Blank
    BY DEF PortsAreNumbers, TypeOk, LoadConfig
  <2>2. /\ c["host"] # Blank /\ c["database"] # Blank
        /\ c["password"] # Blank \/ c["sslcert"] # Blank
    BY AcceptedHas
  <2> HIDE DEF c
  <2>3. ASSUME ConnectsAsConfigured(c), NEW k \in ConnectionKeys
        PROVE  c[k] \notin Special
    <3>1. CASE c[k] = Blank
      BY <3>1, EmptyIsPlain DEF Special
    <3>2. CASE c[k] # Blank
      <4>1. Field(c, k) \in Configured(c)
        BY <3>2 DEF Configured
      <4>2. Field(c, k) \in ReadAsMeant(GetDSN(c))
        BY <2>3, <4>1 DEF ConnectsAsConfigured
      <4>3. Field(c, k).value \notin Special \cup {Blank}
        BY <4>2 DEF ReadAsMeant
      <4> QED BY <4>3 DEF Field
    <3> QED BY <3>1, <3>2
  <2>4. Blank \notin Written(c) <=> c["user"] # Blank /\ c["sslmode"] # Blank
    BY <2>2 DEF Written
  <2>5. ASSUME ConnectsAsConfigured(c)
        PROVE  c["user"] # Blank /\ c["sslmode"] # Blank
    <3>1. \A k \in ConnectionKeys : c[k] \notin Special
      BY <2>3, <2>5
    <3> QED BY <2>1, <2>2, <2>5, <3>1, EmptyMisleads
  <2>6. ASSUME Blank \notin Written(c), \A k \in ConnectionKeys : c[k] \notin Special
        PROVE  ConnectsAsConfigured(c)
    <3>1. \A k \in AlwaysWritten : c[k] # Blank
      BY <2>1, <2>2, <2>4, <2>6 DEF AlwaysWritten
    <3> QED BY <2>6, <3>1, PlainReaches
  <2> QED BY <2>3, <2>4, <2>5, <2>6
<1> QED BY <1>1, TypeCorrect, PTL
==============================================================================
