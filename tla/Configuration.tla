----------------------------- MODULE Configuration -----------------------------
(***************************************************************************)
(* How the settings of the exporter come about (internal/config): each     *)
(* from the environment, else from the file, else from the defaults; what  *)
(* Validate accepts; and how they reach the database driver, as a line of  *)
(* "key=value" fields separated by spaces.                                 *)
(*                                                                         *)
(* A deployment is [env, file, paths]: a value or Blank for every variable *)
(* of the environment, a value or Unset for every key of the file (all of  *)
(* them Unset if there is no file; Malformed if it cannot be parsed or a   *)
(* value has the wrong type), and the certificates that exist on disk.     *)
(***************************************************************************)
EXTENDS Integers, Sequences

CONSTANTS Blank,      \* the empty string
          Unset,      \* a key that the file does not have
          Malformed,  \* a file that cannot be read
          Spaced,     \* a value with a space between other characters
          Quoted,     \* a value that starts with its only quote
          Escaped,    \* a value with two backslashes inside
          Trailing    \* a value that ends in its only backslash

ASSUME EmptyIsPlain == Blank \notin {Spaced, Quoted, Escaped, Trailing}

\* The settings the start depends on.  Of a poll interval that parses as a
\* duration the number of seconds is kept; other values are not in Int.
Keys == {"email", "ankerPassword", "pollInterval", "host", "port", "user",
         "password", "database", "sslmode", "sslcert", "sslkey", "sslrootcert"}

Default(k) == CASE k = "pollInterval" -> 15
                [] k = "host" -> "localhost"
                [] k = "port" -> 5432
                [] k = "sslmode" -> "disable"
                [] OTHER -> Blank

\* An empty variable counts as absent, an empty value in the file does not.
Setting(dep, k) == IF dep.env[k] # Blank THEN dep.env[k]
                   ELSE IF dep.file[k] # Unset THEN dep.file[k]
                   ELSE Default(k)

Config(dep) == [k \in Keys |-> Setting(dep, k)]

Certificates(c) == {c.sslcert, c.sslkey, c.sslrootcert} \ {Blank}

\* With a client certificate the user and the password are optional.
UsingClientCert(c) == c.sslcert # Blank /\ c.sslkey # Blank

Validate(c, paths) ==
    /\ Blank \notin {c.email, c.ankerPassword, c.host, c.database}
    /\ UsingClientCert(c) \/ Blank \notin {c.user, c.password}
    /\ Certificates(c) # {} => /\ c.sslmode # "disable"
                               /\ c.sslcert = Blank <=> c.sslkey = Blank
                               /\ Certificates(c) \subseteq paths
    /\ c.pollInterval \in Int

LoadConfig(dep) == dep.file # Malformed /\ Validate(Config(dep), dep.paths)
------------------------------------------------------------------------------
(* The connection string, and pgx that reads it *)

Field(c, k) == [key |-> k, value |-> c[k]]

\* As Optional, if the field were always written.
Always(c, k) == <<Field(c, k)>>

\* A field that is left out if it has no value.
Optional(c, k) == IF c[k] = Blank THEN << >> ELSE <<Field(c, k)>>

GetDSN(c) == <<Field(c, "host"), Field(c, "port"), Field(c, "user"),
               Field(c, "database"), Field(c, "sslmode")>>
             \o Optional(c, "password") \o Optional(c, "sslcert")
             \o Optional(c, "sslkey") \o Optional(c, "sslrootcert")

\* How the driver comes to a field: as a "field" of its own; in the "text" of a
\* value, which ends where the field ends; "spoiled", with characters before the
\* key; or in a value that was "quoted".
Readings == {"field", "text", "spoiled", "quoted"}

\* How it comes to the next one, after a field with this value: it skips spaces
\* after "=", ends a value at a space that no backslash is before, and a quoted
\* value at a quote.
After(v) ==
    [r \in Readings |->
        IF r = "quoted" THEN IF v = Quoted THEN "spoiled" ELSE "quoted"
        ELSE CASE v = Spaced -> "spoiled"
               [] v = Trailing -> "text"
               [] r # "text" /\ v = Quoted -> "quoted"
               [] r # "text" /\ v = Blank -> "text"
               [] OTHER -> "field"]

Reading(dsn) ==
    LET reading[i \in DOMAIN dsn] ==
          IF i = 1 THEN "field" ELSE After(dsn[i - 1].value)[reading[i - 1]]
    IN reading

\* A line that ends in a quoted value, in a key without "=" or in a backslash.
Unreadable(dsn) ==
    LET n == Len(dsn)
    IN \/ After(dsn[n].value)[Reading(dsn)[n]] \in {"quoted", "spoiled"}
       \/ dsn[n].value = Trailing

\* The values that are not read as they are written.
Special == {Spaced, Quoted, Escaped, Trailing}

\* The fields the driver reads as they were meant, if it reads the line at all.
ReadAsMeant(dsn) ==
    IF Unreadable(dsn) THEN {}
    ELSE {dsn[i] : i \in {j \in DOMAIN dsn :
                             /\ Reading(dsn)[j] = "field"
                             /\ dsn[j].value \notin Special \cup {Blank}}}

ConnectionKeys == {"host", "port", "user", "database", "sslmode", "password",
                   "sslcert", "sslkey", "sslrootcert"}

Configured(c) == {Field(c, k) : k \in {j \in ConnectionKeys : c[j] # Blank}}

ConnectsAsConfigured(c) == ReadAsMeant(GetDSN(c)) = Configured(c)
==============================================================================
