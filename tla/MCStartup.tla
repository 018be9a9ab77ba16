------------------------------- MODULE MCStartup -------------------------------
(***************************************************************************)
(* Instance of Startup for TLC: deployments by password, by certificate,   *)
(* with settings in either place or both, and ones that are not accepted   *)
(* or that cannot get as far as the first poll.                            *)
(***************************************************************************)
EXTENDS Startup

CONSTANTS secret, name, cert, certKey, root, NoDuration

\* Settings given in the environment or in the file, the rest left out.
Env(f) == [k \in Keys |-> IF k \in DOMAIN f THEN f[k] ELSE Blank]
File(f) == [k \in Keys |-> IF k \in DOMAIN f THEN f[k] ELSE Unset]
Deploy(env, file) == [env |-> Env(env), file |-> File(file),
                      paths |-> {cert, certKey, root}]

Account == [email |-> name, ankerPassword |-> secret, database |-> name]
Login == [user |-> name, password |-> secret]
Client == [sslmode |-> "verify-full", sslcert |-> cert, sslkey |-> certKey]
With(f, k, v) == [j \in DOMAIN f \cup {k} |-> IF j = k THEN v ELSE f[j]]
Both(f, g) == [k \in DOMAIN f \cup DOMAIN g |->
                  IF k \in DOMAIN f THEN f[k] ELSE g[k]]

\* Accepted, and the exporter can work with them.
Working ==
    {Deploy(Both(Account, Login), With(Login, "pollInterval", 60)),
     Deploy(Both(Account, Login), With(Account, "email", Blank)),
     Deploy(With(Account, "user", name), With(Client, "sslrootcert", root))}

\* Accepted, but with an interval that is not positive.
Useless == {Deploy(With(Both(Account, Login), "pollInterval", 0), Account),
            Deploy(With(Both(Account, Login), "pollInterval", -5), Account)}

\* Every kind of value in each field of the connection string, and in the user
\* and the password, with and without a client certificate.
Values == Special \cup {Blank, name}
Certified(path) == With(With(Client, "sslcert", path), "sslrootcert", root)
Misread ==
    {Deploy(With(Account, "database", Blank),
            With(With(Login, "database", name), k, v)) :
        k \in {"host", "database", "sslmode"}, v \in Values \ {name}}
    \cup
    {[Deploy(Account, Both([user |-> f[1], password |-> f[2]], g))
        EXCEPT !.paths = @ \cup Special] :
        f \in {f \in Values \X Values :
                 f[1] = Blank \/ {f[1], f[2]} \cap Special # {}},
        g \in {<< >>, Certified(cert), Certified(Spaced), Certified(Trailing)}}

\* Not accepted.
Rejected ==
    {[Deploy(Account, Login) EXCEPT !.file = Malformed],
     [Deploy(With(Account, "user", name), Client) EXCEPT !.paths = {cert}],
     Deploy(With(Account, "email", Blank), Login),
     Deploy(Account, With(Login, "password", Blank)),
     Deploy(Both(Account, Login), With(Client, "sslkey", Blank)),
     Deploy(Both(Account, Login), [sslrootcert |-> root]),
     Deploy(With(Both(Account, Login), "pollInterval", NoDuration), Account)}

AllDeployments == Working \cup Useless \cup Misread \cup Rejected
==============================================================================
