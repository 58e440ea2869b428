------------------------------ MODULE MCSession ------------------------------
(* The simple protocol with its failures, and the extended one with one    *)
(* statement that is parsed again or closed under a portal.                *)
EXTENDS Session

CONSTANTS begin, commit, select, other, empty, st, unnamed

MCNames    == {st, unnamed}
MCTexts    == {begin, commit, select, other, empty}
MCBegins   == {begin}
MCEnds     == {commit}
MCOutcomes == [t \in MCTexts |-> IF t = select THEN {"rows", "fail", "drop"}
                                ELSE IF t = begin THEN {"tag", "fail"} ELSE {"tag"}]

Q(t)       == [Plain("Query") EXCEPT !.text = t]
P(n, t)    == [Plain("Parse") EXCEPT !.name = n, !.text = t]
B(p, n)    == [Plain("Bind") EXCEPT !.name = p, !.from = n]
E(p)       == [Plain("Execute") EXCEPT !.name = p]
D(o, n)    == [Plain("Describe") EXCEPT !.name = n, !.on = o]
C(o, n)    == [Plain("Close") EXCEPT !.name = n, !.on = o]
Bad(m)     == [m EXCEPT !.ok = FALSE]

Simple == {Q(begin), Q(commit), Q(select), Q(empty), Plain("Sync"), Plain("Terminate")}
Prepared == {P(st, select), P(st, other), B(unnamed, st), E(unnamed), C("S", st), C("P", unnamed)}
Asked  == {P(st, select), B(unnamed, st), E(unnamed), D("S", st), D("P", unnamed), D("other", st), Plain("Sync"),
           Plain("Flush")}
Broken == {B(st, unnamed), E(st), D("S", st), Plain("Unknown"), Plain("garbage"), Bad(P(st, other)),
           Bad(B(st, st)), Bad(D("S", st)), Bad(E(st)), Bad(C("S", st))}
Failed == {Q(begin), Q(select)}

Client(msgs, n, pipeline) == [tls |-> FALSE, opening |-> {"startup"}, messages |-> msgs,
                              limit |-> n, pipeline |-> pipeline]

(* One that pipelines the simple protocol, with and without TLS; one that  *)
(* sends its startup message and queries along with SSLRequest to a server *)
(* with TLS; one that prepares, binds, parses again and executes; one that *)
(* describes; one that sends broken messages and names what does not exist.*)
SimpleClient(secure) == [Client(Simple, 4, 2) EXCEPT !.tls = secure, !.opening = {"ssl", "startup", "garbage"}]
HastyClient          == [Client({Q(select)}, 6, 3) EXCEPT !.tls = TRUE, !.opening = {"ssl", "startup"}]
AllDrivers    == {SimpleClient(TRUE), SimpleClient(FALSE), HastyClient,
                  Client(Prepared, 5, 1), Client(Asked, 4, 1), Client(Broken, 4, 1)}
FailedDrivers == {Client(Failed, 3, 2)}
=============================================================================
