------------------------------ MODULE MCKernel ------------------------------
(***************************************************************************)
(* Small instances of Kernel for TLC: who may receive from and send to     *)
(* which endpoint.                                                         *)
(***************************************************************************)
EXTENDS Kernel

\* Task 1 receives on every endpoint; everybody may send.  In the system several
\* tasks hold R_READ on a service endpoint (the kernel gives initfs all of them,
\* to pass on to the servers it starts), but of the holders only the one that
\* runs the server's program ever makes a receive.
OneServerRecv == [t \in Tids |-> IF t = 1 THEN Eps ELSE {}]
EveryoneSends == [t \in Tids |-> Eps]

\* Tasks 1 and 2 both receive on every endpoint.
TwoServersRecv == [t \in Tids |-> IF t <= 2 THEN Eps ELSE {}]

\* Task e + 1 serves endpoint e: two servers that are each other's clients.
ServerPerEndpoint == [t \in Tids |-> IF t - 1 \in Eps THEN {t - 1} ELSE {}]

=============================================================================
