-------------------------- MODULE MCHttpConnection --------------------------
(* Instances of HttpConnection for TLC.                                    *)
EXTENDS HttpConnection

Get(target) == [method |-> "get", target |-> target, body |-> "empty"]
Email(body) == [method |-> "post", target |-> "/email", body |-> body]
Other == [method |-> "put", target |-> "/email", body |-> "empty"]

(* Some of each kind, and those that are answered.                         *)
MCRequests == {Get("/count"), Get("/time"), Get("/else"), Email("object"), Email("no object"), Other}
MCAnswered == {Get("/count"), Email("object")}
AllPages == {"/count", "/time"}
OnePage == {"/count"}
Anything == {"close", "reset"}
Closing == {"close"}
=============================================================================
