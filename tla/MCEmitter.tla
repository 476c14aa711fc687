----------------------------- MODULE MCEmitter -----------------------------
(* Small sets of inputs for Emitter.                                       *)
EXTENDS EmitterProperties

request(id, path) == [id |-> id, type |-> "request", path |-> path]
response(id) == [id |-> id, type |-> "response", path |-> ""]

input(name, stoppable) ==
    [name |-> name, kind |-> "input", stoppable |-> stoppable, limited |-> FALSE]
output(name) == [input(name, FALSE) EXCEPT !.kind = "output"]
limited(plugin) == [plugin EXCEPT !.limited = TRUE]

\* A DubboInput, and an HttpInput with requests to filter, into two outputs; a third
\* output has a limit
HttpAndDubbo ==
    <<input("dubbo", FALSE), input("http", TRUE),
      limited(output("stdout")), output("requests"), output("responses")>>
HttpTraffic ==
    [http |-> {request("a", "/status"), request("b", "/api/debug"), response("a"),
               request("c", "/api/order")}]
HttpMaxRead == [http |-> 4]
Api == {{"/api/debug", "/api/order"}, {"/rpc"}}
Debug == {{"/api/debug"}}

\* The input of the README's first example
DubboToFile == <<input("dubbo", FALSE), output("file")>>
NoTraffic == [i \in {} |-> {}]
NoMaxRead == [i \in {} |-> 0]
=============================================================================
