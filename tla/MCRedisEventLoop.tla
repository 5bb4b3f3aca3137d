---------------------------- MODULE MCRedisEventLoop ----------------------------
\* Themes for TLC: a few clients, the commands each of them uses, and what may
\* fail meanwhile.
EXTENDS RedisEventLoop

CONSTANTS k1, k2, c1, c2, c3, ch, pt, echo, draw, late

One == <<1>>
Two == <<2>>

Cmd(op) == [op |-> op, db |-> 0]
On(op, fields) == {Cmd(op) @@ f : f \in fields}
Sets(keys, vals) == On("SET", [key : keys, val : vals, cond : {""}, ttl : {0}])
Push(keys, vals) == On("PUSH", [key : keys, vals : vals, where : {"head"}])
Pop(keys) == On("POP", [key : keys, where : {"head"}])
Del(keys) == On("DEL", [keys : {<<k>> : k \in keys}])
Transaction == {Cmd("MULTI"), Cmd("EXEC")}
Scripts(op, ss) == On(op, [script : ss])
Nothing == {Cmd("PING")}

\* echo pushes what was there, draw takes a member at random and replicates its
\* effects, late writes after a random command.
Bodies ==
    [s \in {echo, draw, late} |->
        CASE s = echo -> [effects |-> FALSE, calls |-> SetToSeq(On("RPOPLPUSH", [key : {k1}, dst : {k2}]))]
          [] s = draw -> [effects |-> TRUE, calls |-> SetToSeq(Push({k1}, {<<One>>})) \o SetToSeq(Push({k2}, {<<Two>>}))]
          [] s = late -> [effects |-> FALSE, calls |-> SetToSeq(Pop({k1})) \o <<Cmd("RANDOMKEY") @@ [drawn |-> {}]>>
                                                       \o SetToSeq(Push({k2}, {<<One>>}))]]
MCBody == Bodies
MCMatches == [p \in {pt} |-> {ch}]

Base == [clients |-> {c1}, slave |-> FALSE, state |-> "off", policy |-> "everysec", admin |-> {},
         faults |-> {}, cmd |-> 4, fault |-> 0, seconds |-> 0]

Themes ==
    [blocking |-> [Base EXCEPT !.clients = {c1, c2, c3}, !.slave = TRUE,
                               !.fault = 1, !.faults = {"client"}]
        @@ [commands |-> c1 :> On("BPOP", [keys : {<<k1, k2>>}, where : {"head"}, timed : {TRUE}])
                      @@ c2 :> On("BRPOPLPUSH", [key : {k1}, dst : {k1, k2}, timed : {FALSE}])
                      @@ c3 :> (Push({k1, k2}, {<<One, Two>>})
                                \cup On("RENAME", [key : {k2}, dst : {k1}, nx : {FALSE}]) \cup Transaction)],
     chains |-> [Base EXCEPT !.clients = {c1, c2, c3}, !.slave = TRUE]
        @@ [commands |-> c1 :> On("BRPOPLPUSH", [key : {k1}, dst : {k2}, timed : {TRUE}])
                      @@ c2 :> (On("BRPOPLPUSH", [key : {k2}, dst : {k1}, timed : {FALSE}]) \cup Pop({k1}))
                      @@ c3 :> (Push({k1}, {<<One, Two>>}) \cup On("BPOP", [keys : {<<k2>>}, where : {"tail"}, timed : {FALSE}])
                                \cup Scripts("EVAL", {draw}))],
     watching |-> [Base EXCEPT !.clients = {c1, c2}, !.slave = TRUE, !.cmd = 5]
        @@ [commands |-> c1 :> ({Cmd("DISCARD"), Cmd("UNWATCH"), Cmd("BAD")} \cup Transaction
                                \cup On("WATCH", [keys : {{k1}, {k1, k2}}]) \cup Sets({k2}, {One}))
                      @@ c2 :> (Push({k1}, {<<One>>}) \cup Pop({k1}) \cup On("FLUSH", [all : {FALSE}])
                                \cup On("RENAME", [key : {k1}, dst : {k2}, nx : {FALSE}])
                                \cup On("BPOP", [keys : {<<k1>>}, where : {"head"}, timed : {FALSE}]))],
     watched |-> [Base EXCEPT !.clients = {c1, c2, c3}, !.cmd = 7]
        @@ [commands |-> c1 :> (Transaction \cup On("WATCH", [keys : {{k1}}]))
                      @@ c2 :> (Transaction \cup Push({k2}, {<<One>>}) \cup Scripts("EVAL", {draw})
                                \cup On("MOVE", [key : {k1}, to : {1}]) \cup On("SWAPDB", [a : {0}, b : {1}]))
                      @@ c3 :> On("BRPOPLPUSH", [key : {k2}, dst : {k1}, timed : {FALSE}])],
     scripts |-> [Base EXCEPT !.clients = {c1}, !.slave = TRUE, !.cmd = 5]
        @@ [commands |-> c1 :> (Scripts("EVAL", {draw, late}) \cup Scripts("EVALSHA", {echo})
                                \cup Scripts("SCRIPTLOAD", {echo}) \cup {Cmd("SCRIPTFLUSH")} \cup Transaction
                                \cup Push({k1}, {<<One>>}))],
     pubsub |-> [Base EXCEPT !.clients = {c1, c2}, !.slave = TRUE, !.fault = 1, !.faults = {"client"}]
        @@ [commands |-> c1 :> (On("SUBSCRIBE", [ch : {ch}]) \cup On("PSUBSCRIBE", [pat : {pt}])
                                \cup On("UNSUBSCRIBE", [ch : {ch}, all : {TRUE}])
                                \cup On("PUNSUBSCRIBE", [pat : {pt}, all : {FALSE}]) \cup {Cmd("QUIT")} \cup Transaction)
                      @@ c2 :> (On("PUBLISH", [ch : {ch}]) \cup Sets({k1}, {Two})
                                \cup On("WAIT", [need : {1, 2}, timed : {TRUE}]))],
     always |-> [Base EXCEPT !.state = "on", !.policy = "always", !.admin = {"rewrite"},
                             !.faults = {"power", "process", "write"}, !.fault = 1]
        @@ [commands |-> c1 :> (Push({k1}, {<<One>>, <<Two>>}) \cup Transaction)],
     everysec |-> [Base EXCEPT !.state = "on", !.faults = {"power", "process", "write"},
                               !.fault = 1, !.cmd = 3, !.seconds = 3]
        @@ [commands |-> c1 :> (Push({k1}, {<<One>>}) \cup Pop({k1}))],
     rewriting |-> [Base EXCEPT !.state = "on", !.admin = {"rewrite", "bgsave", "schedule"},
                                !.faults = {"child", "power"}, !.fault = 1, !.cmd = 3, !.seconds = 1]
        @@ [commands |-> c1 :> Push({k1}, {<<One>>})],
     resending |-> [Base EXCEPT !.state = "on", !.admin = {"rewrite"}, !.faults = {"child"}, !.fault = 1]
        @@ [commands |-> c1 :> (Push({k1}, {<<One>>}) \cup Scripts("EVAL", {echo}) \cup Scripts("EVALSHA", {echo}))],
     switching |-> [Base EXCEPT !.admin = {"rewrite", "bgsave", "save", "start", "stop", "shutdown"},
                                !.faults = {"child", "process"}, !.fault = 1]
        @@ [commands |-> c1 :> Push({k1}, {<<One>>})]]
MCSetup == Themes
MCTheme == DOMAIN Themes

=============================================================================
