--------------------------- MODULE MCRedisKeyspace ---------------------------
\* An instance of RedisKeyspace for TLC: per theme, the commands of a few
\* clients on a few keys.  The values are chosen so that the limits are met:
\* the smallest and largest numbers, the longest string, the last bit, ties of
\* scores, ranges that are empty, crossed or beyond the end.
EXTENDS RedisKeyspace

CONSTANTS k1, k2, k3, k4

One == <<1>>
Two == <<2>>

On(op, fields) == {[op |-> op, db |-> 0] @@ f : f \in fields}

MCTheme == {"keys", "strings", "numbers", "bits", "lists", "sort", "sets", "hashes", "zsets",
            "ranges", "unions", "geo", "hll"}
MCWeightKey == [e \in {<<>>, One, Two} |-> CASE e = <<>> -> k1 [] e = One -> k3 [] e = Two -> k4]

Keys == [key : {k1, k2}]
SetAny(ttls) == On("SET", [key : {k1, k2}, val : {One}, cond : {""}, ttl : ttls])
ExpireAny == On("EXPIRE", [key : {k1}, at : {FALSE}, time : {0, 1}])
DelAny == On("DEL", [keys : {<<k1>>, <<k1, k2>>}])

Commands_keys ==
    On("SET", [key : {k1}, val : {One}, cond : {""}, ttl : {0, 1}]) \cup DelAny
    \cup On("EXPIRE", [key : {k2}, at : BOOLEAN, time : {0, 1}])
    \cup On("PERSIST", [key : {k1}])
    \cup On("RENAME", [key : {k1}, dst : {k1, k2}, nx : BOOLEAN])
    \cup On("RENAME", [key : {k2}, dst : {k1}, nx : {FALSE}])
    \cup On("MOVE", [key : {k1}, to : {0, 1}])
    \cup On("SWAPDB", [a : {0}, b : {1}])
    \cup On("FLUSH", [all : BOOLEAN])
    \cup On("EXISTS", [keys : {<<k1, k2>>}])
    \cup On("TTL", [key : {k1}])
    \cup On("RANDOMKEY", [drawn : {{k1}, {k1, k2}}])
    \cup On("RESTORE", [key : {k2}, type : {"string"}, val : {One}, ttl : {-1, 0, 1}, replace : BOOLEAN])

Commands_strings ==
    SetAny({-1, 0, 1}) \cup ExpireAny
    \cup On("SET", [key : {k1}, val : {Two}, cond : {"nx", "xx"}, ttl : {0, 1}])
    \cup On("GET", Keys)
    \cup On("GETSET", [key : {k1}, val : {Two}])
    \cup On("SETRANGE", [key : {k1}, offset : {-1, 0, 1, 2}, val : {<<>>, One}])
    \cup On("GETRANGE", [key : {k1}, start : -3..2, end : -3..2])
    \cup On("MGET", [keys : {<<k1, k2>>}])
    \cup On("MSET", [pairs : {<<<<k1, Two>>, <<k2, One>>>>}, nx : BOOLEAN])
    \cup On("APPEND", [key : {k1, k2}, val : {One}])
    \cup On("STRLEN", Keys)
    \cup On("PUSH", [key : {k2}, vals : {<<One>>}, where : {"head"}])

Commands_numbers ==
    SetAny({0, 1}) \cup ExpireAny
    \cup On("APPEND", [key : {k1}, val : {One}])
    \cup On("INCRBY", [key : {k1, k2}, incr : {-1, 1}])
    \cup On("INCRBYFLOAT", [key : {k1, k2}, incr : {-1, 1}])

Commands_bits ==
    ExpireAny
    \cup On("SETBIT", [key : {k1, k2}, offset : {-1, 0, 3, 4}, on : {0, 1}])
    \cup On("GETBIT", [key : {k1}, offset : {0, 3, 4}])
    \cup On("BITOP", [bop : {"and", "or", "xor", "not"}, dst : {k1}, keys : {<<k2>>, <<k1, k2>>}])
    \cup On("BITCOUNT", [key : {k1}, start : {-2, 0, 1}, end : {-3, 0, 2}])
    \cup On("BITPOS", [key : {k1}, bit : {0, 1}, start : {-1, 0, 1}, end : {None, -1, 0}])
    \cup On("BITFIELD", [key : {k1}, kind : {"get", "set", "incrby"}, offset : {1}, bits : {2},
                         sign : BOOLEAN, ow : {"wrap", "sat", "fail"}, value : {-3, 1, 3}])

PushAny == On("PUSH", [key : {k1, k2}, vals : {<<One>>, <<One, Two>>}, where : {"head", "tail"}])

Commands_lists ==
    PushAny \cup ExpireAny
    \cup On("PUSHX", [key : {k1}, vals : {<<Two>>}, where : {"head", "tail"}])
    \cup On("LINSERT", [key : {k1}, where : {"before", "after"}, pivot : {Two}, val : {One}])
    \cup On("LLEN", Keys)
    \cup On("LINDEX", [key : {k1}, index : {-2, 0, 1}])
    \cup On("LSET", [key : {k1}, index : {-1, 0, 3}, val : {Two}])
    \cup On("POP", [key : {k1, k2}, where : {"head", "tail"}])
    \cup On("LRANGE", [key : {k1}, start : -4..3, end : -4..3])
    \cup On("LTRIM", [key : {k1}, start : {-2, 0, 1}, end : {-1, 0, 5}])
    \cup On("LREM", [key : {k1}, count : {-1, 0, 1}, val : {One}])
    \cup On("RPOPLPUSH", [key : {k1, k2}, dst : {k1, k2}])

\* BY with ALPHA on a set that is stored is left out where weights may be equal.
Commands_sort ==
    On("SADD", [key : {k1}, vals : {<<One>>, <<Two>>}])
    \cup On("PUSH", [key : {k2}, vals : {<<Two, One>>}, where : {"tail"}])
    \cup On("SET", [key : {k3}, val : {One}, cond : {""}, ttl : {1}])
    \cup On("SET", [key : {k4}, val : {One, Two}, cond : {""}, ttl : {0}])
    \cup On("SORT", [key : {k1}, by : {"", "nosort"}, alpha : BOOLEAN, desc : BOOLEAN, offset : {0},
                     count : {-1}, get : BOOLEAN, dst : {k2}])
    \cup On("SORT", [key : {k1}, by : {"pattern"}, alpha : {FALSE}, desc : BOOLEAN, offset : {-1, 1},
                     count : {1}, get : {FALSE}, dst : {k2}])
    \cup On("SORT", [key : {k2}, by : {"pattern"}, alpha : BOOLEAN, desc : {TRUE}, offset : {0},
                     count : {-1, 1}, get : BOOLEAN, dst : {k2, None}])

Commands_sets ==
    SetAny({0}) \cup ExpireAny
    \cup On("SADD", [key : {k1, k2}, vals : {<<One>>, <<Two>>, <<Two, <<3>>>>}])
    \cup On("SREM", [key : {k1, k2}, vals : {<<One>>, <<Two, <<3>>>>}])
    \cup On("SMOVE", [key : {k1, k2}, dst : {k1, k2}, val : {One}])
    \cup On("SISMEMBER", [key : {k1}, val : {Two}])
    \cup On("SCARD", Keys)
    \cup On("SPOP", [key : {k1}, drawn : {{One}, {Two}}])
    \cup On("SPOPCOUNT", [key : {k1}, count : {0, 1, 2}, drawn : SUBSET {One, Two, <<3>>}])
    \cup On("SINTER", [keys : {<<k1, k2>>, <<k3, k2>>}, dst : {None, k2}])
    \cup On("SUNIONDIFF", [sop : {"union", "diff"}, keys : {<<k1, k2>>, <<k3, k2>>, <<k1, k3, k2>>}, dst : {None, k1, k3}])

Commands_hashes ==
    SetAny({0}) \cup ExpireAny
    \cup On("HSETNX", [key : {k1}, field : {One}, val : {<<0>>, One}])
    \cup On("HSET", [key : {k1, k2}, pairs : {<<<<One, <<3>>>>>>, <<<<Two, One>>, <<One, One>>>>}])
    \cup On("HINCRBY", [key : {k1, k2}, field : {One}, incr : {-1, 1}])
    \cup On("HINCRBYFLOAT", [key : {k1}, field : {One, Two}, incr : {1}])
    \cup On("HMGET", [key : {k1}, fields : {<<One, Two>>}])
    \cup On("HDEL", [key : {k1, k2}, fields : {<<One>>, <<Two, One>>}])
    \cup On("HGETALL", Keys)

Zadd(keys, members, scores, conds, incrs) ==
    On("ZADD", [key : keys, pairs : {<<<<m, s>>>> : m \in members, s \in scores}, cond : conds, incr : incrs])
Ends == {<<FALSE, FALSE>>, <<TRUE, FALSE>>, <<FALSE, TRUE>>}
Ranges == [by : {"score"}, min : {-Inf, 0, 1}, max : {0, 1, Inf}, ends : Ends]
          \cup [by : {"lex"}, min : {-Inf, 2}, max : {1, 2, Inf}, ends : Ends]

Commands_zsets ==
    ExpireAny
    \cup Zadd({k1, k2}, {One, Two}, {0, 1}, {""}, {FALSE})
    \cup Zadd({k1}, {One}, {1, Inf, -Inf}, {"", "nx", "xx"}, BOOLEAN)
    \cup On("ZREM", [key : {k1}, vals : {<<One>>, <<One, Two>>}])
    \cup On("ZRANK", [key : {k1}, val : {One, Two}, reverse : BOOLEAN])
    \cup On("SET", [key : {k2}, val : {One}, cond : {""}, ttl : {0}])

Commands_ranges ==
    Zadd({k1}, {One, Two, <<3>>}, {0, 1}, {""}, {FALSE})
    \cup On("ZREMRANGE", [key : {k1}, range : Ranges \cup [by : {"rank"}, min : {-2, 0, 1}, max : {-1, 0, 4}, ends : {<<FALSE, FALSE>>}]])
    \cup On("ZRANGE", [key : {k1}, start : -4..3, end : -4..3, reverse : BOOLEAN])
    \cup On("ZRANGEBY", [key : {k1}, range : Ranges, reverse : BOOLEAN, offset : {0, 1}, count : {-1, 1}])
    \cup On("ZCOUNT", [key : {k1}, range : Ranges])

Commands_unions ==
    Zadd({k1}, {One, Two}, {1}, {""}, {FALSE})
    \cup Zadd({k2}, {One}, {-1, Inf}, {""}, {FALSE})
    \cup On("SADD", [key : {k3}, vals : {<<Two>>}])
    \cup On("ZUNIONINTER", [zop : {"union", "inter"}, dst : {k1}, keys : {<<k1, k2>>, <<k1, k3>>},
                            weights : {<<1, 0>>, <<-1, 1>>}, aggregate : {"sum", "min", "max"}])

Commands_geo ==
    ExpireAny
    \cup On("GEOADD", [key : {k1, k2}, pairs : {<<<<m, s>>>> : m \in {One, Two}, s \in {0, 1}}])
    \cup On("GEORADIUS", [key : {k1, k2}, centre : {0}, radius : {0, 1}, count : {0, 1}, dst : {None, k1, k2}, storedist : BOOLEAN])

Commands_hll ==
    ExpireAny
    \cup On("PFADD", [key : {k1, k2}, vals : {<<>>, <<One>>, <<One, Two>>}])
    \cup On("PFCOUNT", [keys : {<<k1>>, <<k2>>, <<k1, k2>>}])
    \cup On("PFMERGE", [key : {k1}, keys : {<<>>, <<k2>>, <<k1, k2>>}])

MCCommands ==
    [t \in Theme |->
        CASE t = "keys" -> Commands_keys       [] t = "strings" -> Commands_strings
          [] t = "numbers" -> Commands_numbers [] t = "bits" -> Commands_bits
          [] t = "lists" -> Commands_lists     [] t = "sort" -> Commands_sort
          [] t = "sets" -> Commands_sets       [] t = "hashes" -> Commands_hashes
          [] t = "zsets" -> Commands_zsets     [] t = "ranges" -> Commands_ranges
          [] t = "unions" -> Commands_unions   [] t = "geo" -> Commands_geo
          [] t = "hll" -> Commands_hll]
=============================================================================
