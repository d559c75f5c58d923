--------------------------- MODULE MCCommandTable ---------------------------
(* The types and commands of the server, in the order main loads them,     *)
(* with their real hashes modulo 256.  Two pairs collide.  A name nobody   *)
(* registered may hash to any slot.                                        *)
EXTENDS CommandTable

Type(n) == [kind |-> "type", name |-> n]
Normal(n, type, format) == [kind |-> "normal", name |-> n, type |-> type, format |-> format]
Meta(n) == [kind |-> "meta", name |-> n, format |-> <<>>]

ServerStartup == <<
  Normal("load0", "", <<"S">>),
  Meta("del"),
  Type("string"),
  Type("hash"),
  Normal("set", "string", <<"W", "S">>),
  Normal("get", "string", <<"R">>),
  Normal("getset", "string", <<"M", "S">>),
  Normal("bitcount", "string", <<"R">>),
  Normal("bitpos", "string", <<"R", "S">>),
  Normal("strlen", "string", <<"R">>),
  Normal("mget", "string", <<"S", "|", "r", "|", "S">>),
  Normal("getrange", "string", <<"R", "S", "S">>),
  Normal("config", "", <<"S", "S">>),
  Normal("hget", "hash", <<"R", "S">>),
  Normal("hset", "hash", <<"W", "S", "S">>) >>

Stored ==
  "load0" :> 37 @@ "del" :> 186 @@ "set" :> 145 @@ "get" :> 133 @@ "getset" :> 17
  @@ "bitcount" :> 141 @@ "bitpos" :> 118 @@ "strlen" :> 157 @@ "mget" :> 114
  @@ "getrange" :> 114 @@ "config" :> 123 @@ "hget" :> 141 @@ "hset" :> 153
  @@ "string" :> 252 @@ "hash" :> 201

Unknown == [n \in {"unknown" \o ToString(h) : h \in 0 .. 255} |->
              CHOOSE h \in 0 .. 255 : n = "unknown" \o ToString(h)]

ServerHome == Stored @@ "load" :> 133 @@ Unknown
ServerRequests == DOMAIN ServerHome \ {"load0", "string", "hash"}
=============================================================================
