------------------------------- MODULE MCRedis -------------------------------
(* The keys, the consoles and the links of a Redis connection share        *)
(* nothing but the server: a session works with one of them.               *)
EXTENDS RedisKeys, RedisCli, Links
CONSTANTS a, b, x, y, z, one, two, here, there
VARIABLE page

Key(kind, at) == [kind |-> kind, at |-> at, expires |-> FALSE]
Elements(s) == [i \in 0..(Len(s) - 1) |-> s[i + 1]]
(* A list of two pages beside a key of another kind, or none. *)
MCStores ==
  {[k \in Names |-> IF k = a THEN Key("list", Elements(<<x, y>>))
                    ELSE IF kind = None THEN None ELSE Key(kind, Elements(<<x, y>>))] :
     kind \in {"hash", "stream", None}}
MCPatterns == {{a, b}, {b}}
(* Two statements, a line end in quotes, a command in quotes. *)
MCTyped ==
  {<<Danger>>, <<Clear>>, <<Safe, Newline, Danger, Safe>>, <<Safe, Quote, Newline, Danger, Quote>>,
   <<Quote, Danger, Quote>>}

(* Two keys that a link leads between, one that is too short for a pattern *)
(* with the same symbol on both sides of its star.                         *)
MCKeys == {<<a, x>>, <<b, x>>, <<a>>}
MCContents ==
  [k \in MCKeys |->
     [text |-> IF k = <<a>> THEN <<x>> ELSE <<>>,
      fields |-> IF k = <<a, x>> THEN (z :> <<x>>) ELSE [f \in {} |-> <<x>>],
      elements |-> IF k = <<b, x>> THEN {<<x>>} ELSE {}]]
RedisEnd(conn, scope, field) == [conn |-> conn, kind |-> "redis", scope |-> scope, field |-> field]
TableEnd == [conn |-> there, kind |-> "postgres", scope |-> y, field |-> z]
Link(id, source, extract, target) == [id |-> id, source |-> source, extract |-> extract, target |-> target]

UsersToOrders == Link(101, RedisEnd(here, <<a, Star>>, NoValue), "key_capture", RedisEnd(here, <<b, Star>>, NoValue))
SameEnds == Link(102, RedisEnd(here, <<a, Star, a>>, NoValue), "key_capture", RedisEnd(here, <<b, Star>>, NoValue))
FieldToTable == Link(103, RedisEnd(here, <<a, Star>>, z), "value_field", TableEnd)
TextAway == Link(104, RedisEnd(here, <<a>>, NoValue), "string_value", RedisEnd(there, <<b, Star>>, NoValue))
MemberToUsers == Link(105, RedisEnd(here, <<b, Star>>, NoValue), "member", RedisEnd(here, <<a, Star>>, NoValue))
SelectionToUsers == Link(106, RedisEnd(here, <<b, Star>>, NoValue), "selection", RedisEnd(here, <<a, Star>>, NoValue))
RowsToUsers == Link(107, TableEnd, NoValue, RedisEnd(here, <<a, Star>>, NoValue))

MCStoredLinks ==
  {<<>>, <<UsersToOrders, SameEnds, FieldToTable>>, <<TextAway, UsersToOrders>>,
   <<MemberToUsers, SelectionToUsers, RowsToUsers>>}
MCDrafts == {UsersToOrders, [SelectionToUsers EXCEPT !.source.field = z]}

MCInit ==
  /\ KeysInit /\ CliInit /\ LinksInit /\ page \in {"keys", "console", "links"}
  /\ page # "keys" => ~readOnly /\ stored = CHOOSE s \in Stores : TRUE
  /\ page # "links" => key = NoValue /\ saved = <<>>
MCNext ==
  \/ page = "keys" /\ KeysNext /\ UNCHANGED <<cliVars, linkVars, page>>
  \/ page = "console" /\ CliNext /\ UNCHANGED <<keyVars, linkVars, page>>
  \/ page = "links" /\ LinksNext /\ UNCHANGED <<keyVars, cliVars, page>>
MCSpec == MCInit /\ [][MCNext]_<<keyVars, cliVars, linkVars, page>>
=============================================================================
