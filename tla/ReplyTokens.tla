---------------------------- MODULE ReplyTokens ----------------------------
(* The bridge's table of reply tokens (claude/channel-core, reply_token.rs):  *)
(* what a token stands for, for how long, and which token makes room.  The    *)
(* table is a sequence in the order of minting; an entry's age stands for     *)
(* now_ms - minted.                                                           *)
EXTENDS Naturals, Sequences, Functions

CONSTANTS
  Ttl,         \* ttl_ms, in ticks
  MaxTokens    \* max_tokens, at least 1

\* Where the reply goes (for a direct message its sender, known by the lease
\* epoch it wrote to; for a broadcast the channel), and the local lease.
DirectRoute(sender, epoch) == [kind |-> "direct", to |-> sender, epoch |-> epoch]
BroadcastRoute(channel) == [kind |-> "broadcast", to |-> channel, epoch |-> 0]

Live(table) == {table[i].token : i \in DOMAIN table}

RouteOf(table, token) == table[CHOOSE i \in DOMAIN table : table[i].token = token].route

\* The elements of a sequence that are in a set, in their order.
Filter(seq, set) ==
  LET first[n \in 0..Len(seq)] ==
        IF n = 0 THEN << >>
        ELSE IF seq[n] \in set THEN Append(first[n - 1], seq[n])
        ELSE first[n - 1]
  IN first[Len(seq)]

expire(table) == Filter(table, {e \in Range(table) : e.age < Ttl})

\* The oldest entries go until there is room for one.
MakeRoom(table) ==
  IF Len(table) < MaxTokens THEN table
  ELSE SubSeq(table, Len(table) - MaxTokens + 2, Len(table))

\* DuplicateToken leaves the live entry as it is.
mint(table, token, route) ==
  LET live == expire(table)
  IN IF token \in Live(live) THEN live
     ELSE Append(MakeRoom(live), [token |-> token, route |-> route, age |-> 0])

\* The answer to a token, and why there is none.
resolve(table, token, epoch, joined) ==
  LET live == expire(table)
      route == RouteOf(live, token)
  IN IF token \notin Live(live) THEN "Unknown"
     ELSE IF route.kind = "direct" /\ route.epoch # epoch THEN "StaleLease"
     ELSE IF route.kind = "broadcast" /\ route.to \notin joined THEN "ChannelNotJoined"
     ELSE "Route"

Older(table) == [i \in DOMAIN table |->
                   [table[i] EXCEPT !.age = IF @ < Ttl THEN @ + 1 ELSE @]]
=============================================================================
