--------------------------- MODULE MCOpaqueStore ---------------------------
(***************************************************************************)
(* Instances of OpaqueStore for TLC: the requests clients send in each run. *)
(***************************************************************************)
EXTENDS OpaqueStore

CONSTANTS a1, a2, v1, v2, o1, k1, k2, k3, e1, e2, e3, x, y

Env(rev, parent, body) == [rev |-> rev, parent |-> parent, body |-> body]
Req(v, s, env, expected, key) ==
    [vault |-> v, scope |-> s, envelope |-> env, expected |-> expected, key |-> key]

\* A client makes a new key for every revision it writes.
KeyOf(rev) == CASE rev = e1 -> k1 [] rev = e2 -> k2 [] rev = e3 -> k3

SizeOf == [b \in Bodies |-> IF b = x THEN 1 ELSE 2]
SmallTimes == 0 .. 4
NoLimit == [vaults |-> 9, objects |-> 9, patches |-> 9, revisions |-> 9, bytes |-> 99]

\* Retries: one object, revisions against right and wrong parents and
\* expectations, under two keys, the same bytes or others under the same
\* revision, and the first revision again as the successor of the second.
RetryRequests ==
    {Req(<<a1, v1>>, o1, env, expected, k) :
        env \in {Env(e2, e1, x), Env(e2, None, x), Env(e2, e1, y)},
        expected \in {None, e1}, k \in {k1, k2}}
    \cup {Req(<<a1, v1>>, o1, Env(e1, None, x), None, k1),
          Req(<<a1, v1>>, o1, Env(e1, e2, x), e2, k2)}

\* A log of three patches in one vault, with a fork.
ListRequests ==
    {Req(<<a1, v1>>, "patches", env, env.parent, KeyOf(env.rev)) :
        env \in {Env(e1, None, x), Env(e2, e1, x), Env(e3, e2, x), Env(e3, e1, x)}}

\* The other kinds of writes to the vault, a log that may fork, and writes to
\* another vault of the account and to one of another account.
OtherWrites ==
    {Req(<<a1, v1>>, "patches", env, env.parent, KeyOf(env.rev)) :
        env \in {Env(e1, None, x), Env(e2, e1, y), Env(e3, e1, y)}}
    \cup {Req(<<a1, v1>>, s, Env(e1, None, x), None, k1) : s \in {"metadata", "snapshot"}}
    \cup {Req(<<a1, v2>>, o1, Env(e1, None, x), None, k1),
          Req(<<a2, v1>>, "patches", Env(e1, None, y), None, k1)}
QuotaLimit == [vaults |-> 1, objects |-> 1, patches |-> 2, revisions |-> 3, bytes |-> 4]

WritesOfAll == RetryRequests \cup OtherWrites
=============================================================================
