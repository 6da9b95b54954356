----------------------------- MODULE MCHistory -----------------------------
(* Instances of History.                                                   *)
EXTENDS History

CONSTANTS k1, k2, t1, t2, l1, l2

\* Flags, texts, lists and records; two of the lists have the same text.
MCVals == {TRUE, FALSE, t1, t2, l1, l2}
MCText == [v \in {l1, l2} |-> t2]

R(k, v) == [key |-> k, val |-> v]
D(a, b, c, d, e) ==
    [dnsmasq_enabled |-> a, unbound_enabled |-> b, hostname |-> c, servers |-> d, webgui |-> e]
C(rules, aliases, dns, pkgs) == [rules |-> rules, aliases |-> aliases, dns |-> dns, pkgs |-> pkgs]
P(t, h) == [telegraf |-> t, haproxy |-> h]

\* From one to the other rules are removed, and moved and changed at once; aliases
\* come and go, two of them with the same key; fields are set, changed and unset, one
\* to a value with the same text; packages and a record in the record change.
MCConfigs ==
    {C(<<R(k1, t1), R(k2, t1)>>, <<R(k1, t1), R(k2, t1), R(k2, t2)>>, D(TRUE, FALSE, None, l1, t1),
       P(t1, <<R(k1, t1)>>)),
     C(<<R(k2, t2)>>, <<R(k2, t1)>>, D(FALSE, TRUE, t2, l2, t2), P(t2, <<>>))}

\* Configurations for the properties of the diff itself.
MCSamples ==
    {C(rules, aliases, dns, pkgs) :
        rules \in {<<>>, <<R(k1, t1), R(k2, t1)>>, <<R(k2, t1), R(k1, t1)>>, <<R(k1, t1), R(k1, t2)>>,
                   <<R(k1, t2), R(k1, t2)>>},
        aliases \in {<<R(k1, t1)>>, <<R(k1, t1), R(k2, t1)>>, <<R(k2, t1), R(k1, t1)>>,
                     <<R(k1, t2), R(k1, t1)>>},
        dns \in {None, D(TRUE, FALSE, t1, l1, None), D(TRUE, FALSE, t1, l2, t1), D(FALSE, FALSE, None, l2, t2)},
        pkgs \in {None, P(None, None), P(t1, <<>>), P(t2, <<R(k1, t1), R(k1, t2)>>), P(t2, <<R(k1, t2)>>)}}
============================================================================
