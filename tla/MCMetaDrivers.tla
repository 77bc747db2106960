---------------------------- MODULE MCMetaDrivers ----------------------------
\* A node with two ssh keys that may name one line, a file, a service and the
\* border.
EXTENDS MetaDrivers
CONSTANTS k1, k2, r1, s1, b1, user, key1, key2, manual, path, unit1, unit2, t1, t2, f1, f2

MCKind(r) ==
    CASE r \in {k1, k2} -> "ssh_key" [] r = r1 -> "render" [] r = s1 -> "service" [] r = b1 -> "border"
MCDrivers == <<"ssh_key", "render", "service", "border">>
MCOneshot(t) == t = t2
Key(l) == [user |-> user, line |-> l, more |-> FALSE]
File(t) == [path |-> path, text |-> t, more |-> FALSE]
Service(u, t, on, m) == [unit |-> u, text |-> t, enabled |-> on, more |-> m]
Border(t, S) == [nat |-> t, forwards |-> S, more |-> FALSE]
MCWantedAs(r) ==
    CASE r = k1 -> {Key(key1)}
      [] r = k2 -> {Key(key1)}
      [] r = r1 -> {File(t1), File(t2)}
      [] r = s1 -> {Service(unit1, t1, TRUE, FALSE), Service(unit1, t1, FALSE, FALSE),
                  Service(unit1, t2, TRUE, TRUE), Service(unit2, t1, TRUE, FALSE)}
      [] r = b1 -> {Border(t1, {f1}), Border(t2, {f1, f2})}
MCFirstWant ==
    [r \in {k1, k2, r1, s1, b1} |->
        CASE r = k1 -> Key(key1)
          [] r = k2 -> Key(key1)
          [] r = r1 -> File(t1)
          [] r = s1 -> Service(unit1, t1, TRUE, FALSE)
          [] r = b1 -> Border(t1, {f1})]

\* The line of a key is changed, and no other names it.
KeyWantedAs(r) ==
    CASE r = k1 -> {Key(key1), Key(key2)} [] r = k2 -> {Key(key2)} [] OTHER -> {MCFirstWant[r]}
KeyFirstWant == [MCFirstWant EXCEPT ![k2] = None]
=============================================================================
