----------------------------- MODULE MCActivity -----------------------------
(* A small instance of ActivityLog: a token is used, and revoked.          *)
EXTENDS ActivityLog

Ask(path, ip, cred, answer) ==
    [path |-> path, excluded |-> FALSE, ip |-> ip, cred |-> cred, ua |-> "plain", method |-> "GET", answer |-> answer]
ByToken == {Ask("api1", "i1", "k", 200), Ask("page", "i1", "ann", 200)}
Plain == {[u \in Users |-> [there |-> TRUE, joined |-> 0, theme |-> "dark", palette |-> ""]]}
=============================================================================
