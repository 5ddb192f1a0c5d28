---------------------------- MODULE WebhookLink ----------------------------
(***************************************************************************)
(* Two SmallStack instances linked by webhooks: the pairing that creates   *)
(* an endpoint and a receiver on each side, secret rotation, the model     *)
(* write that fires an event, the post to the peer's receiver, the checks  *)
(* and the receipt of incoming_webhook, and the handler run by             *)
(* dispatch_incoming with its loop guard.  Claiming and backing off of one *)
(* delivery are in WebhookDelivery; here a failed attempt is tried again.  *)
(*                                                                         *)
(* A URL is <<host, slug>>; a slug is a number, 0 the one an operator typed.*)
(***************************************************************************)
EXTENDS Integers, Sequences, FiniteSets

CONSTANTS
    A, B,            \* the two instances
    Inbound,         \* instances with SMALLSTACK_WEBHOOKS_INBOUND
    Handlers,        \* what the instances may register: functions from Nodes to
                     \* "none", "plain" or "cascade"
    MaxWrites, MaxPairs, MaxRotations, MaxFaults,      \* bounds
    MaxDeliveries,   \* bound: delivery rows on both instances
    MaxAttempts,     \* SMALLSTACK_WEBHOOK_MAX_ATTEMPTS
    RejectLimit      \* SMALLSTACK_WEBHOOK_REJECTED_PER_MINUTE

Nodes == {A, B}
Peer(n) == IF n = A THEN B ELSE A
NoSecret == 0
NoOrigin == ""      \* ignore_origin left blank
NoCmd == [printed |-> FALSE]

VARIABLES
    ep,        \* instance -> target URL -> [secret, on]: paired WebhookEndpoints
    rec,       \* instance -> slug -> [secret, on, require, ignore]: WebhookReceivers
    cmd,       \* the mirror command the instance printed last
    mirrored,  \* history: the peer has run that command, still current, and nothing changed since
    dl,        \* deliveries, in the order they were created
    receipts,  \* WebhookReceipt rows, in order
    rejected,  \* instance -> REJECTED receipts of the last minute
    handler,   \* instance -> the handler registered at start-up
    budget     \* what is left of the bounds, and the last secret generated

wlVars == <<ep, rec, cmd, mirrored, dl, receipts, rejected, handler, budget>>
conf == <<ep, rec, cmd, mirrored, handler>>

Init ==
    /\ ep = [n \in Nodes |-> << >>] /\ rec = [n \in Nodes |-> << >>]
    /\ cmd = [n \in Nodes |-> NoCmd] /\ mirrored = [n \in Nodes |-> FALSE]
    /\ dl = << >> /\ receipts = << >> /\ rejected = [n \in Nodes |-> 0]
    /\ handler \in Handlers
    /\ budget = [writes |-> MaxWrites, pairs |-> MaxPairs, rotations |-> MaxRotations,
                 faults |-> MaxFaults, secret |-> NoSecret]

Put(f, x, v) == [y \in DOMAIN f \cup {x} |-> IF y = x THEN v ELSE f[y]]
Spend(what) == budget[what] > 0 /\ budget' = [budget EXCEPT ![what] = @ - 1]

(***************************************************************************)
(* Pairing and secrets.                                                    *)
(***************************************************************************)
\* A digest of the target URL: stable, different for different URLs, never typed.
pairing_slug(url) == 1 + 2 * url[2] + (IF url[1] = A THEN 0 ELSE 1)

\* A given secret, else the one the row has, else a generated one.
SecretOf(given, rows, x, fresh) ==
    IF given # NoSecret THEN given ELSE IF x \in DOMAIN rows THEN rows[x].secret ELSE fresh

pair_smallstack(n, target, send, recv, oneWay) ==
    LET slug  == pairing_slug(target)
        sendS == SecretOf(send, ep[n], target, budget.secret + 1)
        recvS == SecretOf(recv, rec[n], slug, budget.secret + 2)
    IN  /\ budget.pairs > 0
        /\ budget' = [budget EXCEPT !.pairs = @ - 1, !.secret = @ + 2]
        /\ ep' = [ep EXCEPT ![n] = Put(@, target, [secret |-> sendS, on |-> TRUE])]
        /\ IF oneWay THEN UNCHANGED <<rec, cmd>>
           ELSE /\ rec' = [rec EXCEPT ![n] = Put(@, slug, [secret |-> recvS, on |-> TRUE,
                                                         require |-> TRUE, ignore |-> n])]
                /\ cmd' = [cmd EXCEPT ![n] = [printed |-> TRUE, target |-> <<n, slug>>,
                                              send |-> recvS, recv |-> sendS, to |-> target]]
        /\ UNCHANGED <<dl, receipts, rejected, handler>>

\* "sc webhook pair --target" by the operator, or the dashboard's form.
PairCommand(n, oneWay) ==
    /\ pair_smallstack(n, <<Peer(n), 0>>, NoSecret, NoSecret, oneWay)
    /\ mirrored' = [m \in Nodes |-> FALSE]

Receiver(url) == url[1] \in Inbound /\ url[2] \in DOMAIN rec[url[1]] /\ rec[url[1]][url[2]].on

\* The printed command still carries this instance's secrets: nothing rotated since.
Current(n) ==
    /\ cmd[n].recv = ep[n][cmd[n].to].secret
    /\ Receiver(cmd[n].target) /\ cmd[n].send = rec[n][cmd[n].target[2]].secret

\* The peer runs the printed mirror command as it stands.
MirrorCommand(n) ==
    /\ cmd[n].printed
    /\ pair_smallstack(Peer(n), cmd[n].target, cmd[n].send, cmd[n].recv, FALSE)
    /\ mirrored' = [m \in Nodes |-> m = n /\ Current(n)]

rotate_secret(n) ==
    \E u \in DOMAIN ep[n] :
        /\ budget.rotations > 0
        /\ budget' = [budget EXCEPT !.rotations = @ - 1, !.secret = @ + 1]
        /\ ep' = [ep EXCEPT ![n][u].secret = budget.secret + 1]
        /\ mirrored' = [m \in Nodes |-> FALSE]
        /\ UNCHANGED <<rec, cmd, dl, receipts, rejected, handler>>

rotate_receiver_secret(n) ==
    \E s \in DOMAIN rec[n] :
        /\ budget.rotations > 0
        /\ budget' = [budget EXCEPT !.rotations = @ - 1, !.secret = @ + 1]
        /\ rec' = [rec EXCEPT ![n][s].secret = budget.secret + 1]
        /\ mirrored' = [m \in Nodes |-> FALSE]
        /\ UNCHANGED <<ep, cmd, dl, receipts, rejected, handler>>

\* The receiver's form: a receiver is created under a typed slug with a generated
\* secret, or one is switched off or on, or unsigned posts are allowed; a blank secret
\* field keeps the secret.
WebhookReceiverCRUDView(n) ==
    /\ budget.rotations > 0
    /\ budget' = [budget EXCEPT !.rotations = @ - 1, !.secret = @ + 1]
    /\ \E s \in DOMAIN rec[n] \cup {0}, on, require \in BOOLEAN :
          rec' = [rec EXCEPT ![n] =
                    IF s \in DOMAIN @ THEN [@ EXCEPT ![s].on = on, ![s].require = require]
                    ELSE Put(@, s, [secret |-> budget.secret + 1, on |-> on,
                                    require |-> require, ignore |-> NoOrigin])]
    /\ mirrored' = [m \in Nodes |-> FALSE]
    /\ UNCHANGED <<ep, cmd, dl, receipts, rejected, handler>>

(***************************************************************************)
(* Events out.                                                             *)
(***************************************************************************)
\* One PENDING row for each enabled endpoint; the rows of one event differ only in
\* their target.  hops counts the instances whose handlers led to the write.
fan_out(n, hops) ==
    LET targets == {u \in DOMAIN ep[n] : ep[n][u].on}
        row(u)  == [src |-> n, target |-> u, hops |-> hops, tries |-> 0, st |-> "pending"]
    IN  IF targets = {} \/ Len(dl) + Cardinality(targets) > MaxDeliveries THEN UNCHANGED dl
        ELSE \E order \in {f \in [1..Cardinality(targets) -> targets] :
                              \A i, j \in DOMAIN f : i < j => pairing_slug(f[i]) < pairing_slug(f[j])} :
                dl' = dl \o [i \in DOMAIN order |-> row(order[i])]

\* A post_save outside a suppressed block.
fire(n, hops, suppressed) == IF suppressed THEN UNCHANGED dl ELSE fan_out(n, hops)

on_save(n) ==
    /\ Spend("writes")
    /\ fire(n, 0, FALSE)
    /\ UNCHANGED <<conf, receipts, rejected>>

(***************************************************************************)
(* incoming_webhook: what it answers to a post signed with secret sig, and *)
(* the receipt it leaves.                                                  *)
(***************************************************************************)
\* The verifier: the HMAC of the body under the receiver's secret.
default_verifier(url, sig) == sig # NoSecret /\ sig = rec[url[1]][url[2]].secret

Answer(url, sig) ==
    IF ~Receiver(url) THEN 404
    ELSE IF rec[url[1]][url[2]].require /\ ~default_verifier(url, sig) THEN 401
    ELSE 202

Ignored(url, origin) == origin = rec[url[1]][url[2]].ignore

\* The receipt is stored first; a failing enqueue of its task is swallowed.
incoming_webhook(url, sig, origin, hops) ==
    LET answer == Answer(url, sig)
        n      == url[1]
        add(st, queued) ==
            receipts' = Append(receipts, [node |-> n, st |-> st, queued |-> queued, hops |-> hops])
    IN  /\ rejected' = IF answer = 401 /\ rejected[n] < RejectLimit
                       THEN [rejected EXCEPT ![n] = @ + 1] ELSE rejected
        /\ IF answer # 202 THEN UNCHANGED <<receipts, budget>>
           ELSE IF Ignored(url, origin) THEN add("ignored", FALSE) /\ UNCHANGED budget
           ELSE \/ add("accepted", TRUE) /\ UNCHANGED budget
                \/ add("accepted", FALSE) /\ Spend("faults")

\* deliver_webhook: the secret is read when the post is made; the answer may be lost
\* after the peer has acted on it.
deliver_webhook(i) ==
    LET d   == dl[i]
        sig == ep[d.src][d.target].secret
        ok  == Answer(d.target, sig) = 202
        after(good) ==
            [d EXCEPT !.tries = @ + 1,
                      !.st = IF good THEN "success"
                             ELSE IF d.tries + 1 >= MaxAttempts THEN "dead" ELSE "pending"]
    IN  /\ d.st = "pending"
        /\ \/ incoming_webhook(d.target, sig, d.src, d.hops) /\ dl' = [dl EXCEPT ![i] = after(ok)]
           \/ /\ ok
              /\ Spend("faults")
              /\ receipts' = Append(receipts, [node |-> d.target[1], queued |-> TRUE, hops |-> d.hops,
                     st |-> IF Ignored(d.target, d.src) THEN "ignored" ELSE "accepted"])
              /\ dl' = [dl EXCEPT ![i] = after(FALSE)]
              /\ UNCHANGED rejected
        /\ UNCHANGED conf

\* A post with no signature from anywhere else.
Stranger(n) ==
    \E s \in DOMAIN rec[n] :
        /\ rejected[n] < RejectLimit
        /\ Answer(<<n, s>>, NoSecret) = 401
        /\ incoming_webhook(<<n, s>>, NoSecret, Peer(n), 0)
        /\ UNCHANGED <<conf, dl>>

Minute ==
    /\ \E n \in Nodes : rejected[n] > 0
    /\ rejected' = [n \in Nodes |-> 0]
    /\ UNCHANGED <<conf, dl, receipts, budget>>

SuppressInverted(n) == handler[n] = "cascade"
suppress_webhooks(n) == handler[n] # "cascade"

\* Variant: an unknown handler is logged and the receipt left as it is.
DispatchForgets(i) ==
    /\ receipts[i].queued /\ receipts[i].st = "accepted"
    /\ handler[receipts[i].node] # "none"
    /\ receipts' = [receipts EXCEPT ![i].st = "processed", ![i].queued = FALSE]
    /\ fire(receipts[i].node, receipts[i].hops + 1, suppress_webhooks(receipts[i].node))
    /\ UNCHANGED <<conf, rejected, budget>>

\* dispatch_incoming: no handler of that name, a handler that raises, or one that writes
\* to a model, inside the suppressed block unless it was registered with cascade.
dispatch_incoming(i) ==
    LET r == receipts[i]
        end(st) == receipts' = [receipts EXCEPT ![i].st = st, ![i].queued = FALSE]
    IN  /\ r.queued /\ r.st = "accepted"
        /\ \/ handler[r.node] = "none" /\ end("failed") /\ UNCHANGED <<dl, budget>>
           \/ handler[r.node] # "none" /\ end("failed") /\ Spend("faults") /\ UNCHANGED dl
           \/ /\ handler[r.node] # "none" /\ end("processed")
              /\ fire(r.node, r.hops + 1, suppress_webhooks(r.node))
              /\ UNCHANGED budget
        /\ UNCHANGED <<conf, rejected>>

Deliver == \E i \in DOMAIN dl : deliver_webhook(i)
Dispatch == \E i \in DOMAIN receipts : dispatch_incoming(i)

Next ==
    \/ \E n \in Nodes : \/ \E oneWay \in BOOLEAN : PairCommand(n, oneWay)
                        \/ MirrorCommand(n)
                        \/ rotate_secret(n) \/ rotate_receiver_secret(n)
                        \/ WebhookReceiverCRUDView(n)
                        \/ on_save(n)
                        \/ Stranger(n)
    \/ Deliver \/ Dispatch \/ Minute

Fairness == WF_wlVars(Deliver) /\ WF_wlVars(Dispatch)
Spec == Init /\ [][Next]_wlVars /\ Fairness

(***************************************************************************)
(* Properties.                                                             *)
(***************************************************************************)
\* A write on one instance cannot run away over the link: with a handler on either
\* side that does not cascade, no event is emitted because of an event that came back,
\* however the instances were paired, re-paired, rotated or retried.
LoopStops ==
    (\E n \in Nodes : handler[n] # "cascade") => \A i \in DOMAIN dl : dl[i].hops <= 1

\* An accepted receipt whose task was enqueued is processed or marked failed, also
\* when no handler is registered or the handler raises.
ReceiptSettles ==
    \A i \in 1..(MaxDeliveries * MaxAttempts) :
        (i \in DOMAIN receipts /\ receipts[i].queued) ~> (i \in DOMAIN receipts /\ ~receipts[i].queued)

\* Once the peer has run the printed mirror command the peer's events get through: this
\* instance has a receiver at the URL the peer now posts to, with the peer's secret,
\* whatever pairings, one-way pairings and rotations came before.
MirrorLinksBack ==
    \A n \in Nodes : mirrored[n] =>
        /\ Receiver(cmd[n].target)
        /\ default_verifier(cmd[n].target, ep[Peer(n)][cmd[n].target].secret)

\* Both together.
LinkSound == LoopStops /\ MirrorLinksBack

=============================================================================
