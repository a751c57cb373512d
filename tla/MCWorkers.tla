------------------------------- MODULE MCWorkers -------------------------------
(* The two outboxes a worker_loop serves beside the claims, in one run.  They    *)
(* share no state, so the run chooses one of three instances at the start, and   *)
(* what an instance leaves out keeps its initial value:                          *)
(*   "expand"  webhooks: two endpoints, two expanders, a worker that succeeds;   *)
(*   "work"    webhooks: one endpoint, one expander, two workers;                *)
(*   "notes"   member notifications: one marketing message, two workers.         *)
EXTENDS WebhookOutbox

CONSTANTS members, consentIds, grantIds, senders, marketing,  \* of "notes"
          MaxAttempts

VARIABLES part, day, consents, preferences, grants, notes, checked, noteWorkers,
          merged, noteFaults

Note == INSTANCE MemberNotification WITH
  Members <- members, Consents <- consentIds, Grants <- grantIds, Workers <- senders,
  Marketing <- marketing, Service <- {}, NoChannel <- {}, DailyMax <- 1, WeeklyMax <- 2,
  Week <- 3, MaxDay <- 0, deliveries <- notes, workers <- noteWorkers, faults <- noteFaults

noteVars == <<day, consents, preferences, grants, notes, checked, noteWorkers, merged,
              noteFaults>>
all == <<part, vars, noteVars>>

Others(S) == S \ {CHOOSE x \in S : TRUE}
Within ==
  CASE part = "expand" ->
         /\ \A w \in Others(Workers) : workers[w] = Idle
         /\ \A w \in Workers : workers[w].pc = "sent" => workers[w].result = "ok"
         /\ \A d \in Pairs : Exists(d) =>
              /\ At(d).status # "archived" /\ At(d).attempts <= 1 /\ ~At(d).expired
              /\ At(d).status = "delivering" => \E w \in Workers : workers[w] # Idle
    [] part = "work" -> /\ \A e \in Others(Endpoints) : endpoints[e].status = "none"
                        /\ \A x \in Others(Expanders) : expanders[x] = Idle
    [] part = "notes" -> \A m \in members : preferences[m].service   \* no service messages

MCInit == Init /\ Note!Init /\ part \in {"expand", "work", "notes"}
MCNext ==
  \/ UNCHANGED <<part, noteVars>> /\ part # "notes" /\ Next /\ Within'
  \/ UNCHANGED <<part, vars>> /\ part = "notes" /\ Note!Next /\ Within'

\* The fairness of WebhookOutbox, for the steps an instance has.
Has(A) == A /\ UNCHANGED <<part, noteVars>> /\ part # "notes" /\ Within'
MCFairness ==
  /\ \A x \in Expanders : WF_all(Has(Expand(x)))
  /\ \A d \in Pairs : /\ WF_all(Has(ComesDue(d))) /\ WF_all(Has(Expires(d)))
                      /\ \A w \in Workers : WF_all(Has(Work(w, d)))
MCSpec == MCInit /\ [][MCNext]_all /\ MCFairness /\ Note!Fairness

\* The properties of MemberNotification.
MessageSpec == Note!MessageSpec
Settles == Note!Settles
=============================================================================
