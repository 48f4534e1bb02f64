--------------------------- MODULE RenovationField ---------------------------
(***************************************************************************)
(* Field documentation of a job, its costs and its margin, and the portal  *)
(* view that a customer sees of it (src/agentfabric/verticals/renovation:  *)
(* documentation, communications, customer_portal, finance, profitability, *)
(* service.py).  A daily log stores its photos and issues, then itself,    *)
(* and then a summary of the day; a portal view lists one collection after *)
(* the other while logs are written and change orders decided.  The change *)
(* order is the one of RenovationSite.  One job and one date are modelled; *)
(* a photo or an issue is identified by all it says.                       *)
(***************************************************************************)
EXTENDS RenovationSite, FiniteSetsExt

CONSTANTS
    LogRequests,   \* bound: daily logs requested: photos, issues, visibility
    NoteRequests,  \* bound: photos of the field notes requested
    Costs,         \* job costs: amounts of material, labor, subcontractors and overhead
    EstimatedCost, \* subtotal and contingency of the estimate
    Revenue,       \* total of the estimate
    Adjustment     \* what the change order adds to it when approved

VARIABLES
    field,       \* the collections of the job, by name
    summary,     \* renovation_daily_summaries of the date
    view,        \* the last portal view stored
    books,       \* job costs, scorecards, and the alerts stored for them
    fieldExcuse  \* history: what may make a summary, a view or the books incomplete

fieldState == <<field, summary, view, books, fieldExcuse>>

fieldVars == <<siteVars, fieldState>>

Collections == {"logs", "notes", "photos", "issues", "messages", "communications"}
Nothing == [none |-> TRUE]

\* A photo may be approved for the customer, a message visible to them.
Photos == {"private", "approved"}
Issues == {"issue"}
Messages == {"customer", "internal"}

FieldInit ==
    /\ field = [c \in Collections |-> {}]
    /\ summary = Nothing
    /\ view = Nothing
    /\ books = [costs |-> {}, cards |-> {}, alerts |-> {}]
    /\ fieldExcuse = {}

InField(op, place, arg) == [op |-> op, at |-> place, id |-> "none", copy |-> Nothing, arg |-> arg]

Here(t, op, place) == call[t].op = op /\ At(t, place)

Excused(s) == fieldExcuse' = fieldExcuse \cup s

-----------------------------------------------------------------------------
\* add_daily_log and add_field_note

add_daily_log(t, p) ==
    /\ Begin(t, InField("log", "photos", [todo |-> p, log |-> p]))
    /\ UNCHANGED <<siteState, fieldState>>

add_field_note(t, ph) ==
    /\ Begin(t, InField("note", "photos",
                        LET p == [photos |-> ph, issues |-> {}] IN [todo |-> p, log |-> p]))
    /\ UNCHANGED <<siteState, fieldState>>

Todo(t) == call[t].arg.todo

Store(c, x) == field' = [field EXCEPT ![c] = @ \cup {x}]

\* _persist_photo and _persist_issue: one record at a time
persist_photo(t) ==
    /\ call[t].op \in {"log", "note"} /\ At(t, "photos")
    /\ \E x \in Todo(t).photos :
         /\ Store("photos", x)
         /\ Goto(t, [call[t] EXCEPT !.arg.todo.photos = @ \ {x}])
    /\ UNCHANGED <<siteState, summary, view, books, fieldExcuse>>

persist_issue(t) ==
    /\ call[t].op \in {"log", "note"} /\ At(t, "photos")
    /\ Todo(t).photos = {}
    /\ \E x \in Todo(t).issues :
         /\ Store("issues", x)
         /\ Goto(t, [call[t] EXCEPT !.arg.todo.issues = @ \ {x}])
    /\ UNCHANGED <<siteState, summary, view, books, fieldExcuse>>

Persisted(t) == At(t, "photos") /\ Todo(t).photos = {} /\ Todo(t).issues = {}

\* DocumentationService.daily_log: the identifier leaves out the visibility.
SameLog(a, b) == a.photos = b.photos /\ a.issues = b.issues

Listed(u) == call[u].op = "log" /\ call[u].at \in {"notes", "photos-of-day", "issues", "store"}


put_log(t) ==
    /\ call[t].op = "log" /\ Persisted(t)
    /\ LET log == call[t].arg.log
       IN  field' = [field EXCEPT !["logs"] = {l \in @ : ~ SameLog(l, log)} \cup {log}]
    /\ Excused(IF \E u \in Others(t) : Listed(u) THEN {"summary"} ELSE {})
    /\ Step(t, "logs")
    /\ UNCHANGED <<siteState, summary, view, books>>

\* DocumentationService.field_note
put_note(t) ==
    /\ call[t].op = "note" /\ Persisted(t)
    /\ Store("notes", call[t].arg.log.photos)
    /\ Done(t)
    /\ UNCHANGED <<siteState, summary, view, books, fieldExcuse>>

-----------------------------------------------------------------------------
\* _job_artifacts: one collection is listed, and the request goes on.
Lists(t, op, place, v, following) ==
    /\ Here(t, op, place)
    /\ Goto(t, [call[t] EXCEPT !.copy = v, !.at = following])
    /\ UNCHANGED <<siteState, fieldState>>

With(r, k, v) == [x \in DOMAIN r \cup {k} |-> IF x = k THEN v ELSE r[x]]

\* daily_summary: logs, notes, photos and issues of the date, in that order
list_day(t) ==
    \/ Lists(t, "log", "logs", [logs |-> field["logs"]], "notes")
    \/ Lists(t, "log", "notes", With(call[t].copy, "notes", field["notes"]), "photos-of-day")
    \/ Lists(t, "log", "photos-of-day", With(call[t].copy, "photos", field["photos"]), "issues")
    \/ Lists(t, "log", "issues", With(call[t].copy, "issues", field["issues"]), "store")

put_summary(t) ==
    /\ Here(t, "log", "store")
    /\ summary' = call[t].copy
    /\ Done(t)
    /\ UNCHANGED <<siteState, field, view, books, fieldExcuse>>

-----------------------------------------------------------------------------
\* record_customer_message: the message, then the communication
record_customer_message(t, m) ==
    /\ Begin(t, InField("message", "message", m))
    /\ UNCHANGED <<siteState, fieldState>>

put_message(t) ==
    /\ Here(t, "message", "message")
    /\ Store("messages", call[t].arg)
    /\ Step(t, "communication")
    /\ UNCHANGED <<siteState, summary, view, books, fieldExcuse>>

put_communication(t) ==
    /\ Here(t, "message", "communication")
    /\ Store("communications", call[t].arg)
    /\ Done(t)
    /\ UNCHANGED <<siteState, summary, view, books, fieldExcuse>>

\* _customer_project_projection: what a customer may see of each collection
VisibleLogs == {l \in field["logs"] : l.visible}
ApprovedPhotos == field["photos"] \cap {"approved"}
OrderApproved == doc["order"] # Absent /\ doc["order"].status = "approved"
CustomerMessages == field["messages"] \cap {"customer"}

\* customer_portal_view: a request remembers whether the order was shown before it.
customer_portal_view(t) ==
    /\ Begin(t, InField("view", "progress", view # Nothing /\ view.order))
    /\ UNCHANGED <<siteState, fieldState>>

list_project(t) ==
    \/ Lists(t, "view", "progress", [logs |-> VisibleLogs], "photos")
    \/ Lists(t, "view", "photos", With(call[t].copy, "photos", ApprovedPhotos), "orders")
    \/ Lists(t, "view", "orders", With(call[t].copy, "order", OrderApproved), "messages")
    \/ Lists(t, "view", "messages", With(call[t].copy, "messages", CustomerMessages), "view")

\* History: a view that no longer shows the order an earlier one showed
put_view(t) ==
    /\ Here(t, "view", "view")
    /\ view' = call[t].copy
    /\ Excused(IF call[t].arg /\ ~ call[t].copy.order THEN {"withdrawn"} ELSE {})
    /\ Done(t)
    /\ UNCHANGED <<siteState, field, summary, books>>

-----------------------------------------------------------------------------
\* record_job_cost: the record is determined by its identifier, so storing it
\* again, as _record_for does, changes nothing.
record_job_cost(t, c) ==
    /\ Begin(t, Idle)
    /\ books' = [books EXCEPT !.costs = @ \cup {c}]
    /\ UNCHANGED <<siteState, field, summary, view, fieldExcuse>>

\* FinanceService.record_cost
total_cost(c) == c.material + c.labor + c.subcontractor + c.overhead

Total(costs) == FoldSet(LAMBDA c, sum : total_cost(c) + sum, 0, costs)

\* ProfitabilityService.scorecard: costs past the estimate leave an alert; the
\* margin shrinks with them.
scorecard(revenue, costs) ==
    [revenue |-> revenue, costs |-> costs, alert |-> Total(costs) > EstimatedCost]

job_profitability(t) ==
    /\ Begin(t, InField("card", "costs", Revenue + IF OrderApproved THEN Adjustment ELSE 0))
    /\ UNCHANGED <<siteState, fieldState>>

list_costs(t) == Lists(t, "card", "costs", books.costs, "card")

\* The scorecard is stored with the costs it was computed from.
put_scorecard(t) ==
    /\ Here(t, "card", "card")
    /\ LET card == scorecard(call[t].arg, call[t].copy)
       IN  /\ books' = [books EXCEPT !.cards = @ \cup {card}]
           /\ IF card.alert THEN Step(t, "alert") ELSE Done(t)
    /\ UNCHANGED <<siteState, field, summary, view, fieldExcuse>>

\* The margin variance and the cost overrun alert
put_alert(t) ==
    /\ Here(t, "card", "alert")
    /\ books' = [books EXCEPT !.alerts = @ \cup {scorecard(call[t].arg, call[t].copy)}]
    /\ Done(t)
    /\ UNCHANGED <<siteState, field, summary, view, fieldExcuse>>

\* A put or an append raises, a log is refused after its photos, or the process stops.
DieInField(t) ==
    /\ call[t].op \in {"log", "note", "message", "view", "card"}
    /\ Excused(CASE call[t].op = "log" /\ ~ At(t, "photos") -> {"summary"}
                 [] Here(t, "message", "communication") -> {"message"}
                 [] Here(t, "card", "alert") -> {"alert"}
                 [] OTHER -> {})
    /\ Done(t)
    /\ UNCHANGED <<siteState, field, summary, view, books>>

\* The routes
documentation_routes(t) ==
    \/ \E p \in LogRequests : add_daily_log(t, p)
    \/ \E ph \in NoteRequests : add_field_note(t, ph)

portal_routes(t) ==
    \/ \E m \in Messages : record_customer_message(t, m)
    \/ customer_portal_view(t)

cost_routes(t) ==
    \/ \E c \in Costs : record_job_cost(t, c)
    \/ job_profitability(t)

FieldNext ==
    \E t \in Threads :
        \/ documentation_routes(t) \/ portal_routes(t) \/ cost_routes(t)
        \/ persist_photo(t) \/ persist_issue(t) \/ put_log(t) \/ put_note(t)
        \/ list_day(t) \/ put_summary(t)
        \/ put_message(t) \/ put_communication(t)
        \/ list_project(t) \/ put_view(t)
        \/ list_costs(t)
        \/ put_scorecard(t) \/ put_alert(t)
        \/ DieInField(t)
        \/ OrderNext(t) /\ UNCHANGED fieldState

FieldSpec == RequestsInit /\ SiteInit /\ FieldInit /\ [][FieldNext]_fieldVars

-----------------------------------------------------------------------------
InStore(c, S) == S \subseteq field[c]

Busy(op, places) == \E t \in Threads : call[t].op = op /\ call[t].at \in places

\* replay_daily_log, replay_field_note: the photos and issues of a log or note
\* are read again.
Replayable ==
    /\ \A l \in field["logs"] : InStore("photos", l.photos) /\ InStore("issues", l.issues)
    /\ \A n \in field["notes"] : InStore("photos", n)

\* What documentation refers to is there, at every moment and after a request
\* that died: a log or a note has its photos and issues stored, and a summary of
\* the day lists the photos and issues of every log and note it lists, although
\* the collections are read one after the other while others write them.  The
\* stored summary lists every log once no log is being written, unless another
\* log was stored while one listed the day, or a request died before its summary.
\* A message has its communication and a scorecard its alert unless the request
\* has not come to it or died before.
FieldRecordsComplete ==
    /\ Replayable
    /\ summary # Nothing =>
         /\ \A l \in summary.logs : l.photos \subseteq summary.photos /\ l.issues \subseteq summary.issues
         /\ \A n \in summary.notes : n \subseteq summary.photos
    /\ ~ Busy("log", {"logs", "notes", "photos-of-day", "issues", "store"})
       /\ "summary" \notin fieldExcuse /\ field["logs"] # {} =>
         summary # Nothing /\ summary.logs = field["logs"]
    /\ ~ Busy("message", {"communication"}) /\ "message" \notin fieldExcuse =>
         field["messages"] = field["communications"]
    /\ ~ Busy("card", {"alert"}) /\ "alert" \notin fieldExcuse =>
         {c \in books.cards : c.alert} \subseteq books.alerts

\* A portal view shows, with the progress of a log, the approved photos of that
\* log, and nothing private or internal.  Once a view has shown the change order,
\* later views show it, unless the order was created again or decided by
\* overlapping requests.
PortalConsistent ==
    /\ view # Nothing =>
         /\ \A l \in view.logs : l.visible /\ l.photos \cap {"approved"} \subseteq view.photos
         /\ "private" \notin view.photos /\ "internal" \notin view.messages
    /\ "withdrawn" \in fieldExcuse => excuse["order"] \cap {"overlap", "remade"} # {}

=============================================================================
