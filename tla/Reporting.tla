----------------------------- MODULE Reporting -----------------------------
(***************************************************************************)
(* How a run reports: the logger is set up in two phases, first the local  *)
(* handlers, then, once the configuration names the host, the Slack        *)
(* handlers. Every record is redacted and given to each handler in turn;   *)
(* one marked for notification is sent to Slack by the caller itself, with *)
(* retries, while the server may refuse, fail or lose an answer and the    *)
(* context of a command may end.                                           *)
(***************************************************************************)
EXTENDS Redaction

CONSTANTS RetryCount,   \* retries after the first attempt
          MaxLogged,    \* commands a group summary lists
          Scenarios,    \* environment and options of a run, and what it reports, in order
          MaxReports,   \* reports of one run, at most
          Secrets,      \* the names of the secrets in the reports
          Overlooked,   \* the names of what redaction does not look into
          PanicTexts    \* the names of what panics say in them

VARIABLES
  setting,    \* [success, error: the webhook is "unset", "good" or "bad"; dryRun; level; logDir; loads]
  todo,       \* what is still to be reported
  step,       \* where main is
  handlers,   \* "early" | "local" | "slack": the default logger
  shows,      \* sink -> records [no, what, ids] it has received
  pending,    \* the notification being sent, or Nothing
  cancelled,  \* the context of the commands has ended
  collector,  \* keys of redactions that failed
  accepted,   \* notification -> how often Slack took it
  lost        \* notification -> answers of Slack that did not arrive

reportVars == <<setting, todo, step, handlers, shows, pending, cancelled, collector, accepted, lost>>

Levels == <<"debug", "info", "warn", "error">>
Rank(level) == CHOOSE i \in 1..4 : Levels[i] = level
AtLeast(level, least) == Rank(level) >= Rank(least)

Sinks == {"stderr", "console", "file"}
Nothing == [no |-> 0]
Zero == V("prim", <<>>)   \* an exit code of 0
Numbers == 1..MaxReports

ReportInit ==
  /\ \E s \in Scenarios : setting = s.setting /\ todo = s.reports
  /\ step = "env" /\ handlers = "early"
  /\ shows = [s \in Sinks |-> {}]
  /\ pending = Nothing /\ cancelled = FALSE /\ collector = <<>>
  /\ accepted = [n \in Numbers |-> 0] /\ lost = [n \in Numbers |-> 0]

----------------------------------------------------------------------------
(* Handlers.                                                               *)

\* Interactive and plain console exclude each other; the file is optional.
LocalSinks == IF handlers = "early" THEN {"stderr"} ELSE {"console"} \cup (IF setting.logDir = "none" THEN {} ELSE {"file"})
Note(no, what) == [no |-> no, what |-> what, ids |-> {}]
Noted(sinks, level, notes) ==
  [s \in Sinks |-> IF s \in LocalSinks /\ AtLeast(level, setting.level) THEN sinks[s] \cup notes ELSE sinks[s]]

\* The webhook that takes records of a level, if it is configured.
SlackFor(level) == IF level = "info" THEN setting.success ELSE IF AtLeast(level, "warn") THEN setting.error ELSE "unset"

\* What the message of a notification is built from.
ExtractCommandResults(v) == IF v.k = "group" THEN {e \in Range(v.x) : e.v.k = "group"} ELSE {}
ExitedZero(e) == \E f \in Range(e.v.x) : f.key = "exit_code" /\ f.v = Zero
ResultFields(e) ==
  {f.v : f \in {g \in Range(e.v.x) : g.key \in {"name", "output"} \cup (IF ExitedZero(e) THEN {} ELSE {"stderr"})}}
MessageFields(type) ==
  CASE type = "command_group_summary"        -> {"status", "group"}
    [] type = "pre_execution_error"          -> {"error_type", "error_message", "component"}
    [] type = "security_alert"               -> {"event_type", "severity", "message"}
    [] type = "privilege_escalation_failure" -> {"operation", "command_name"}
    [] OTHER                                 -> {}
BuildMessage(type, message, attrs) ==
  LET chosen == {e.v : e \in {f \in Range(attrs) : f.key \in MessageFields(type)}}
      results == UNION {ExtractCommandResults(e.v) : e \in {f \in Range(attrs) : f.key = "commands"}}
      values == chosen \cup (IF type = "command_group_summary" THEN UNION {ResultFields(e) : e \in results} ELSE {})
  IN UNION {Shown(v) : v \in values} \cup (IF MessageFields(type) = {} THEN Raw(message) ELSE {})

NoType == "none"

\* RedactingHandler.Handle: panics are told in detail to the local handlers
\* only and in brief to all; then MultiHandler gives each handler the record.
\* Before the first phase Go's own handler writes it to stderr as it is.
Redacted(message, attrs) ==
  IF handlers = "early" THEN [message |-> message, attrs |-> attrs, failed |-> <<>>, panics |-> <<>>]
  ELSE RedactRecord(message, attrs)

Handle(sinks, level, context, type, message, attrs) ==
  \E r \in {Redacted(message, attrs)}, no \in {Len(todo)} :
     LET ids == Raw(r.message) \cup UNION {Shown(a.v) : a \in Range(r.attrs)}
         details == UNION {{[no |-> no, what |-> "panic", ids |-> Raw(p)], Note(no, "failed")} : p \in Range(r.panics)}
     IN /\ shows' = Noted(Noted(sinks, "warn", details), level, {[no |-> no, what |-> "record", ids |-> ids]})
        /\ collector' = RecordFailure(collector, r.failed)
        /\ pending' = IF handlers = "slack" /\ SlackFor(level) # "unset" /\ type # NoType /\ ~setting.dryRun
                      THEN [no |-> no, context |-> context, attempt |-> 0, stage |-> "send",
                            ids |-> BuildMessage(type, r.message, r.attrs)]
                      ELSE Nothing

----------------------------------------------------------------------------
(* Setting up. A failure is reported with what is set up by then.          *)
Fails(text) == todo' = <<[op |-> "pre_error", text |-> text]>> /\ step' = "running"

ValidateSlackWebhookEnv ==
  /\ step = "env"
  /\ IF setting.success # "unset" /\ setting.error = "unset" THEN Fails(<<>>) ELSE step' = "logging" /\ UNCHANGED todo
  /\ UNCHANGED <<setting, handlers, shows, pending, cancelled, collector, accepted, lost>>

\* The probe file of an interrupted run or of one that starts at the same
\* time makes the directory unusable.
ValidateLogDir == setting.logDir \in {"none", "good"}

SetupLoggerWithConfig ==
  /\ step = "logging"
  /\ IF ValidateLogDir THEN handlers' = "local" /\ step' = "config" /\ UNCHANGED todo
     ELSE Fails(<<>>) /\ UNCHANGED handlers
  /\ UNCHANGED <<setting, shows, pending, cancelled, collector, accepted, lost>>

LoadConfig ==
  /\ step = "config"
  /\ IF setting.loads THEN step' = "slack" /\ UNCHANGED todo ELSE Fails(<<>>)
  /\ UNCHANGED <<setting, handlers, shows, pending, cancelled, collector, accepted, lost>>

\* A webhook whose host is not the allowed one leaves the logger as it was.
AddSlackHandlers ==
  /\ step = "slack"
  /\ IF "bad" \in {setting.success, setting.error} THEN Fails(<<>>) /\ UNCHANGED handlers
     ELSE /\ step' = "running"
          /\ handlers' = IF setting.success = "unset" /\ setting.error = "unset" THEN "local" ELSE "slack"
          /\ UNCHANGED todo
  /\ UNCHANGED <<setting, shows, pending, cancelled, collector, accepted, lost>>

----------------------------------------------------------------------------
(* What is reported.                                                       *)
Reporting(op) == step = "running" /\ pending = Nothing /\ todo # <<>> /\ Head(todo).op = op
Reported == /\ todo' = Tail(todo)
            /\ UNCHANGED <<setting, step, handlers, cancelled, accepted, lost>>

\* The results of a group, as a LogValuer that resolves to a group.
CommandResults(results) ==
  LET listed == SubSeq(results, 1, Min({Len(results), MaxLogged}))
  IN V("valuer", <<V("group", <<Entry("total_count", Zero), Entry("truncated", Zero)>> \o
       [i \in DOMAIN listed |->
          Entry("cmd", V("group", <<Entry("name", Str(listed[i].name)), Entry("exit_code", listed[i].exit),
                                    Entry("output", Str(listed[i].out)), Entry("stderr", Str(listed[i].stderr))>>))])>>)

LogGroupExecutionSummary ==
  LET e == Head(todo)
  IN /\ Reporting("summary")
     /\ Handle(shows, IF e.status = "error" THEN "error" ELSE "info", "background", "command_group_summary",
               <<Piece("plain", "completed")>>,
               <<Entry("group", Str(e.group)), Entry("status", Str(<<Piece("plain", e.status)>>)),
                 Entry("commands", CommandResults(e.results))>>)
     /\ Reported

\* The arguments and the output are masked once before the handler masks them again.
LogUserGroupExecution ==
  LET e == Head(todo)
      base == <<Entry("command_name", Str(e.name)), Entry("command_args", Str(RedactText(e.args)))>>
  IN /\ Reporting("user_group")
     /\ IF e.ok THEN Handle(shows, "info", "command", NoType, <<Piece("plain", "executed")>>, base)
        ELSE Handle(shows, "error", "command", "user_group_command_failure", <<Piece("plain", "failed")>>,
                    base \o <<Entry("stdout", Str(RedactText(e.out)))>>)
     /\ Reported

LogPrivilegeEscalation ==
  LET e == Head(todo)
      attrs == <<Entry("operation", Str(RedactText(e.text))), Entry("command_name", Str(RedactText(e.name)))>>
  IN /\ Reporting("escalation")
     /\ IF e.ok THEN Handle(shows, "info", "command", NoType, <<Piece("plain", "escalated")>>, attrs)
        ELSE Handle(shows, "warn", "command", "privilege_escalation_failure", <<Piece("plain", "escalation")>>, attrs)
     /\ Reported

\* Details that are strings are masked; others are left to the handler.
LogSecurityEvent ==
  LET e == Head(todo)
      grave == e.severity \in {"critical", "high"}
      detail(d) == Entry(d.key, IF d.v.k = "string" THEN Str(RedactText(d.v.x)) ELSE d.v)
  IN /\ Reporting("security")
     /\ Handle(shows, IF grave THEN "error" ELSE IF e.severity = "medium" THEN "warn" ELSE "info", "command",
               IF grave THEN "security_alert" ELSE NoType, <<Piece("plain", "security")>>,
               <<Entry("message", Str(RedactText(e.text)))>> \o [i \in DOMAIN e.details |-> detail(e.details[i])])
     /\ Reported

RiskLogLevel(risk, deny) ==
  LET level == CASE risk = "critical" -> "error" [] risk = "high" -> "warn" [] risk = "medium" -> "info" [] OTHER -> "debug"
  IN IF deny /\ ~AtLeast(level, "warn") THEN "warn" ELSE level

LogRiskProfile ==
  LET e == Head(todo)
  IN /\ Reporting("risk")
     /\ Handle(shows, RiskLogLevel(e.risk, e.deny), "command", NoType, <<Piece("plain", "risk")>>,
               <<Entry("command_args", V("slice", [i \in DOMAIN e.args |-> Entry("", Str(RedactText(e.args[i])))]))>>)
     /\ Reported

\* An error is written to stderr as it is, then logged; main ends with it.
HandleErrorCommon(text, type) ==
  /\ Handle([shows EXCEPT !["stderr"] = @ \cup {[no |-> Len(todo), what |-> "record", ids |-> Raw(text)]}],
            "error", "background", type, <<Piece("plain", "error")>>, <<Entry("error_message", Str(text))>>)
  /\ todo' = <<>> /\ step' = "closing"
  /\ UNCHANGED <<setting, handlers, cancelled, accepted, lost>>

HandlePreExecutionError == Reporting("pre_error") /\ HandleErrorCommon(Head(todo).text, "pre_execution_error")
HandleExecutionError == Reporting("exec_error") /\ HandleErrorCommon(Head(todo).text, NoType)

----------------------------------------------------------------------------
(* Sending. The server takes the message or not; an answer may be lost. A  *)
(* request of a context that has ended fails at once.                      *)
Over(note, level) == /\ pending' = Nothing
                     /\ shows' = Noted(shows, level, {Note(pending.no, note)})
ContextDone == pending.context = "command" /\ cancelled

Retry == /\ pending' = [pending EXCEPT !.attempt = @ + 1, !.stage = "wait"]
         /\ shows' = Noted(shows, "warn", {Note(pending.no, "failed attempt")})

\* Mutant: the last failure is not told.
FailedSilently == IF pending.attempt < RetryCount THEN Retry
                  ELSE /\ pending' = Nothing
                       /\ shows' = Noted(shows, "warn", {Note(pending.no, "failed attempt")})

\* One more failure: the next attempt waits, the last one gives up.
Failed == IF pending.attempt < RetryCount THEN Retry
          ELSE /\ pending' = Nothing
               /\ shows' = Noted(Noted(shows, "warn", {Note(pending.no, "failed attempt")}), "error", {Note(pending.no, "gave up")})

Deliver == accepted' = [accepted EXCEPT ![pending.no] = @ + 1]

SendToSlack ==
  /\ pending # Nothing /\ pending.stage = "send"
  /\ \/ /\ ~ContextDone
        /\ Deliver /\ Over("sent", "info") /\ UNCHANGED lost
     \/ /\ ~ContextDone
        /\ Deliver /\ lost' = [lost EXCEPT ![pending.no] = @ + 1] /\ Failed
     \/ Failed /\ UNCHANGED <<accepted, lost>>
     \/ ~ContextDone /\ Over("refused", "error") /\ UNCHANGED <<accepted, lost>>
  /\ UNCHANGED <<setting, todo, step, handlers, cancelled, collector>>

WaitBackoff ==
  /\ pending # Nothing /\ pending.stage = "wait"
  /\ \/ ContextDone /\ pending' = Nothing
     \/ pending' = [pending EXCEPT !.stage = "send"]
  /\ UNCHANGED <<setting, todo, step, handlers, shows, cancelled, collector, accepted, lost>>

----------------------------------------------------------------------------
(* A signal ends the context of the commands.                              *)
Cancel == /\ step = "running" /\ ~cancelled /\ cancelled' = TRUE
          /\ UNCHANGED <<setting, todo, step, handlers, shows, pending, collector, accepted, lost>>

Finish == /\ step = "running" /\ todo = <<>> /\ pending = Nothing /\ step' = "closing"
          /\ UNCHANGED <<setting, todo, handlers, shows, pending, cancelled, collector, accepted, lost>>

\* The summary of the failures goes to the local handlers, the details to stderr.
ReportRedactionFailures ==
  /\ step = "closing" /\ pending = Nothing
  /\ step' = "done"
  /\ shows' = IF collector = <<>> THEN shows
              ELSE [Noted(shows, "warn", {Note(0, "summary")}) EXCEPT !["stderr"] = @ \cup {Note(0, "failures")}]
  /\ UNCHANGED <<setting, todo, handlers, pending, cancelled, collector, accepted, lost>>

Terminated == step = "done" /\ UNCHANGED reportVars

Setup == ValidateSlackWebhookEnv \/ SetupLoggerWithConfig \/ LoadConfig \/ AddSlackHandlers
Report == \/ LogGroupExecutionSummary \/ LogUserGroupExecution \/ LogPrivilegeEscalation \/ LogSecurityEvent
          \/ LogRiskProfile \/ HandlePreExecutionError \/ HandleExecutionError
Main == Setup \/ Report \/ SendToSlack \/ WaitBackoff \/ Finish \/ ReportRedactionFailures

ReportNext == Main \/ Cancel \/ Terminated

\* The runner goes on: a request ends by the client's timeout, a wait by its timer.
ReportSpec == ReportInit /\ [][ReportNext]_reportVars /\ WF_reportVars(Main)

----------------------------------------------------------------------------
(* What of a report is secret.                                             *)
ToldIn(texts) == UNION {Told(t) : t \in texts}
SecretsOf(e) ==
  CASE e.op = "summary"    -> ToldIn({e.group}) \cup SecretsIn("commands", CommandResults(e.results))
    [] e.op = "user_group" -> ToldIn({e.name, e.args, e.out})
    [] e.op = "escalation" -> ToldIn({e.text, e.name})
    [] e.op = "security"   -> ToldIn({e.text}) \cup UNION {SecretsIn(d.key, d.v) : d \in Range(e.details)}
    [] e.op = "risk"       -> ToldIn(Range(e.args))
    [] OTHER               -> ToldIn({e.text})

RECURSIVE PanicsIn(_)
PanicsIn(v) ==
  CASE v.k = "panics" -> Raw(v.x)
    [] v.k \in {"ptr", "valuer"} -> UNION {PanicsIn(v.x[i]) : i \in DOMAIN v.x}
    [] v.k \in {"group", "map", "struct", "slice", "array"} -> UNION {PanicsIn(v.x[i].v) : i \in DOMAIN v.x}
    [] OTHER -> {}

Events == UNION {Range(s.reports) : s \in Scenarios}

Details == UNION {Range(e.details) : e \in {f \in Events : f.op = "security"}}

ASSUME SecretsAssumption ==
  /\ Secrets = UNION {SecretsOf(e) : e \in Events}
  /\ Overlooked = UNION {PassedOn(d.key, d.v) : d \in Details}
  /\ PanicTexts = UNION {PanicsIn(d.v) : d \in Details}

----------------------------------------------------------------------------
(* Properties.                                                             *)

\* None of the names is in what the local handlers or Slack are given. What a panic
\* says may be in the local detail of the panic.
Kept(names) ==
  /\ \A s \in {"console", "file"} : \A r \in shows[s] : r.what # "panic" => r.ids \cap (names \cup PanicTexts) = {}
  /\ pending # Nothing => pending.ids \cap (names \cup PanicTexts) = {}

\* No secret of a report is given to the console, the file or Slack, however its value
\* is nested: not past the depth limit, not in an array in a slice, not when a value
\* panics while it is resolved; and what a panic says stays on the machine. Excepted
\* is what redaction does not look into (PassedOn): see NoPathBypassesMasking. Nothing
\* is said of stderr, where the handler of Go's default logger and HandleErrorCommon
\* write texts as they are.
NothingSecretLogged == Kept(Secrets \ Overlooked)

\* "redacts sensitive information before forwarding to the underlying handler"
\* (RedactingHandler), "Dereference pointer and process recursively"
\* (processKindAny): the same of every secret, behind whatever type it stands.
NoPathBypassesMasking == Kept(Secrets)

Settled(n) ==
  \/ accepted[n] \in 1..(1 + lost[n])
  \/ Note(n, "gave up") \in shows["console"]
  \/ Note(n, "refused") \in shows["console"]

\* Every notification comes to an end: Slack took it, once more only for an answer
\* that was lost, or the local log says that it was not delivered. One that is sent
\* under the context of a command may also be dropped when that context has ended;
\* the summary of a group and an error before the run may not. The runner is never
\* held up for good.
NotificationsSettle ==
  /\ [][\A n \in Numbers :
          pending.no = n /\ pending'.no # n => Settled(n)' \/ (pending.context = "command" /\ cancelled)]_reportVars
  /\ pending # Nothing ~> pending = Nothing
============================================================================
