------------------------------ MODULE GuardRules ------------------------------
(***************************************************************************)
(* The rules a guard profile is made of, as the profile editor holds them  *)
(* (StudioForm), the verdict the server gives on a command or a            *)
(* destination, and the fixes the editor offers for a verdict: the buttons *)
(* under "Try it out" and beside every row of "Recent activity".           *)
(*                                                                         *)
(* The server parses a command line as a shell does; the editor splits it  *)
(* at the blanks, and reads the rest out of the message of the verdict.    *)
(* The two readings are kept apart: a line holds the words the editor sees *)
(* and the steps the server checks, with no relation assumed between them. *)
(***************************************************************************)
EXTENDS Naturals, Sequences, FiniteSets, Filters

CONSTANTS Programs,      \* names of programs, and what a line spells in their place
          SqlClients,    \* psql, mysql, sqlite3
          Words,         \* first arguments and SQL keywords
          ArgIn,         \* program and argument -> the two as read out of a message
          SqlIn,         \* SQL keyword -> the keyword as read out of a message
          Entries,       \* what the lists of the network hold, as typed
          Targets,       \* host names and addresses
          Addresses,     \* those that net.ParseIP takes for an address
          Ipv4,          \* those that IPV4_RE matches
          Matched,       \* target -> the entries that stand for it
          Reported,      \* entry -> the entry as a verdict spells it
          NeedsOf,       \* program -> the capabilities it needs
          None

ASSUME RulesAssumption ==
    /\ SqlClients \subseteq Programs /\ {"sudo", "nohup"} \subseteq Programs
    /\ NeedsOf \in [Programs -> SUBSET {"download", "install", "writeFs", "cron"}]
    /\ None \notin Programs \cup Words
    /\ ArgIn \in [Programs \X Words -> (Programs \X Words) \cup {None}]
    /\ SqlIn \in [Words -> Words \cup {None}]
    /\ Targets \subseteq Entries /\ Reported \in [Entries -> Entries]
    /\ Matched \in [Targets -> SUBSET Entries] /\ \A t \in Targets : t \in Matched[t]

Modes == {"open", "whitelist", "blacklist", "closed"}

\* networkOut is left out: no verdict depends on it.
Caps == {"pipes", "redirects", "cmdSubst", "background", "sudo", "codeExec", "download",
         "install", "writeFs", "cron", "unrestricted"}

CommandRule == [command : Programs, allowedArgs : SUBSET Words, allowedSql : SUBSET Words,
                blockedArgs : SUBSET Words, blockedSql : SUBSET Words]

EgressPolicy == [mode : Modes, hosts : SUBSET Entries, cidrs : SUBSET Entries]

\* Step: what the server checks in turn, the code of a bash -c in place of the call: a
\* construct or wrapper, named by the rule that refuses it, a call, or the query of an
\* SQL client.
Constructs == {"pipes", "pipe-to-shell", "redirects", "cmdSubst", "background", "sudo",
               "codeExec", "parse-error", "recursion-limit"}

Step == [rule : Constructs, program : {None}, word : {None}]
        \cup [rule : {"call", "query"}, program : Programs, word : Words \cup {None}]

CommandLine == [words : Seq(Programs), steps : Seq(Step)]

Plain(p) == [command |-> p, allowedArgs |-> {}, allowedSql |-> {},
             blockedArgs |-> {}, blockedSql |-> {}]

-----------------------------------------------------------------------------
(* What the editor does with its list of commands. *)

\* The first rule of a program, 0 if there is none.
IndexOf(commands, p) ==
    LET rules == {i \in DOMAIN commands : commands[i].command = p}
    IN  IF rules = {} THEN 0 ELSE Nth(rules, 1)

addCommandRule(form, p) ==
    IF IndexOf(form.commands, p) # 0 THEN form
    ELSE [form EXCEPT !.commands = Append(@, Plain(p))]

removeCommand(form, p) ==
    [form EXCEPT !.commands = Kept(@, {i \in DOMAIN @ : @[i].command # p})]

\* Mutant: a program that is listed already is left as it is.
AddWord_OnlyNew(form, p, field, w) ==
    IF IndexOf(form.commands, p) # 0 THEN form
    ELSE [form EXCEPT !.commands = Append(@, [Plain(p) EXCEPT ![field] = {w}])]

\* addArgToCommand and addSqlToCommand; field says which of the two.
AddWord(form, p, field, w) ==
    LET i == IndexOf(form.commands, p)
    IN  IF i = 0
        THEN [form EXCEPT !.commands = Append(@, [Plain(p) EXCEPT ![field] = {w}])]
        ELSE [form EXCEPT !.commands[i][field] = @ \cup {w}]

\* CommandList.add on a rule that was typed in: the rules of one program are merged.
mergeCommandRule(a, b) ==
    [a EXCEPT !.allowedArgs = @ \cup b.allowedArgs, !.allowedSql = @ \cup b.allowedSql,
              !.blockedArgs = @ \cup b.blockedArgs, !.blockedSql = @ \cup b.blockedSql]

AddRule(commands, rule) ==
    LET i == IndexOf(commands, rule.command)
    IN  IF i = 0 THEN Append(commands, rule)
        ELSE [commands EXCEPT ![i] = mergeCommandRule(@, rule)]

\* What parseCommandRule makes of the text formatCommandRule shows for a rule: SQL
\* keywords are not shown beside arguments, and a block is read as SQL or as an
\* argument by the program's name.
Reread(rule) ==
    LET blocks == rule.blockedArgs \cup rule.blockedSql
        sql == rule.command \in SqlClients
    IN  [rule EXCEPT !.allowedSql = IF rule.allowedArgs = {} THEN @ ELSE {},
                     !.blockedSql = IF sql THEN blocks ELSE {},
                     !.blockedArgs = IF sql THEN {} ELSE blocks]

-----------------------------------------------------------------------------
(* The verdict of the server: guard.Evaluate and EgressPolicy.Evaluate. *)

Ok == [rule |-> "allowed", program |-> None, word |-> None]
No(rule, p, w) == [rule |-> rule, program |-> p, word |-> w]

\* The rules of a program, merged; allowAll is set by any rule that names no word.
RulesFor(form, p) == {form.commands[i] : i \in {j \in DOMAIN form.commands : form.commands[j].command = p}}
Allowed(form, p, field) == UNION {r[field] : r \in RulesFor(form, p)}
AllowAll(form, p) == \E r \in RulesFor(form, p) : r.allowedArgs = {} /\ r.allowedSql = {}

\* The mode decides last, for plain calls and for SQL alike.
ByMode(form, call, field, rule) ==
    LET listed == RulesFor(form, call.program) # {}
        allowed == Allowed(form, call.program, field)
    IN  CASE form.mode = "open"      -> Ok
          [] form.mode = "closed"    -> No("commands-closed", call.program, None)
          [] form.mode = "blacklist" -> IF listed THEN No("command-blacklisted", call.program, None) ELSE Ok
          [] form.mode = "whitelist" ->
               IF ~listed THEN No("command-not-allowed", call.program, None)
               ELSE IF AllowAll(form, call.program) \/ allowed = {} \/ call.word = None
                       \/ call.word \in allowed
               THEN Ok ELSE No(rule, call.program, call.word)

CallVerdict(form, call) ==
    LET missing == NeedsOf[call.program] \ form.caps
    IN  IF call.rule = "query" THEN
             IF call.word \in Allowed(form, call.program, "blockedSql")
             THEN No("sql-blocked", call.program, call.word)
             ELSE ByMode(form, call, "allowedSql", "sql-not-allowed")
        ELSE IF call.word \in Allowed(form, call.program, "blockedArgs")
             THEN No("arg-blocked", call.program, call.word)
        ELSE IF missing # {} THEN No(CHOOSE c \in missing : TRUE, None, None)
        ELSE ByMode(form, call, "allowedArgs", "arg-not-allowed")

\* The rule "<capability>-disabled" is written as the capability; a line that does not
\* parse, or nests too deep, is always refused.
Granted(caps, rule) == rule \in caps \/ (rule = "pipe-to-shell" /\ "codeExec" \in caps)

StepVerdict(form, s) ==
    IF s.rule \in {"call", "query"} THEN CallVerdict(form, s)
    ELSE IF Granted(form.caps, s.rule) THEN Ok ELSE No(s.rule, None, None)

\* The steps of a line are checked in order, the first violation is reported.
CommandVerdict(form, line) ==
    LET bad == {i \in DOMAIN line.steps : StepVerdict(form, line.steps[i]) # Ok}
    IN  IF "unrestricted" \in form.caps \/ bad = {} THEN Ok
        ELSE StepVerdict(form, line.steps[Nth(bad, 1)])

\* An address is looked up among the ranges, a name among the hosts; any of the entries
\* that match may be the first of its list.
HostVerdict(form, target) ==
    LET e == form.egress
        hits == Matched[target] \cap (IF target \in Addresses THEN e.cidrs ELSE e.hosts)
    IN  CASE "unrestricted" \in form.caps -> Ok
          [] "unrestricted" \notin form.caps /\ e.mode = "closed" -> No("closed", None, None)
          [] "unrestricted" \notin form.caps /\ e.mode = "whitelist" /\ hits = {} ->
               No("not-in-whitelist", None, None)
          [] "unrestricted" \notin form.caps /\ e.mode = "blacklist" /\ hits # {} ->
               No("blacklist:", Reported[CHOOSE x \in hits : TRUE], None)
          [] OTHER -> Ok

-----------------------------------------------------------------------------
(* The fixes.  A fix is a function of the form it is applied to, which may  *)
(* be a later one than the form that was judged; None is no fix.            *)

\* The first word of the line, or the second after one sudo or nohup; quotes, assignments
\* and whatever else a shell makes of a line are not looked at.
extractCommandName(line) ==
    LET ws == line.words
    IN  CASE ws # <<>> /\ ws[1] \notin {"sudo", "nohup"} -> ws[1]
          [] Len(ws) > 1 /\ ws[1] \in {"sudo", "nohup"} -> ws[2]
          [] OTHER -> None

\* The rules whose fix is a capability.
RULE_TO_CAP == [c \in (Caps \ {"unrestricted"}) \cup {"pipe-to-shell"} |->
                  IF c = "pipe-to-shell" THEN "codeExec" ELSE c]

\* The rules whose fix is about the name the editor finds in the line.
ByName == {"commands-closed", "command-blacklisted", "command-not-allowed"}

\* Whether a fix is offered: null for what the editor cannot read, and for other rules.
\* (The fix for an SQL keyword is offered without a name too; no line that runs an SQL
\* client is without one.)
HasAllowFix(line, verdict) ==
    \/ verdict.rule \in DOMAIN RULE_TO_CAP
    \/ verdict.rule \in ByName /\ extractCommandName(line) # None
    \/ verdict.rule = "arg-not-allowed" /\ ArgIn[verdict.program, verdict.word] # None
    \/ verdict.rule = "sql-not-allowed" /\ SqlIn[verdict.word] # None
       /\ extractCommandName(line) # None

suggestAllowCommand(form, line, verdict) ==
    LET name == extractCommandName(line)
        m == ArgIn[verdict.program, verdict.word]
    IN  CASE verdict.rule \in DOMAIN RULE_TO_CAP ->
               [form EXCEPT !.caps = @ \cup {RULE_TO_CAP[verdict.rule]}]
          [] verdict.rule = "commands-closed" ->
               addCommandRule([form EXCEPT !.mode = "whitelist"], name)
          [] verdict.rule = "command-blacklisted" -> removeCommand(form, name)
          [] verdict.rule = "command-not-allowed" -> addCommandRule(form, name)
          [] verdict.rule = "arg-not-allowed" -> AddWord(form, m[1], "allowedArgs", m[2])
          [] verdict.rule = "sql-not-allowed" ->
               AddWord(form, name, "allowedSql", SqlIn[verdict.word])
          [] OTHER -> form

\* Offered where extractCommandName finds a name.
suggestBlockCommand(form, line) ==
    LET name == extractCommandName(line)
    IN  CASE form.mode \in {"open", "whitelist"} ->
               [form EXCEPT !.mode = "blacklist", !.commands = <<Plain(name)>>]
          [] form.mode = "blacklist" -> addCommandRule(form, name)
          [] OTHER -> form

\* The editor tells an address from a name by IPV4_RE.
suggestAllowHost(form, target, verdict) ==
    CASE verdict.rule = "closed" ->
           [form EXCEPT !.egress.mode = "whitelist", !.egress.hosts = @ \cup {target}]
      [] verdict.rule = "not-in-whitelist" /\ target \in Ipv4 ->
           [form EXCEPT !.egress.cidrs = @ \cup {target}]
      [] verdict.rule = "not-in-whitelist" /\ target \notin Ipv4 ->
           [form EXCEPT !.egress.hosts = @ \cup {target}]
      [] verdict.rule = "blacklist:" ->
           [form EXCEPT !.egress.hosts = @ \ {verdict.program}, !.egress.cidrs = @ \ {verdict.program}]
      [] OTHER -> form

suggestBlockHost(form, target) ==
    LET field == IF target \in Ipv4 THEN "cidrs" ELSE "hosts"
    IN  CASE form.egress.mode \in {"open", "whitelist"} ->
               [form EXCEPT !.egress.mode = "blacklist", !.egress[field] = {target}]
          [] form.egress.mode = "blacklist" -> [form EXCEPT !.egress[field] = @ \cup {target}]
          [] OTHER -> form

=============================================================================
