---------------------------- MODULE StateMachine ----------------------------
(***************************************************************************)
(* The SMTP protocol state machine of statemachine.go, with the state and  *)
(* command tables of state.go and command.go it is built from.  A Go       *)
(* method that updates sm.state is an operator from the current state to   *)
(* the next one: a rejected transition leaves the state as it is, which is *)
(* all that a caller who drops the returned error can observe.             *)
(***************************************************************************)

\* The constants of type State, named as State.String() prints them.
States == {"Disconnected", "Connected", "Greeted", "Identified", "MailFrom",
           "RcptTo", "Data", "DataDone", "StartTLS", "Terminating",
           "Terminated", "Aborted"}

\* The command verbs ParseCommandVerb recognises.
Verbs == {"HELO", "EHLO", "MAIL", "RCPT", "DATA", "RSET", "NOOP", "QUIT",
          "VRFY", "EXPN", "HELP", "STARTTLS", "AUTH"}

\* CmdUnknown: what ParseCommandVerb makes of any other word.
Unknown == "Unknown"

-----------------------------------------------------------------------------
(* Predicates of state.go. *)

IsTerminal(s) == s \in {"Terminated", "Aborted"}

CanAcceptCommands(s) == s \in {"Greeted", "Identified", "MailFrom", "RcptTo"}

InTransaction(s) == s \in {"MailFrom", "RcptTo", "Data"}

-----------------------------------------------------------------------------
(* The transition table. *)

validTransitions(s) ==
    CASE s = "Disconnected" -> {"Connected"}
      [] s = "Connected"    -> {"Greeted", "Terminated", "Aborted"}
      [] s = "Greeted"      -> {"Identified", "Terminating", "Aborted"}
      [] s = "Identified"   -> {"Identified", "MailFrom", "StartTLS",
                                "Terminating", "Aborted"}
      [] s = "MailFrom"     -> {"RcptTo", "Identified", "Terminating",
                                "Aborted"}
      [] s = "RcptTo"       -> {"RcptTo", "Data", "Identified",
                                "Terminating", "Aborted"}
      [] s = "Data"         -> {"DataDone", "Aborted"}
      [] s = "DataDone"     -> {"Identified", "Terminating", "Aborted"}
      [] s = "StartTLS"     -> {"Greeted", "Aborted"}
      [] s = "Terminating"  -> {"Terminated"}
      [] OTHER              -> {}

\* Mutant: a reset out of the Data state is let through.
ResetFromData(s, t) == t \in validTransitions(s) \/ (s = "Data" /\ t = "Identified")

canTransition(s, t) == t \in validTransitions(s)

Transition(s, t) == IF canTransition(s, t) THEN t ELSE s

nextStateForCommand(s, verb) ==
    CASE verb \in {"HELO", "EHLO"} -> "Identified"
      [] verb = "MAIL"             -> "MailFrom"
      [] verb = "RCPT"             -> "RcptTo"
      [] verb = "DATA"             -> "Data"
      [] verb = "RSET"             -> IF InTransaction(s) THEN "Identified" ELSE s
      [] verb = "QUIT"             -> "Terminating"
      [] verb = "STARTTLS"         -> "StartTLS"
      [] OTHER                     -> s

\* The state after TransitionForCommand(verb, true).
TransitionForCommand(s, verb) == Transition(s, nextStateForCommand(s, verb))

\* Mutant: the end of a message is not a state to reset from.
ResetForgetsDataDone(s) == IF InTransaction(s) THEN Transition(s, "Identified") ELSE s

Reset(s) == IF InTransaction(s) \/ s = "DataDone" THEN Transition(s, "Identified") ELSE s

Connect(s) == IF s = "Disconnected" THEN Transition(s, "Connected") ELSE s

Greet(s) == IF s = "Connected" THEN Transition(s, "Greeted") ELSE s

DataComplete(s) == IF s = "Data" THEN Transition(s, "DataDone") ELSE s

TLSComplete(s) == IF s = "StartTLS" THEN Transition(s, "Greeted") ELSE s

Terminate(s) == Transition(s, "Terminated")

Abort(s) == Transition(s, "Aborted")

-----------------------------------------------------------------------------
(* Which commands each state accepts: command.go and statemachine.go keep  *)
(* one table each.                                                         *)

AllowedCommands(s) ==
    CASE s = "Greeted"    -> {"HELO", "EHLO", "QUIT", "NOOP", "HELP", "RSET"}
      [] s = "Identified" -> {"HELO", "EHLO", "MAIL", "QUIT", "NOOP", "HELP",
                              "RSET", "VRFY", "EXPN", "STARTTLS", "AUTH"}
      [] s = "MailFrom"   -> {"RCPT", "RSET", "QUIT", "NOOP", "HELP"}
      [] s = "RcptTo"     -> {"RCPT", "DATA", "RSET", "QUIT", "NOOP", "HELP"}
      [] OTHER            -> {}

\* Mutant: DATA is accepted before any recipient.
DataWithoutRecipient(s, verb) ==
    verb \in AllowedCommands(s) \/ (verb = "DATA" /\ s = "MailFrom")

IsCommandAllowed(s, verb) == verb \in AllowedCommands(s)

CommandStateRequirements(verb) ==
    CASE verb \in {"HELO", "EHLO"} -> {"Greeted", "Identified"}
      [] verb = "RCPT"             -> {"MailFrom", "RcptTo"}
      [] verb = "DATA"             -> {"RcptTo"}
      [] verb \in {"RSET", "NOOP", "QUIT", "HELP"}
                                   -> {"Greeted", "Identified", "MailFrom", "RcptTo"}
      [] verb \in {"MAIL", "VRFY", "EXPN", "STARTTLS", "AUTH"}
                                   -> {"Identified"}
      [] OTHER                     -> {}

IsStateValidForCommand(s, verb) == s \in CommandStateRequirements(verb)

CommandRequiresArgument(verb) == verb \in {"HELO", "EHLO", "MAIL", "RCPT"}

CommandForbidsArgument(verb) == verb \in {"DATA", "RSET", "QUIT", "STARTTLS"}
=============================================================================
