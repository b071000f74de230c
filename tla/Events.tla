------------------------------- MODULE Events -------------------------------
(***************************************************************************)
(* The events Chatwoot posts to the bot and the stateless decisions taken  *)
(* on them: which flow a message_created or a conversation_updated enters. *)
(* A conversation's labels are a set of names: no code of the bot depends  *)
(* on their order or multiplicity.                                         *)
(*                                                                         *)
(* A conversation_updated is [conv, labels, previous]: labels is the list  *)
(* of the conversation when the event was emitted, previous the list       *)
(* before it.  Chatwoot puts "labels" in changed_attributes exactly when   *)
(* the two differ.                                                         *)
(***************************************************************************)
CONSTANTS
    Label,      \* the names of labels
    LabelBot,   \* cfg.LabelBot: hands the conversation to triage (fila-bot)
    LabelCSAT   \* cfg.LabelCSAT: starts the survey (fila-csat)

ASSUME LabelAssumption == LabelBot \in Label /\ LabelCSAT \in Label

LabelSet == SUBSET Label

HasLabel(labels, target) == target \in labels

\* add is a set of at most one label: {} stands for the empty string.
ReplaceLabel(current, remove, add) == (current \ {remove}) \union add

LabelsChanged(ev) == ev.previous # ev.labels

LabelJustAdded(ev, target) ==
    /\ LabelsChanged(ev)
    /\ HasLabel(ev.labels, target)
    /\ ~HasLabel(ev.previous, target)

SpuriousLabelEntry(ev, target) ==
    LabelsChanged(ev) /\ ~LabelJustAdded(ev, target)

\* The edge filter: only incoming, public messages of the customer.
FromCustomer(msg) == msg.incoming /\ msg.contact /\ ~msg.private

MessageFlow(labels) ==
    CASE HasLabel(labels, LabelCSAT) -> "csat"
      [] ~HasLabel(labels, LabelCSAT) /\ HasLabel(labels, LabelBot) -> "triage"
      [] OTHER -> "ignored"

UpdateFlow(ev) ==
    LET flow == MessageFlow(ev.labels)
        target == IF flow = "csat" THEN LabelCSAT ELSE LabelBot
    IN  IF flow # "ignored" /\ SpuriousLabelEntry(ev, target)
        THEN "ignored" ELSE flow
=============================================================================
