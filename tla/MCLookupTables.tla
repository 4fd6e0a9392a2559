----------------------------- MODULE MCLookupTables -----------------------------
(***************************************************************************)
(* A small instance: two symbols, one with a committed token file, and two *)
(* fresh mints; one label; the creating scripts run side by side.          *)
(***************************************************************************)
EXTENDS LookupTables

CONSTANTS
    old,
    Questions,  \* what the behaviours of a run are about
    MaxStarts,
    MaxHelperStarts

VARIABLES
    question,
    starts      \* bound: how many scripts and commands have been started

MCCommitted == [s \in Symbols |-> IF s = "dai" THEN old ELSE NoMint]

mcVars == <<toolVars, tableVars, question, starts>>

\* Creations side by side, with deaths, the passing of slots and the closing of tables; the
\* helper between runs of create-token-alt.ts; the commands of token-cli; or the two scripts of
\* maintenance on tables in every state.
Starting ==
    /\ starts < IF question = "helper" THEN MaxHelperStarts ELSE MaxStarts
    /\ starts' = starts + 1

MCNext ==
    /\ UNCHANGED question
    /\ \/ /\ question = "tables"
          /\ \/ CreationStarts /\ Starting
             \/ /\ \/ TokenScriptStep \/ ProtocolScriptStep \/ UniversalScriptStep
                   \/ ScriptDies \/ NextSlot \/ \E t \in Slots : RetireTable(t)
                /\ UNCHANGED starts
       \/ /\ question = "helper"
          /\ \/ (StartTokenScript \/ StartProtocolScript) /\ Starting
             \/ /\ \/ TokenScriptStep \/ ProtocolScriptStep
                   \/ HelperStep \/ NextSlot
                   \/ \E t \in Slots : RetireTable(t)
                /\ UNCHANGED starts
       \/ /\ question = "tokens"
          /\ \/ ((CliStarts /\ UNCHANGED tableVars) \/ StartTokenScript) /\ Starting
             \/ /\ \/ (CliStep \/ CliDies) /\ UNCHANGED tableVars
                   \/ TokenScriptStep
                /\ UNCHANGED starts
       \/ /\ question = "upkeep"
          /\ \/ StartProtocolScript /\ Starting
             \/ /\ \/ ProtocolScriptStep \/ Maintenance \/ NextSlot
                   \/ \E t \in Slots : RetireTable(t)
                /\ UNCHANGED starts

MCInit == TablesInit /\ question \in Questions /\ starts = 0

MCSpec ==
    /\ MCInit
    /\ [][MCNext]_mcVars
    /\ WF_mcVars(TokenScriptStep /\ UNCHANGED <<question, starts>>)

================================================================================
