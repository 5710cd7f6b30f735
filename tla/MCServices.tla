----------------------------- MODULE MCServices -----------------------------
(***************************************************************************)
(* Credentials, accounts, a provider client, a conversation, a scorecard   *)
(* and the replay of an incident share no state but what their modules     *)
(* leave to nondeterminism, so a behaviour exercises one of them, chosen   *)
(* at the start.                                                           *)
(***************************************************************************)
EXTENDS Credentials, Accounts, ProviderClient, MCConversation, MCScorecard, MCIncidentDirector, TLC

CONSTANT Together   \* bound: transactions on credentials and profiles open at once

VARIABLE slice

Busy == {a \in Actors : tx[a].pc # "idle"}

MCInit ==
  /\ Init /\ AccountsInit /\ ClientInit /\ TalkInit /\ ScorecardInit /\ IncidentInit
  /\ slice \in {"credentials", "accounts", "client", "talk", "scorecard", "incident"}
  /\ slice # "client" => provider = "openai"
  /\ slice # "talk" => wire = "chat" /\ native
  /\ slice # "scorecard" => scenario = "terminal"

Only(name, next, rest) == slice = name /\ next /\ UNCHANGED <<slice, rest>>

MCNext ==
  \/ Only("credentials", Next /\ Cardinality(Busy') <= Together, <<accountVars, clientVars, talkVars, cardVars, incidentVars>>)
  \/ Only("accounts", AccountsNext, <<vars, clientVars, talkVars, cardVars, incidentVars>>)
  \/ Only("client", ClientNext, <<vars, accountVars, talkVars, cardVars, incidentVars>>)
  \/ Only("talk", TalkNext, <<vars, accountVars, clientVars, cardVars, incidentVars>>)
  \/ Only("scorecard", ScorecardNext, <<vars, accountVars, clientVars, talkVars, incidentVars>>)
  \/ Only("incident", IncidentNext, <<vars, accountVars, clientVars, talkVars, cardVars>>)

MCSpec == MCInit /\ [][MCNext]_<<vars, accountVars, clientVars, talkVars, cardVars, incidentVars, slice>>

Symmetry == Permutations(Clients) \cup Permutations(Profiles)
=============================================================================
