-------------------------------- MODULE MCOtp --------------------------------
(***************************************************************************)
(* The one-time codes for TLC, and the sending of messages in four slices: *)
(* requests of two workers around a budget, with faults; the same around a *)
(* midnight; two campaigns beside a look at their settings, without a cap; *)
(* and one campaign that shares the budget with a request.  None of them   *)
(* reads what the codes keep, so a behaviour explores one while the others *)
(* rest.                                                                   *)
(***************************************************************************)
EXTENDS Otp, TLC

CONSTANTS Worker, Request, Campaign,
          Aside, Solo, Lone   \* the one request, campaign and worker of the later slices

VARIABLES stored, cache, day, row, task, billed, lifted, accepted, trouble,
          blurred, uncapped, mixed, wrong,
          focus     \* which of the five runs

smsVars == <<stored, cache, day, row, task, billed, lifted, accepted, trouble,
            blurred, uncapped, mixed, wrong>>

Cap == INSTANCE SmsSend WITH
         Campaign <- {}, Looked <- {"count"}, Budget <- 1, EnvBudget <- 0,
         Audience <- 0, LastDay <- 0, MaxTrouble <- 1, MaxBilled <- 2
Night == INSTANCE SmsSend WITH
         Campaign <- {}, Looked <- {"count"}, Budget <- 1, EnvBudget <- 0,
         Audience <- 0, LastDay <- 1, MaxTrouble <- 0, MaxBilled <- 1
Texts == INSTANCE SmsSend WITH
         Worker <- {Lone}, Request <- {Aside}, Looked <- {"text"}, Budget <- 0, EnvBudget <- 0,
         Audience <- 1, LastDay <- 0, MaxTrouble <- 1, MaxBilled <- 0
Share == INSTANCE SmsSend WITH
         Worker <- {Lone}, Request <- {Aside}, Campaign <- {Solo}, Looked <- {"count"},
         Budget <- 1, EnvBudget <- 0, Audience <- 2, LastDay <- 0, MaxTrouble <- 1, MaxBilled <- 1

ASSUME SmsAssumption == /\ Cap!SendAssumption /\ Night!SendAssumption
                        /\ Texts!SendAssumption /\ Share!SendAssumption

Symmetry == Permutations(Handler) \cup Permutations(Challenge) \cup Permutations(Worker)
            \cup Permutations(Request \cup Campaign)

MCInit ==
  /\ Init
  /\ \/ focus \in {"codes", "cap"} /\ Cap!Init
     \/ focus = "night" /\ Night!Init
     \/ focus = "texts" /\ Texts!Init
     \/ focus = "share" /\ Share!Init

MCNext ==
  /\ UNCHANGED focus
  /\ \/ focus = "codes" /\ Next /\ UNCHANGED smsVars
     \/ focus = "cap" /\ Cap!Next /\ UNCHANGED vars
     \/ focus = "night" /\ Night!Next /\ UNCHANGED vars
     \/ focus = "texts" /\ Texts!Next /\ UNCHANGED vars
     \/ focus = "share" /\ Share!Next /\ UNCHANGED vars

MCSpec == MCInit /\ [][MCNext]_<<vars, smsVars, focus>>

TypesOK == /\ TypeOK
           /\ CASE focus \in {"codes", "cap"} -> Cap!TypeOK
                [] focus = "night" -> Night!TypeOK
                [] focus = "texts" -> Texts!TypeOK
                [] focus = "share" -> Share!TypeOK
CapUnlessBlurred == /\ focus = "cap" => Cap!CapUnlessBlurred
                    /\ focus = "night" => Night!CapUnlessBlurred
                    /\ focus = "share" => Share!CapUnlessBlurred
\* What the operator is told of a campaign, and what its audience was told.
CampaignsTrue == /\ focus = "texts" => Texts!OwnText /\ Texts!ReportTrue
                 /\ focus = "share" => Share!OwnText /\ Share!ReportTrue
===============================================================================
