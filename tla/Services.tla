------------------------------ MODULE Services ------------------------------
(***************************************************************************)
(* The services around the execution of interventions, side by side.       *)
(* Their models share no variable, so that no step of one is a step of     *)
(* another: a behaviour of all of them satisfies each property iff its     *)
(* projection on one service does.  Init therefore chooses the service     *)
(* that runs, and the others stay as they start, with one of their initial *)
(* states where they have several.                                         *)
(***************************************************************************)
EXTENDS WalletAuth, NotificationCenter, NotificationList, WorkerProcess, Browser,
        PolicyForm, ProductPages, AaveReading

VARIABLE service

ServicesInit ==
  /\ AuthInit /\ CenterInit /\ ListInit /\ WorkerInit
  /\ BrowserInit /\ FormInit /\ PagesInit /\ ReadingInit
  /\ service \in {"auth", "notices", "list", "worker", "tab", "form", "pages", "reading"}
  /\ (service # "notices" => webhook) /\ (service # "list" => filter = "all")

NoAuth    == UNCHANGED authVars
NoNotices == UNCHANGED centerVars
NoList    == UNCHANGED listVars
NoWorker  == UNCHANGED workerVars
NoTab     == UNCHANGED browserVars
NoForm    == UNCHANGED formVars
NoPages   == UNCHANGED pagesVars
NoReading == UNCHANGED readingVars

\* One conjunct per disjunct: what does not run.
ServicesNext ==
  /\ UNCHANGED service
  /\ \/ service = "auth" /\ AuthNext /\ NoNotices /\ NoList /\ NoWorker /\ NoTab /\ NoForm /\ NoPages /\ NoReading
     \/ service = "notices" /\ CenterNext /\ NoAuth /\ NoList /\ NoWorker /\ NoTab /\ NoForm /\ NoPages /\ NoReading
     \/ service = "list" /\ ListNext /\ NoAuth /\ NoNotices /\ NoWorker /\ NoTab /\ NoForm /\ NoPages /\ NoReading
     \/ service = "worker" /\ WorkerNext /\ NoAuth /\ NoNotices /\ NoList /\ NoTab /\ NoForm /\ NoPages /\ NoReading
     \/ service = "tab" /\ BrowserNext /\ NoAuth /\ NoNotices /\ NoList /\ NoWorker /\ NoForm /\ NoPages /\ NoReading
     \/ service = "form" /\ FormNext /\ NoAuth /\ NoNotices /\ NoList /\ NoWorker /\ NoTab /\ NoPages /\ NoReading
     \/ service = "pages" /\ PagesNext /\ NoAuth /\ NoNotices /\ NoList /\ NoWorker /\ NoTab /\ NoForm /\ NoReading
     \/ service = "reading" /\ ReadingNext /\ NoAuth /\ NoNotices /\ NoList /\ NoWorker /\ NoTab /\ NoForm /\ NoPages

servicesVars == <<service, authVars, centerVars, listVars, workerVars, browserVars, formVars,
                  pagesVars, readingVars>>

\* A service that does not run has nothing that is due, so that the fairness of
\* its actions excludes no behaviour of another.
ServicesSpec == /\ ServicesInit /\ [][ServicesNext]_servicesVars
                /\ CenterFairness /\ WorkerFairness /\ BrowserFairness

\* The types of all services.
ServicesTypeOK ==
  /\ AuthTypeOK /\ CenterTypeOK /\ ListTypeOK /\ WorkerTypeOK
  /\ BrowserTypeOK /\ FormTypeOK /\ PagesTypeOK /\ ReadingTypeOK
=============================================================================
