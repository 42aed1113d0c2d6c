------------------------------ MODULE DappStatuses ------------------------------
(***************************************************************************)
(* PhishingController with the statuses DappsController shows: the list of *)
(* dangerous sites, fetched as a whole and then by differences, the checks *)
(* of single sites with the service while there is no list, and the        *)
(* statuses of the apps and of the one that asks to be connected.          *)
(*                                                                         *)
(* A site is its app; sites that are listed by their domain are left out,  *)
(* as are addresses (checked in the same way, and not shown by             *)
(* DappsController), the frame an app runs in, and how often the list is   *)
(* fetched.  A check is of the apps or of the one that asks.               *)
(***************************************************************************)
EXTENDS Naturals

CONSTANTS Sites,
          Hosted,        \* on SUSPICIOUS_HOSTING_DOMAINS
          ListAt,        \* the list of the service at each version from 1 on
          Checks,        \* identifiers of checks, used once each
          MAX_VERSION, MAX_STARTS   \* bounds: versions and restarts

ASSUME StatusesAssumption ==
    /\ MAX_VERSION \in Nat \ {0} /\ MAX_STARTS \in Nat
    /\ ListAt \in [1..MAX_VERSION -> SUBSET Sites]

VARIABLES domains,       \* #domains
          version,       \* #version, 0 without a list
          listStored,    \* phishing in the storage
          listLoaded,    \* #load is over
          listUpdate,    \* where #continuouslyUpdatePhishing is
          published,     \* the version of the service
          checked,       \* #domainsBlacklistedStatus
          shown,         \* blacklisted of the apps there are
          shownStored,   \* the same in the storage
          asks,          \* dappToConnect: none, or the one shown
          checks,        \* checks that wait for the service
          catalogueDue,  \* #fetchAndUpdateDapps did not come to the statuses yet
          starts

listVars == <<domains, version, listStored, listLoaded, listUpdate, published>>
shownVars == <<shown, shownStored, asks>>
statusVars == <<listVars, checked, shownVars, checks, catalogueDue, starts>>

Statuses == {"LOADING", "FAILED_TO_GET", "BLACKLISTED", "SUSPICIOUS_HOSTING", "VERIFIED"}
AppStatuses == UNION {[S -> Statuses] : S \in SUBSET Sites}
NotBegun == [at |-> "unused"]
Over == [at |-> "over"]

StatusesTypeOK ==
    /\ domains \subseteq Sites /\ version \in 0..MAX_VERSION
    /\ listStored \in [version : 0..MAX_VERSION, domains : SUBSET Sites]
    /\ listLoaded \in BOOLEAN /\ listUpdate \in {"idle", "fetch", "store"}
    /\ published \in 1..MAX_VERSION
    /\ checked \in [Sites -> Statuses \cup {"none"}]
    /\ shown \in AppStatuses /\ shownStored \in AppStatuses
    /\ asks \subseteq [site : Sites, status : Statuses]
    /\ checks \in [Checks -> {NotBegun, Over} \cup
         [at : {"service"}, for : {"apps", "request"}, sites : SUBSET Sites,
          unknown : SUBSET Sites]]
    /\ catalogueDue \in BOOLEAN /\ starts \in 0..MAX_STARTS

StatusesInit ==
    /\ domains = {} /\ version = 0 /\ listStored = [version |-> 0, domains |-> {}]
    /\ listLoaded = FALSE /\ listUpdate = "idle" /\ published = 1
    /\ checked = [d \in Sites |-> "none"]
    /\ shown \in {[d \in S |-> "LOADING"] : S \in SUBSET Sites} /\ shownStored = shown
    /\ asks = {} /\ checks = [c \in Checks |-> NotBegun]
    /\ catalogueDue = TRUE /\ starts = 0

-----------------------------------------------------------------------------
(* The list. *)

LoadList ==
    /\ ~listLoaded /\ listLoaded' = TRUE
    /\ domains' = listStored.domains /\ version' = listStored.version
    /\ UNCHANGED <<listStored, listUpdate, published, checked, shownVars, checks,
                   catalogueDue, starts>>

Publish ==
    /\ published < MAX_VERSION /\ published' = published + 1
    /\ UNCHANGED <<domains, version, listStored, listLoaded, listUpdate, checked,
                   shownVars,
                   checks, catalogueDue, starts>>

\* continuouslyUpdatePhishing: one at a time.
UpdateList ==
    /\ listLoaded /\ listUpdate = "idle" /\ listUpdate' = "fetch"
    /\ UNCHANGED <<domains, version, listStored, listLoaded, published, checked, shownVars,
                   checks, catalogueDue, starts>>

UpdateListFails ==
    /\ listUpdate = "fetch" /\ listUpdate' = "idle"
    /\ UNCHANGED <<domains, version, listStored, listLoaded, published, checked, shownVars,
                   checks, catalogueDue, starts>>

\* The whole list, or the differences to the version there is.
NewList ==
    IF version = 0 THEN ListAt[published]
    ELSE (domains \cup (ListAt[published] \ ListAt[version]))
           \ (ListAt[version] \ ListAt[published])

\* getDomainBlacklistedStatus with that list; otherwise is what is known if
\* there is no list.
StatusBy(list, d, otherwise) ==
    IF d \in list THEN "BLACKLISTED"
    ELSE IF d \in Hosted THEN "SUSPICIOUS_HOSTING"
    ELSE IF list # {} THEN "VERIFIED" ELSE otherwise

\* Mutant: apps that were judged once keep their status.
SyncedIfUnknown(d, list) ==
    IF shown[d] \in {"LOADING", "FAILED_TO_GET"} THEN StatusBy(list, d, shown[d]) ELSE shown[d]

\* #syncDappsBlacklistedStatusWithPhishing.
Synced(d, list) == StatusBy(list, d, shown[d])

\* The list came: the apps get their statuses of it in the same tick, and are
\* stored if one changed.  The one that asks does not.
ListArrives ==
    /\ listUpdate = "fetch" /\ listUpdate' = "store"
    /\ domains' = NewList /\ version' = published
    /\ shown' = [d \in DOMAIN shown |-> Synced(d, NewList)]
    /\ shownStored' = IF shown' = shown THEN shownStored ELSE shown'
    /\ UNCHANGED <<listStored, listLoaded, published, checked, asks, checks,
                   catalogueDue, starts>>

ListStored ==
    /\ listUpdate = "store" /\ listUpdate' = "idle"
    /\ listStored' = [version |-> version, domains |-> domains]
    /\ UNCHANGED <<domains, version, listLoaded, published, checked, shownVars, checks,
                   catalogueDue, starts>>

-----------------------------------------------------------------------------
(* Checks: updateDomainsBlacklistedStatus. *)

ByList(sites) == [d \in Sites |-> IF d \in sites THEN StatusBy(domains, d, checked[d])
                                                 ELSE checked[d]]
Unknown(sites) == {d \in sites : ByList(sites)[d] \in {"none", "FAILED_TO_GET", "LOADING"}}

\* The callback with the statuses known: those of the apps, and of the one that
\* asks if it is still the same.
Tell(for, sites, apps, requests, known) ==
    /\ shown' = [d \in DOMAIN apps |-> IF d \in sites THEN known[d] ELSE apps[d]]
    /\ asks' = IF for = "apps" THEN requests
               ELSE {[r EXCEPT !.status = IF r.site \in sites THEN known[r.site] ELSE @] :
                       r \in requests}

\* Up to the request to the service, if some statuses are unknown.
Check(for, sites, apps, requests) ==
    /\ checked' = [d \in Sites |-> IF d \in Unknown(sites) THEN "LOADING" ELSE ByList(sites)[d]]
    /\ Tell(for, sites, apps, requests, checked')
    /\ \E c \in Checks :
         /\ checks[c] = NotBegun
         /\ checks' = [checks EXCEPT ![c] =
              IF Unknown(sites) = {} THEN Over
              ELSE [at |-> "service", for |-> for, sites |-> sites,
                    unknown |-> Unknown(sites)]]
    /\ UNCHANGED <<listVars, starts>>

\* The service answers from some version of its list, or does not know a site.
CheckAnswered(c) ==
    /\ checks[c].at = "service" /\ checks' = [checks EXCEPT ![c] = Over]
    /\ \E v \in 1..published, answered \in SUBSET checks[c].unknown :
         checked' = [d \in Sites |->
           IF d \in answered THEN (IF d \in ListAt[v] THEN "BLACKLISTED" ELSE "VERIFIED")
           ELSE IF d \in checks[c].unknown THEN "FAILED_TO_GET" ELSE checked[d]]
    /\ Tell(checks[c].for, checks[c].sites, shown, asks, checked')
    /\ UNCHANGED <<listVars, shownStored, catalogueDue, starts>>

\* It fails, and nobody is told.
CheckFails(c) ==
    /\ checks[c].at = "service" /\ checks' = [checks EXCEPT ![c] = Over]
    /\ checked' = [d \in Sites |-> IF d \in checks[c].sites THEN "FAILED_TO_GET" ELSE checked[d]]
    /\ UNCHANGED <<listVars, shownVars, catalogueDue, starts>>

-----------------------------------------------------------------------------
(* The apps: DappsController. *)

\* The catalogue is replaced; its apps are checked again, the others too.
ReplaceCatalogue(sites) ==
    /\ catalogueDue /\ catalogueDue' = FALSE
    /\ Check("apps", sites \cup DOMAIN shown,
             [d \in sites \cup DOMAIN shown |->
                IF d \in sites THEN "LOADING" ELSE shown[d]], asks)
    /\ UNCHANGED shownStored

\* Also stored after the check, and by every change of a connection.
StoreShown ==
    /\ shownStored # shown /\ shownStored' = shown
    /\ UNCHANGED <<listVars, checked, shown, asks, checks, catalogueDue, starts>>

\* setDappToConnectIfNeeded.
ShowAsking(d) ==
    /\ asks = {}
    /\ Check("request", {d}, shown,
             {[site |-> d, status |-> IF d \in DOMAIN shown THEN shown[d] ELSE "LOADING"]})
    /\ UNCHANGED <<shownStored, catalogueDue>>

\* addDapp with what is shown of the one that asked, or not.
Answer(connect) ==
    /\ asks # {} /\ asks' = {}
    /\ \E r \in asks :
         \/ /\ connect /\ r.site \notin DOMAIN shown
            /\ shown' = [d \in DOMAIN shown \cup {r.site} |->
                           IF d = r.site THEN r.status ELSE shown[d]]
            /\ shownStored' = shown'
         \/ /\ connect => r.site \in DOMAIN shown
            /\ UNCHANGED <<shown, shownStored>>
    /\ UNCHANGED <<listVars, checked, checks, catalogueDue, starts>>

\* A new process.  The list is loaded beside the apps.
StartAgain ==
    /\ starts < MAX_STARTS /\ starts' = starts + 1
    /\ domains' = {} /\ version' = 0 /\ listLoaded' = FALSE /\ listUpdate' = "idle"
    /\ checked' = [d \in Sites |-> "none"]
    /\ shown' = shownStored /\ asks' = {} /\ catalogueDue' = TRUE
    /\ checks' = [c \in Checks |-> IF checks[c] = NotBegun THEN NotBegun ELSE Over]
    /\ UNCHANGED <<listStored, published, shownStored>>

\* The catalogue is up to date: apps whose status is not known are checked, and
\* those that turned out to be hosted.
CheckAgain ==
    LET again == {d \in DOMAIN shown :
                    \/ shown[d] \in {"LOADING", "FAILED_TO_GET"}
                    \/ shown[d] # "SUSPICIOUS_HOSTING"
                         /\ StatusBy(domains, d, "none") = "SUSPICIOUS_HOSTING"}
    IN /\ catalogueDue /\ catalogueDue' = FALSE
       /\ \/ again # {} /\ Check("apps", again, shown, asks)
          \/ again = {} /\ UNCHANGED <<listVars, checked, shown, asks, checks, starts>>
       /\ UNCHANGED shownStored

StatusesNext ==
    \/ LoadList \/ Publish \/ UpdateList \/ UpdateListFails \/ ListArrives \/ ListStored
    \/ \E c \in Checks : CheckAnswered(c) \/ CheckFails(c)
    \/ \E S \in SUBSET Sites : ReplaceCatalogue(S)
    \/ StoreShown \/ CheckAgain
    \/ \E d \in Sites : ShowAsking(d)
    \/ \E connect \in BOOLEAN : Answer(connect)
    \/ StartAgain

StatusesSpec == StatusesInit /\ [][StatusesNext]_statusVars

\* Loads end, the interval of the list goes on, and its fetches do not fail for
\* ever.  Nothing is assumed of the service's answers to checks, nor of users.
StatusesFairness ==
    /\ WF_statusVars(LoadList) /\ WF_statusVars(UpdateList)
    /\ WF_statusVars(ListStored) /\ SF_statusVars(ListArrives)

FairStatusesSpec == StatusesSpec /\ StatusesFairness

-----------------------------------------------------------------------------
\* Whatever late answers, requests with an old status and restarts did to the
\* statuses of the apps, in the end they are those of the newest list, and stay so
\* (shouldSyncDapps is set by every update of the list, phishing.ts:353).
StatusesSettle ==
    <>[](\A d \in DOMAIN shown : shown[d] = StatusBy(ListAt[published], d, shown[d]))
================================================================================
