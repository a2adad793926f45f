------------------------------- MODULE Stores -------------------------------
(***************************************************************************)
(* What the phone keeps on disk and the screens that show it: accounts.rs, *)
(* quickdial.rs, keyring.rs and call_log.rs, the settings dialog that      *)
(* edits them, and in window.rs the start-up, the quickdial bar and the    *)
(* account selector.                                                       *)
(*                                                                         *)
(* External: libsecret, GSettings and the file system.  A file is missing, *)
(* whole or torn, which no JSON parser accepts.  Ids are numbers in the    *)
(* order new_id gives them out.  The three files have nothing to do with   *)
(* each other: a behaviour exercises one, named by `file'.                 *)
(***************************************************************************)
EXTENDS CallLog

CONSTANTS
    Legacy,   \* the old single-account settings and password are there
    MaxIds    \* bound: ids given out

ASSUME StoresAssumption == Legacy \in BOOLEAN /\ MaxIds \in Nat \ {0}

VARIABLES
    file,            \* the file the behaviour exercises
    accounts_json, quickdials_json,
    keyring,         \* the passwords of account ids
    last_id,         \* what new_id gave out last
    dialog,          \* the settings dialog is open
    account_rows, quickdial_rows,    \* its rows: the ids they edit
    registered_ids,  \* what it takes for the connected accounts
    quickdial_bar,   \* the ids behind the sidebar's buttons
    active_engines,  \* accounts with an engine, oldest first
    registered,      \* those whose engine is registered
    default_account, \* the setting: an id, 0 for none
    selector_account_ids, selected   \* the header bar's selector: its ids, an index

fileVars == <<accounts_json, quickdials_json, keyring, last_id>>
dialogVars == <<dialog, account_rows, quickdial_rows, registered_ids>>
selectorVars == <<default_account, selector_account_ids, selected>>
engineVars == <<active_engines, registered>>
storeVars ==
    <<logVars, file, fileVars, dialogVars, quickdial_bar, engineVars, selectorVars>>

Id == 1 .. MaxIds

\* Of an account: where it connects to, with "host:port" in one field as old versions
\* wrote it, its port ("5060", another one, or the 0 of Account::new) and whether it
\* registers on start-up.
Server == {"", "host", "host:port"}
Port == {"0", "5060", "own"}
Account == [id : Id, server : Server, port : Port, startup : BOOLEAN]
QuickDial == [id : Id, number : {"", "number"}]

\* No JSON parser accepts a torn file.
Whole(list) == [st |-> "whole", list |-> list]
Missing == [st |-> "missing", list |-> <<>>]
Torn == [st |-> "torn", list |-> <<>>]

Ids(list) == [i \in DOMAIN list |-> list[i].id]
Stored(json) == Range(Ids(json.list))
Without(seq, id) == Where(seq, LAMBDA x : x # id)
Dropped(list, id) == Where(list, LAMBDA x : x.id # id)
\* Mutant of Replaced: x is a new entry.
ReplacedPushed(list, x) == Append(list, x)

\* The entry of the list with x's id becomes x.
Replaced(list, x) == [i \in DOMAIN list |-> IF list[i].id = x.id THEN x ELSE list[i]]

-----------------------------------------------------------------------------
(***************************************************************************)
(* accounts.rs.                                                            *)
(***************************************************************************)
migrate_embedded_port(a) ==
    IF a.port = "5060" /\ a.server = "host:port" THEN [a EXCEPT !.server = "host", !.port = "own"]
    ELSE a

LegacyAccount(id) == [id |-> id, server |-> "host", port |-> "5060", startup |-> TRUE]
NewAccount(id) == [id |-> id, server |-> "", port |-> "0", startup |-> TRUE]

\* Mutant of Migrates: an empty list is no list.
MigratesEmpty(json) == Legacy /\ json.list = <<>>

\* A file that is not there or cannot be parsed makes load fall back on the old
\* settings and save what they hold.  Every other write is whole when the next load
\* comes, so only the program's first load may meet such a file.
Migrates(json) == Legacy /\ json.st # "whole"

load(json) == [i \in DOMAIN json.list |-> migrate_embedded_port(json.list[i])]

\* Bound on new_id; among accounts the last id is left to the start's migration.
IdLeft == IF file = "accounts" THEN last_id + 1 < MaxIds ELSE last_id < MaxIds

-----------------------------------------------------------------------------
(***************************************************************************)
(* The account selector.                                                   *)
(***************************************************************************)
\* Mutant of SelectorQuiet: the handler hears set_model, which selects the first.
SelectorHeard(ids) == default_account' = IF ids = <<>> THEN default_account ELSE ids[1]

\* suppress_account_save keeps the handler away from the setting.
SelectorQuiet(ids) == UNCHANGED default_account

\* refresh_account_selector, after the engines are set.
refresh_account_selector(list) ==
    LET ids == Where(active_engines',
                     LAMBDA a : a \in registered' /\ a \in Range(Ids(list)))
        saved == SelectInSeq(ids, LAMBDA a : a = default_account) IN
    /\ selector_account_ids' = ids
    /\ selected' = IF saved = 0 THEN 1 ELSE saved
    /\ SelectorQuiet(ids)

\* What start_call takes when no account is named.
selected_outgoing_account_id ==
    IF selected \in DOMAIN selector_account_ids THEN selector_account_ids[selected] ELSE 0

UserSelects(i) ==
    /\ i \in DOMAIN selector_account_ids /\ i # selected
    /\ selected' = i /\ default_account' = selector_account_ids[i]
    /\ UNCHANGED <<logVars, file, fileVars, dialogVars, quickdial_bar, engineVars,
                   selector_account_ids>>

-----------------------------------------------------------------------------
(***************************************************************************)
(* Engines come and go.                                                    *)
(***************************************************************************)
\* connect_account for those of the list whose id is in C.  Its test for a second engine
\* finds none: each of its callers has dropped the account's entry before.
Connected(list, C) == Ids(Where(list, LAMBDA a : a.id \in C /\ a.server # ""))

disconnect_account(a, list) ==
    /\ active_engines' = Without(active_engines, a) /\ registered' = registered \ {a}
    /\ refresh_account_selector(list)

\* connect_account_by_id: the selector is refreshed before the engine is back.
connect_account_by_id(a, list) ==
    /\ active_engines' = Without(active_engines, a) \o Connected(list, {a})
    /\ registered' = registered \ {a}
    /\ refresh_account_selector(list)

EngineFrame == UNCHANGED <<logVars, file, fileVars, dialogVars, quickdial_bar>>

\* SipEvent::Registered and RegistrationFailed.
Registers(a) ==
    /\ a \in Range(active_engines) \ registered
    /\ registered' = registered \cup {a} /\ UNCHANGED active_engines
    /\ refresh_account_selector(load(accounts_json))
    /\ EngineFrame

RegistrationFails(a) ==
    /\ a \in Range(active_engines)
    /\ registered' = registered \ {a} /\ UNCHANGED active_engines
    /\ refresh_account_selector(load(accounts_json))
    /\ EngineFrame

\* reconnect_all: every engine anew; the selector stays as it is.
ReconnectAll ==
    /\ registered # {} /\ registered' = {}
    /\ active_engines' = Where(active_engines, LAMBDA a :
           Connected(load(accounts_json), {a}) # <<>>)
    /\ UNCHANGED selectorVars /\ EngineFrame

-----------------------------------------------------------------------------
(***************************************************************************)
(* The settings dialog.                                                    *)
(***************************************************************************)
OpenSettings ==
    /\ ~dialog /\ dialog' = TRUE
    /\ registered_ids' = registered
    /\ account_rows' = Ids(load(accounts_json))
    /\ quickdial_rows' = Ids(quickdials_json.list)
    /\ UNCHANGED <<logVars, file, fileVars, quickdial_bar, engineVars, selectorVars>>

AccountsFrame == UNCHANGED <<logVars, file, quickdials_json, dialog, quickdial_rows, quickdial_bar>>

AddAccount ==
    /\ dialog /\ file = "accounts" /\ IdLeft
    /\ last_id' = last_id + 1
    /\ accounts_json' = Whole(Append(load(accounts_json), NewAccount(last_id')))
    /\ account_rows' = Append(account_rows, last_id')
    /\ UNCHANGED <<keyring, registered_ids, engineVars, selectorVars>> /\ AccountsFrame

\* The delete button of a row: the file, the password, the row, then the engine.
DeleteAccount(a) ==
    /\ dialog /\ file = "accounts" /\ a \in Range(account_rows)
    /\ accounts_json' = Whole(Dropped(load(accounts_json), a))
    /\ keyring' = [keyring EXCEPT ![a] = "none"]
    /\ account_rows' = Without(account_rows, a)
    /\ registered_ids' = registered_ids \ {a}
    /\ disconnect_account(a, accounts_json'.list)
    /\ UNCHANGED last_id /\ AccountsFrame

\* A row's save button, with what its fields hold by then.  An account that the
\* dialog takes for connected is connected anew.
SaveAccount(a, server, port, startup) ==
    /\ dialog /\ file = "accounts" /\ a \in Range(account_rows)
    /\ accounts_json' = Whole(Replaced(load(accounts_json),
           [id |-> a, server |-> server, port |-> port, startup |-> startup]))
    /\ keyring' = [keyring EXCEPT ![a] = "typed"]
    /\ IF a \in registered_ids
       THEN connect_account_by_id(a, load(accounts_json'))
       ELSE UNCHANGED <<engineVars, selectorVars>>
    /\ UNCHANGED <<last_id, account_rows, registered_ids>> /\ AccountsFrame

\* A row's switch.
ToggleAccount(a) ==
    /\ dialog /\ file = "accounts" /\ a \in Range(account_rows)
    /\ IF a \in registered_ids
       THEN registered_ids' = registered_ids \ {a} /\ disconnect_account(a, load(accounts_json))
       ELSE registered_ids' = registered_ids \cup {a}
            /\ connect_account_by_id(a, load(accounts_json))
    /\ UNCHANGED <<fileVars, account_rows>> /\ AccountsFrame

QuickdialsFrame ==
    UNCHANGED <<logVars, file, accounts_json, keyring, dialog, account_rows, registered_ids,
                quickdial_bar, engineVars, selectorVars>>

AddQuickdial ==
    /\ dialog /\ file = "quickdials" /\ IdLeft
    /\ last_id' = last_id + 1
    /\ quickdials_json' =
           Whole(Append(quickdials_json.list, [id |-> last_id', number |-> ""]))
    /\ quickdial_rows' = Append(quickdial_rows, last_id')
    /\ QuickdialsFrame

DeleteQuickdial(q) ==
    /\ dialog /\ q \in Range(quickdial_rows)
    /\ quickdials_json' = Whole(Dropped(quickdials_json.list, q))
    /\ quickdial_rows' = Without(quickdial_rows, q)
    /\ UNCHANGED last_id /\ QuickdialsFrame

SaveQuickdial(q, number) ==
    /\ dialog /\ q \in Range(quickdial_rows)
    /\ quickdials_json' = Whole(Replaced(quickdials_json.list, [id |-> q, number |-> number]))
    /\ UNCHANGED <<last_id, quickdial_rows>> /\ QuickdialsFrame

Swapped(s, i, j) == [s EXCEPT ![i] = s[j], ![j] = s[i]]

\* Mutant of reorder_quickdial: the rows are not built again.
ReorderOnly(pos, target) ==
    /\ quickdials_json' = Whole(Swapped(quickdials_json.list, pos, target))
    /\ UNCHANGED <<last_id, quickdial_rows>> /\ QuickdialsFrame

\* With positions in the file and the rows built from it again.
reorder_quickdial(pos, target) ==
    /\ quickdials_json' = Whole(Swapped(quickdials_json.list, pos, target))
    /\ quickdial_rows' = Ids(quickdials_json'.list)
    /\ UNCHANGED last_id /\ QuickdialsFrame

\* The arrow buttons of a row; at the ends they do nothing.
MoveQuickdial(q) ==
    /\ dialog
    /\ \E pos, target \in DOMAIN quickdials_json.list :
          /\ quickdials_json.list[pos].id = q /\ (target = pos - 1 \/ target = pos + 1)
          /\ reorder_quickdial(pos, target)

\* refresh_quickdials: entries without a number get no button.
Buttons(list) == Ids(Where(list, LAMBDA q : q.number # ""))

CloseSettings ==
    /\ dialog /\ dialog' = FALSE
    /\ quickdial_bar' = Buttons(quickdials_json.list)
    /\ account_rows' = <<>> /\ quickdial_rows' = <<>> /\ registered_ids' = {}
    /\ UNCHANGED <<logVars, file, fileVars, engineVars, selectorVars>>

-----------------------------------------------------------------------------
(***************************************************************************)
(* The program's start with these files, and its end.                      *)
(***************************************************************************)
Started(accounts, quickdials, passwords, last) ==
    LET json == IF Migrates(accounts) THEN Whole(<<LegacyAccount(last + 1)>>) ELSE accounts
        list == load(json) IN
    /\ accounts_json' = json /\ quickdials_json' = quickdials
    /\ last_id' = IF Migrates(accounts) THEN last + 1 ELSE last
    /\ keyring' = [a \in Id |-> IF a \in Range(Ids(list)) /\ passwords[a] = "none" /\ Legacy
                                THEN "legacy" ELSE passwords[a]]
    /\ active_engines' = Connected(list, {a.id : a \in {b \in Range(list) : b.startup}})
    /\ registered' = {} /\ selector_account_ids' = <<>> /\ selected' = 1
    /\ UNCHANGED default_account
    /\ quickdial_bar' = Buttons(quickdials.list)
    /\ dialog' = FALSE /\ account_rows' = <<>> /\ quickdial_rows' = <<>> /\ registered_ids' = {}
    /\ UNCHANGED file

\* The user quits, or the program dies between two handlers.
Restart ==
    /\ LogRestarts
    /\ Migrates(accounts_json) => last_id < MaxIds
    /\ Started(accounts_json, quickdials_json, keyring, last_id)

\* It dies while a handler of the dialog writes its file.
CrashInWrite ==
    /\ "crash" \in Fault /\ dialog
    /\ LogRestarts
    /\ \/ file = "accounts" /\ last_id < MaxIds
          /\ Started(Torn, quickdials_json, keyring, last_id)
       \/ file = "quickdials" /\ Started(accounts_json, Torn, keyring, last_id)

\* It dies between the two writes of the delete button: the password is left behind.
CrashInDelete(a) ==
    /\ "crash" \in Fault /\ dialog /\ file = "accounts" /\ a \in Range(account_rows)
    /\ LogRestarts
    /\ Started(Whole(Dropped(load(accounts_json), a)), quickdials_json, keyring, last_id)

CrashInCall ==
    /\ file = "calls" /\ CrashInSave
    /\ Started(accounts_json, quickdials_json, keyring, last_id)

CallEnds ==
    /\ file = "calls" /\ CallLogged
    /\ UNCHANGED <<file, fileVars, dialogVars, quickdial_bar, engineVars, selectorVars>>

\* The first start: no file but, perhaps, the old settings.
StoresInit ==
    /\ LogInit
    /\ file \in {"accounts", "quickdials", "calls"}
    /\ accounts_json = IF Legacy THEN Whole(<<LegacyAccount(1)>>) ELSE Missing
    /\ quickdials_json = Missing
    /\ last_id = IF Legacy THEN 1 ELSE 0
    /\ keyring = [a \in Id |-> IF Legacy /\ a = 1 THEN "legacy" ELSE "none"]
    /\ active_engines = IF Legacy THEN <<1>> ELSE <<>>
    /\ registered = {} /\ default_account = 0
    /\ selector_account_ids = <<>> /\ selected = 1
    /\ quickdial_bar = <<>>
    /\ dialog = FALSE /\ account_rows = <<>> /\ quickdial_rows = <<>> /\ registered_ids = {}

StoresNext ==
    \/ \E a \in Id :
          \/ Registers(a) \/ RegistrationFails(a) \/ UserSelects(a)
          \/ DeleteAccount(a) \/ ToggleAccount(a) \/ CrashInDelete(a)
          \/ \E server \in Server, port \in Port, startup \in BOOLEAN :
                SaveAccount(a, server, port, startup)
          \/ DeleteQuickdial(a) \/ MoveQuickdial(a)
          \/ \E number \in {"", "number"} : SaveQuickdial(a, number)
    \/ ReconnectAll \/ OpenSettings \/ AddAccount \/ AddQuickdial \/ CloseSettings
    \/ CallEnds \/ CrashInCall \/ CrashInWrite \/ Restart

StoresSpec == StoresInit /\ [][StoresNext]_storeVars

-----------------------------------------------------------------------------
(***************************************************************************)
(* Properties.                                                             *)
(***************************************************************************)
\* Every variable has its type; ids are never given out twice.
StoresTypeOK ==
    /\ accounts_json.st \in {"missing", "whole", "torn"}
    /\ Range(accounts_json.list) \subseteq Account
    /\ quickdials_json.st \in {"missing", "whole", "torn"}
    /\ Range(quickdials_json.list) \subseteq QuickDial
    /\ keyring \in [Id -> {"none", "legacy", "typed"}]
    /\ IsInjective(Ids(accounts_json.list)) /\ IsInjective(Ids(quickdials_json.list))
    /\ Range(active_engines) \subseteq Id /\ IsInjective(active_engines)
    /\ registered \subseteq Range(active_engines)
    /\ last_id \in 0 .. MaxIds /\ Stored(accounts_json) \subseteq 0 .. last_id

\* What is on the screen is what is stored: the rows of the open dialog edit the
\* entries of the files in their order (settings_dialog.rs 536: "the saved order is
\* what the sidebar renders"), the closed one has left its quickdials on the bar, and
\* the Recents list starts with the log.
ScreensShowStores ==
    /\ dialog => account_rows = Ids(accounts_json.list)
                 /\ quickdial_rows = Ids(quickdials_json.list)
    /\ ~dialog => quickdial_bar = Buttons(quickdials_json.list)
    /\ Rows(records) = Prefix(recents, Len(records))

\* accounts.rs 122-135: a stored account leaves the file by its delete button only,
\* and enters it by the add button only; the old settings are imported once.  A write
\* of the file that a crash tears is left out: the accounts are lost then, and the old
\* settings come back at the next start.
AccountsAreUsers ==
    [][accounts_json.st = "whole" /\ ~CrashInWrite =>
           /\ \A a \in Stored(accounts_json) \ Stored(accounts_json)' :
                 DeleteAccount(a) \/ CrashInDelete(a)
           /\ Stored(accounts_json)' \subseteq Stored(accounts_json) \/ AddAccount]_storeVars

\* window.rs 746-748: the default outlives the account's absence and every restart
\* until the user selects another one, and calls go out on it whenever it is registered.
DefaultSurvives ==
    /\ [][default_account' # default_account => \E i \in Id : UserSelects(i)]_storeVars
    /\ [](default_account \in registered \cap Stored(accounts_json) =>
              selected_outgoing_account_id = default_account)

\* call_log.rs 49: what a crash or a full disk takes from the log is older than what
\* it leaves; only a name with a bar is lost as well.
RestartKeepsNewest ==
    [][\A i \in DOMAIN records, j \in DOMAIN records' :
          logged /\ Readable(records[i]) /\ records[i].started_at > records'[j].started_at =>
              records[i] \in Range(records')]_storeVars
=============================================================================
