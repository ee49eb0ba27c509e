------------------------------ MODULE SwitchCli ------------------------------
(***************************************************************************)
(* The command line thread of the virtual switch beside its main thread    *)
(* (final_project/v_switch.c, cli_task_func and cmd_show_mac_table).  The  *)
(* two share the MAC table and take no lock: "show mac_table" walks the    *)
(* table with GLib's iterator and reads each record field by field while   *)
(* the main thread inserts, overwrites and frees.  That is a data race: an *)
(* iterator whose table has changed may pair any key with any record that  *)
(* is or was there during the walk, or end early, and a read of freed      *)
(* memory gives anything or ends the process.                              *)
(***************************************************************************)
EXTENDS VSwitch

VARIABLES
  cli,     \* where the thread is: accepting, in a session, in the walk, or
           \* between two reads of a row; "crashed" once the process is gone
  walked,  \* the stations the walk has returned
  key,     \* the station whose key the iterator returned
  record,  \* the station whose record it returned
  freed,   \* which of the two was freed: a subset of {"key", "record"}
  moved,   \* the stations that were inserted or removed since the walk began
  row,     \* what is printed of the row
  seen     \* history, read by no action: the entries the table held at some
           \* time since the row was begun

cliVars == <<cli, walked, key, record, freed, moved, row, seen>>
allVars == <<vars, cliVars>>

Row == [mac : MAC, ip : Host, port : UdpPort]

\* What the table shows for the stations it holds.
Entries ==
  {[mac |-> m, ip |-> mac_table[m].addr.ip, port |-> mac_table[m].addr.port] :
     m \in DOMAIN mac_table}

\* The thread starts with nothing printed; pointers and fields hold anything
\* until they are set.
CliInit ==
  /\ Init
  /\ cli = "accept"
  /\ walked = {}
  /\ key \in MAC
  /\ record \in MAC
  /\ freed = {}
  /\ moved = {}
  /\ row \in Row
  /\ seen = {}

\* A client connects; the next one waits in the backlog until this one leaves.
AcceptClient ==
  /\ cli = "accept"
  /\ cli' = "session"
  /\ UNCHANGED <<walked, key, record, freed, moved, row, seen>>

\* cli_loop returns and the connection is closed.
CloseClient ==
  /\ cli = "session"
  /\ cli' = "accept"
  /\ UNCHANGED <<walked, key, record, freed, moved, row, seen>>

\* show mac_table: g_hash_table_iter_init.
ShowMacTable ==
  /\ cli = "session"
  /\ cli' = "walk"
  /\ walked' = {}
  /\ moved' = {}
  /\ UNCHANGED <<key, record, freed, row, seen>>

\* The stations the iterator may come upon: the expected ones and, once the table
\* has moved, all that are or were in it.
Upon(expected) ==
  IF moved = {} THEN expected ELSE DOMAIN mac_table \cup moved

\* What a pointer to station m's memory is worth now.
Stale(m, what) == IF m \in DOMAIN mac_table THEN {} ELSE {what}

\* g_hash_table_iter_next reads a key: one it has not returned yet, or whatever
\* it finds once the table has moved ...
NextKey ==
  /\ cli = "walk"
  /\ \E m \in Upon(DOMAIN mac_table \ walked) :
       /\ key' = m
       /\ walked' = walked \cup {m}
       /\ freed' = Stale(m, "key")
  /\ seen' = Entries
  /\ cli' = "record"
  /\ UNCHANGED <<record, moved, row>>

\* ... and then a record: the key's, as long as the table has not moved.
NextRecord ==
  /\ cli = "record"
  /\ \E m \in Upon({key}) :
       /\ record' = m
       /\ freed' = freed \cup Stale(m, "record")
  /\ cli' = "mac"
  /\ UNCHANGED <<walked, key, moved, row, seen>>

\* The walk is over.
EndWalk ==
  /\ cli = "walk"
  /\ moved # {} \/ DOMAIN mac_table \subseteq walked
  /\ cli' = "session"
  /\ UNCHANGED <<walked, key, record, freed, moved, row, seen>>

\* What is read through a pointer: v, or any of the values if it was freed.
Read(what, v, values) == IF what \in freed THEN values ELSE {v}

\* cli_print of the key ...
PrintMac ==
  /\ cli = "mac"
  /\ \E m \in Read("key", key, MAC) : row' = [row EXCEPT !.mac = m]
  /\ cli' = "ip"
  /\ UNCHANGED <<walked, key, record, freed, moved, seen>>

\* ... of the address ...
PrintIp ==
  /\ cli = "ip"
  /\ \E h \in Read("record", mac_table[record].addr.ip, Host) :
       row' = [row EXCEPT !.ip = h]
  /\ cli' = "port"
  /\ UNCHANGED <<walked, key, record, freed, moved, seen>>

\* ... and of the port number, each a read of its own.
PrintPort ==
  /\ cli = "port"
  /\ \E u \in Read("record", mac_table[record].addr.port, UdpPort) :
       row' = [row EXCEPT !.port = u]
  /\ cli' = "walk"
  /\ UNCHANGED <<walked, key, record, freed, moved, seen>>

\* A read of freed memory, or of a table that was moved away, ends the process.
Crash ==
  /\ \/ cli = "mac" /\ "key" \in freed
     \/ cli \in {"ip", "port"} /\ "record" \in freed
     \/ cli \in {"walk", "record"} /\ moved # {}
  /\ cli' = "crashed"
  /\ UNCHANGED <<walked, key, record, freed, moved, row, seen>>

CliStep ==
  \/ AcceptClient
  \/ CloseClient
  \/ ShowMacTable
  \/ NextKey
  \/ NextRecord
  \/ EndWalk
  \/ PrintMac
  \/ PrintIp
  \/ PrintPort
  \/ Crash

\* A step of the main thread, and what it does to a walk in progress.
MainStep ==
  /\ cli # "crashed"
  /\ Next
  /\ LET gone == DOMAIN mac_table \ DOMAIN mac_table'
         new  == DOMAIN mac_table' \ DOMAIN mac_table
     IN  /\ moved' = moved \cup gone \cup new
         /\ freed' = freed \cup (IF key \in gone THEN {"key"} ELSE {})
                           \cup (IF record \in gone THEN {"record"} ELSE {})
  /\ seen' = seen \cup Entries'
  /\ UNCHANGED <<cli, walked, key, record, row>>

CliNext == (CliStep /\ UNCHANGED vars) \/ MainStep

CliSpec == CliInit /\ [][CliNext]_allVars

-----------------------------------------------------------------------------
\* A row has just been printed in full.
Printed == cli = "walk" /\ walked # {}

\* show mac_table shows entries of the MAC table (v_switch.c:535): a row it has
\* printed was an entry at some time while it was printed.  It need not be: see
\* the run cli.
RowIsEntry == Printed => row \in seen
=============================================================================
