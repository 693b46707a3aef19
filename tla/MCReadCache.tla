---------------------------- MODULE MCReadCache ----------------------------
(* ReadCache on a small instance: a ticket (volatile), a company and a      *)
(* contact (reference), and the writes the service makes: a contact is      *)
(* written through its company.                                             *)
EXTENDS ReadCache, TLC

CONSTANTS ticket, company, contact, Tickets, Companies, Contacts

Records == {ticket, company, contact}
Entities == {Tickets, Companies, Contacts}
Kinds == (ticket :> Tickets) @@ (company :> Companies) @@ (contact :> Contacts)
OnlyTicket == {ticket}
Routes == {[path |-> Tickets, entity |-> Tickets], [path |-> Companies, entity |-> Companies],
           [path |-> Companies, entity |-> Contacts]}
Symmetry == Permutations(Reader)
=============================================================================
