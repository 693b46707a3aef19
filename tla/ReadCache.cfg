\* A ticket, a company and its contact, a cache of one entry.
SPECIFICATION Spec
CONSTANTS
  ticket = ticket
  company = company
  contact = contact
  Tickets = Tickets
  Companies = Companies
  Contacts = Contacts
  Key <- Records
  Entity <- Entities
  KeyEntity <- Kinds
  Volatile <- OnlyTicket
  Never = {}
  Reader = {r1, r2}
  Writer = {x1}
  Route <- Routes
  MaxEntries = 1
  MaxWrites = 2
SYMMETRY Symmetry
INVARIANTS TypeOK StaleOnlyIfCrossed FoundWhenThere
