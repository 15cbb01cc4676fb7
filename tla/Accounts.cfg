SPECIFICATION Spec
CONSTANTS
  ana = ana
  bia = bia
  eva = eva
  r1 = r1
  r2 = r2
  Users = {ana, bia, eva}
  Requests = {r1, r2}
  FormRoles = {"owner", "administrator", "operator"}
SYMMETRY MCSymmetry
INVARIANTS
  TypeOK
  AtMostOneOwner
PROPERTIES
  OwnershipHandedOver
  OwnerLostByLateChange
  OwnerShutOutByRace
