SPECIFICATION Spec
CONSTANTS
  Admin = Admin
  Author = Author
  Reader = Reader
  Stranger = Stranger
  None = None
  Throws = Throws
  Wildcard = Wildcard
  Roles <- MCRoles
  Claims = {Admin, Author, Reader, Stranger}
  Actions = {"update"}
  Subjects = {"post"}
  Questions <- MCQuestions
  Policies <- MCPolicies
  Principals <- MCPrincipals
  Resources <- MCResources
  Envs <- MCEnvs
  Forms <- MCForms
  MaxDepth = 5
INVARIANTS
  ClosuresAreLeast DecisionIsOfTheSet IgnoranceNeverGrants
