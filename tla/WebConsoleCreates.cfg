SPECIFICATION Spec
CONSTANTS
  t1 = t1
  t2 = t2
  u1 = u1
  u2 = u2
  m1 = m1
  m2 = m2
  b1 = b1
  q1 = q1
  k1 = k1
  k2 = k2
  o1 = o1
  p1 = p1
  p2 = p2
  p3 = p3
  NoRow = NoRow
  NoToken = NoToken
  Idle = Idle
  NoCliente = NoCliente
  Tenants = {t1, t2}
  Users = {u1, u2}
  Mails = {m1, m2}
  Browsers = {b1}
  FirstUsers <- MCFirstUsers
  TokenLife = 1
  MaxClock = 2
  MaxCommands = 2
  Quotes = {q1}
  QuoteTenant <- MCQuoteTenant
  Clientes = {k1, k2}
  ClienteTenant <- MCClienteTenant
  Obras = {o1}
  ObraCliente <- MCObraCliente
  NoObra = NoObra
  Produtos = {p1, p2, p3}
  ProdutoTenant <- MCProdutoTenant
  Ativos = {p1, p2}
  MaxCart = 2
  MaxRequests = 3
  MaxWork = 3

PROPERTIES CompleteRequestsCreate
CHECK_DEADLOCK FALSE
