------------------------- MODULE MCAgentOrchestrator -------------------------
(* Constants for model-checking AgentOrchestrator.                         *)
EXTENDS AgentOrchestrator

CONSTANTS g1, g2, alice, bob, viewer, agent, d1, d2, ingestor, proxy, t1, t2

MCRoleOf == [p \in Principals |-> IF p \in {alice, bob} THEN "OPERATOR"
                                  ELSE IF p = agent THEN "ENGINEER" ELSE "VIEWER"]

\* Both texts have the same first 120 characters.
MCPrefixOf == [t \in Texts |-> t1]

ReadTools == {"list_devices", "get_open_tickets", "search_knowledge", "get_device_status",
              "get_device_telemetry", "get_device_services", "get_recent_errors",
              "find_similar_incidents", "find_troubleshooting_steps"}

MCPermitted ==
    {alice, bob} \X (ReadTools \cup {"run_diagnostic_check", "generate_diagnostic_summary",
                                     "create_ticket", "restart_service"})
    \cup {agent} \X (ReadTools \cup {"run_diagnostic_check", "generate_diagnostic_summary",
                                     "create_ticket"})
    \cup {viewer} \X ReadTools

Says(user, words, device, service, approval, text) ==
    [user |-> user, words |-> words, device |-> device, service |-> service,
     approval |-> approval, text |-> text]

MCGrantedFor == [g \in Granted |-> IF g = g2 THEN <<d1, ingestor>> ELSE <<d1, proxy>>]

Ask == Says(alice, {"restart", "service"}, d1, None, None, t1)
UseOwn == Says(alice, {"restart", "service"}, d1, None, <<1, 1>>, t1)
Use(user, g) == Says(user, {"restart"}, d1, MCGrantedFor[g][2], g, t1)
NoDevice == Says(alice, {"restart"}, None, None, g1, t1)
Report1 == Says(viewer, {"why"}, d1, None, None, t1)
Report2 == Says(None, {"procedure"}, None, None, None, t1)
Question == Says(None, {}, d1, None, None, t1)
OpenTicket(user, device, text) == Says(user, {"ticket"}, device, None, None, text)

\* Chats that ask twice, ask and use, use one approval twice, restart two services,
\* open tickets for one and for two devices, and only read.
MCScripts ==
    { <<Ask, Ask>>, <<Ask, UseOwn>>, <<Use(alice, g1), Use(None, g1)>>, <<Use(alice, g1), Ask>>,
      <<Use(alice, g1), Use(alice, g2)>>,
      <<OpenTicket(alice, d1, t1), OpenTicket(alice, d2, t2)>>,
      <<OpenTicket(viewer, d1, t1), Report1>>,
      <<NoDevice, Report2>>, <<Question>> }

MCEvidence ==
    { [error |-> proxy, unhealthy |-> None, severity |-> "CRITICAL", confident |-> TRUE],
      [error |-> None, unhealthy |-> None, severity |-> "INFO", confident |-> FALSE] }
=============================================================================
